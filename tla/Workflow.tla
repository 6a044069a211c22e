------------------------------ MODULE Workflow ------------------------------
(***************************************************************************)
(* The workflow table of AgentOS and the processes that enter and leave    *)
(* it: fork, agent_create, exit, wait, kill, agent_wait and the cascade    *)
(* that terminates a workflow (kernel/agent.c, kernel/proc.c).             *)
(*                                                                         *)
(* One action is one region the kernel runs without another CPU being able *)
(* to see its middle: a region under agent_global.lock, a region under one *)
(* p->lock, or writes to fields only their owner reads.  A process inside  *)
(* a system call is between two such regions; pc says where.  proc[] slots *)
(* and workflows[] entries keep their order, as the loops of the code do.  *)
(*                                                                         *)
(* "RUNNABLE" stands for RUNNABLE and RUNNING.  initproc, which is never   *)
(* an agent and never exits, is outside the table.                         *)
(***************************************************************************)
EXTENDS Integers, FiniteSets

CONSTANTS
    NPROC,          \* process slots
    WorkflowMax,    \* AGENT_WORKFLOW_MAX
    MemberMax,      \* AGENT_WORKFLOW_MEMBER_MAX
    MaxPid,         \* bound of the model: processes ever created
    Calls           \* bound of the model: what the program in a slot does
Slots   == 1..NPROC
Entries == 1..WorkflowMax

\* agent_create by type, role_set and cap_set by what they do to the
\* WORKFLOW_CTRL capability; "killed" is a kill() of the process.
CallNames == {"fork", "PRIMARY", "WORKER", "CTRL", "NOCTRL", "cascade", "wait",
              "killed"}

ASSUME SizesAssumption ==
    /\ NPROC \in Nat \ {0}
    /\ WorkflowMax \in Nat \ {0}
    /\ MemberMax \in Nat \ {0}
    /\ MaxPid \in Nat \ {0}
    /\ Calls \in [Slots -> SUBSET CallNames]

VARIABLES
    st,             \* p->state
    pid,            \* p->pid
    ident,          \* p->identity_generation
    type,           \* p->agent_type
    key,            \* <<p->workflow_id, p->workflow_leader_generation>>
    role,           \* p->agent_role_locked and the WORKFLOW_CTRL capability
    leaders,        \* slots with p->is_workflow_leader
    registered,     \* slots with p->workflow_member_registered
    killed,         \* slots with p->killed
    locked,         \* slots whose p->lock is held from one step to the next
    pc,             \* where the process is in the kernel
    child,          \* fork: np
    cursor,         \* agent_cascade_terminate: the loop's p
    wkey,           \* workflows[i]: key, NoKey when not used
    wstate,         \* workflows[i].state
    wcount,         \* workflows[i].member_count
    nextpid,        \* nextpid
    nextident       \* agent_global.next_identity_generation

procVars == <<st, pid, ident, type, key, role, leaders, registered, killed>>
ctlVars  == <<locked, pc, child, cursor>>
tabVars  == <<wkey, wstate, wcount>>
idVars   == <<nextpid, nextident>>
vars     == <<procVars, ctlVars, tabVars, idVars>>

NoKey == <<0, 0>>

\* The two lines where a process runs the loop of agent_cascade_terminate.
InCascade(p) == pc[p] \in {"cascade", "exit_cascade"}

\* agent_workflow_leave has left the table but not yet cleared the flag.
Leaving(p) == pc[p] \in {"mark_unreg", "exit_zombie"}

-----------------------------------------------------------------------------
(* The table, under agent_global.lock.                                     *)

Found(k) == \E w \in Entries : wkey[w] = k

Terminating(k) == \E w \in Entries : wkey[w] = k /\ wstate[w] = "TERMINATING"

AddMember(k) ==
    /\ wcount' = [w \in Entries |->
                    IF wkey[w] = k THEN wcount[w] + 1 ELSE wcount[w]]
    /\ UNCHANGED <<wkey, wstate>>

\* Mutant: the check of TERMINATING is missing.
MayCreate_Reopens(k) == Found(k) \/ Found(NoKey)

\* agent_workflow_create_locked returns OK.
MayCreate(k) ==
    IF Found(k) THEN ~Terminating(k) ELSE Found(NoKey)

\* ... and what it does then: join the workflow or take the first free entry.
CreateLocked(k) ==
    \/ Found(k) /\ AddMember(k)
    \/ /\ ~Found(k)
       /\ \E w \in Entries :
            /\ wkey[w] = NoKey
            /\ \A v \in 1..(w - 1) : wkey[v] # NoKey
            /\ wkey' = [wkey EXCEPT ![w] = k]
            /\ wstate' = [wstate EXCEPT ![w] = "ACTIVE"]
            /\ wcount' = [wcount EXCEPT ![w] = 1]

\* Mutant: the check of TERMINATING is missing.
MayJoin_Late(k) ==
    \E w \in Entries : wkey[w] = k /\ wcount[w] < MemberMax

\* agent_workflow_join_locked returns OK, for a process with a workflow; it
\* then counts one more member (AddMember).
MayJoin(k) ==
    /\ Found(k)
    /\ \A w \in Entries :
         wkey[w] = k => wstate[w] # "TERMINATING" /\ wcount[w] < MemberMax

\* agent_workflow_begin_terminate_locked; SERVICE_GONE changes nothing.
BeginTerminateLocked(k) ==
    /\ wstate' = [w \in Entries |->
                    IF wkey[w] = k THEN "TERMINATING" ELSE wstate[w]]
    /\ UNCHANGED <<wkey, wcount>>

\* Mutant: off by one, the last member's entry stays.
LeaveLocked_OffByOne(k) ==
    /\ wcount' = [w \in Entries |-> IF wkey[w] = k THEN wcount[w] - 1
                                                   ELSE wcount[w]]
    /\ UNCHANGED <<wkey, wstate>>

\* agent_workflow_leave, the region under the lock: the last member frees
\* the entry.
LeaveLocked(k) ==
    LET last(w) == wkey[w] = k /\ wcount[w] <= 1 IN
    /\ wcount' = [w \in Entries |-> IF last(w) THEN 0
                                    ELSE IF wkey[w] = k THEN wcount[w] - 1
                                    ELSE wcount[w]]
    /\ wkey' = [w \in Entries |-> IF last(w) THEN NoKey ELSE wkey[w]]
    /\ wstate' = [w \in Entries |-> IF last(w) THEN "NONE" ELSE wstate[w]]

-----------------------------------------------------------------------------
(* Processes.                                                              *)

Init ==
    /\ st = [p \in Slots |-> IF p = 1 THEN "RUNNABLE" ELSE "UNUSED"]
    /\ pid = [p \in Slots |-> IF p = 1 THEN 1 ELSE 0]
    /\ ident = [p \in Slots |-> 0]
    /\ type = [p \in Slots |-> "NORMAL"]
    /\ key = [p \in Slots |-> NoKey]
    /\ role = [p \in Slots |-> "UNSET"]
    /\ leaders = {}
    /\ registered = {}
    /\ killed = {}
    /\ locked = {}
    /\ pc = [p \in Slots |-> IF p = 1 THEN "user" ELSE "none"]
    /\ child = [p \in Slots |-> 0]
    /\ cursor = [p \in Slots |-> 0]
    /\ wkey = [w \in Entries |-> NoKey]
    /\ wstate = [w \in Entries |-> "NONE"]
    /\ wcount = [w \in Entries |-> 0]
    /\ nextpid = 2
    /\ nextident = 1

\* A process that is about to enter a system call: usertrap has just found
\* p->killed clear.
InUser(p) == st[p] = "RUNNABLE" /\ pc[p] = "user" /\ p \notin killed

(* fork.  allocproc returns with np->lock held; the slot it finds is any    *)
(* unused one, since slots behind the scan may become unused during it.     *)
ForkAlloc(p, np) ==
    /\ InUser(p) /\ "fork" \in Calls[p]
    /\ nextpid <= MaxPid
    /\ st[np] = "UNUSED" /\ np \notin locked
    /\ st' = [st EXCEPT ![np] = "USED"]
    /\ pid' = [pid EXCEPT ![np] = nextpid]
    /\ nextpid' = nextpid + 1
    /\ locked' = locked \cup {np}
    /\ child' = [child EXCEPT ![p] = np]
    /\ pc' = [pc EXCEPT ![p] = "fork_join"]
    /\ UNCHANGED <<ident, type, key, role, leaders, registered, killed,
                   cursor, tabVars, nextident>>

\* No memory for the child: freeproc(np), release(&np->lock), return -1.
ForkAbort(p) ==
    /\ pc[p] = "fork_join"
    /\ LET np == child[p] IN
       /\ st' = [st EXCEPT ![np] = "UNUSED"]
       /\ pid' = [pid EXCEPT ![np] = 0]
       /\ killed' = killed \ {np}
       /\ locked' = locked \ {np}
    /\ child' = [child EXCEPT ![p] = 0]
    /\ pc' = [pc EXCEPT ![p] = "user"]
    /\ UNCHANGED <<ident, type, key, role, leaders, registered, cursor,
                   tabVars, idVars>>

\* agent_after_fork, then release(&np->lock).
ForkJoin(p) ==
    /\ pc[p] = "fork_join"
    /\ LET np == child[p] IN
       /\ type' = [type EXCEPT ![np] = type[p]]
       /\ role' = [role EXCEPT ![np] = "UNSET"]
       /\ key' = [key EXCEPT ![np] = key[p]]
       /\ ident' = [ident EXCEPT ![np] = nextident]
       /\ nextident' = nextident + 1
       /\ \/ /\ key[p] = NoKey
             /\ UNCHANGED <<registered, killed, tabVars>>
          \/ /\ key[p] # NoKey /\ MayJoin(key[p])
             /\ AddMember(key[p])
             /\ registered' = registered \cup {np}
             /\ UNCHANGED killed
          \/ /\ key[p] # NoKey /\ ~MayJoin(key[p])
             /\ killed' = killed \cup {np}
             /\ UNCHANGED <<registered, tabVars>>
       /\ locked' = locked \ {np}
    /\ pc' = [pc EXCEPT ![p] = "fork_publish"]
    /\ UNCHANGED <<st, pid, leaders, child, cursor, nextpid>>

\* np->state = RUNNABLE: the child starts in user mode.
ForkPublish(p) ==
    /\ pc[p] = "fork_publish"
    /\ child[p] \notin locked
    /\ st' = [st EXCEPT ![child[p]] = "RUNNABLE"]
    /\ pc' = [pc EXCEPT ![p] = "user", ![child[p]] = "user"]
    /\ child' = [child EXCEPT ![p] = 0]
    /\ UNCHANGED <<pid, ident, type, key, role, leaders, registered, killed,
                   locked, cursor, tabVars, idVars>>

(* agent_create.  The first part of agent_mark_current up to the call of    *)
(* agent_workflow_leave; none of these fields is written under p->lock.     *)
MarkBegin(p, t) ==
    /\ InUser(p) /\ t \in Calls[p]
    /\ type' = [type EXCEPT ![p] = t]
    /\ role' = [role EXCEPT ![p] = IF t = "PRIMARY" THEN "CTRL" ELSE "UNSET"]
    /\ IF ident[p] = 0
       THEN /\ ident' = [ident EXCEPT ![p] = nextident]
            /\ nextident' = nextident + 1
       ELSE UNCHANGED <<ident, nextident>>
    /\ pc' = [pc EXCEPT ![p] = IF t = "PRIMARY" /\ p \in registered
                               THEN "mark_leave" ELSE "mark_key"]
    /\ UNCHANGED <<st, pid, key, leaders, registered, killed, locked, child,
                   cursor, tabVars, nextpid>>

MarkLeave(p) ==
    /\ pc[p] = "mark_leave"
    /\ LeaveLocked(key[p])
    /\ pc' = [pc EXCEPT ![p] = "mark_unreg"]
    /\ UNCHANGED <<procVars, locked, child, cursor, idVars>>

\* The workflow a process gets: its own when it is PRIMARY or has none.
MarkKey(p) ==
    /\ pc[p] \in {"mark_key", "mark_unreg"}
    /\ registered' = IF pc[p] = "mark_unreg" THEN registered \ {p}
                                             ELSE registered
    /\ leaders' = IF type[p] = "PRIMARY" THEN leaders \cup {p}
                                         ELSE leaders \ {p}
    /\ IF type[p] = "PRIMARY" \/ key[p] = NoKey
       THEN /\ key' = [key EXCEPT ![p] = <<pid[p], ident[p]>>]
            /\ pc' = [pc EXCEPT ![p] = "mark_create"]
       ELSE /\ pc' = [pc EXCEPT ![p] = IF p \in registered THEN "user"
                                                           ELSE "mark_join"]
            /\ UNCHANGED key
    /\ UNCHANGED <<st, pid, ident, type, role, killed, locked, child, cursor,
                   tabVars, idVars>>

\* A refused entry leaves the process unregistered; agent_create succeeds.
MarkCreate(p) ==
    /\ pc[p] = "mark_create"
    /\ \/ /\ MayCreate(key[p])
          /\ CreateLocked(key[p])
          /\ registered' = registered \cup {p}
       \/ /\ ~MayCreate(key[p])
          /\ UNCHANGED <<registered, tabVars>>
    /\ pc' = [pc EXCEPT ![p] = "user"]
    /\ UNCHANGED <<st, pid, ident, type, key, role, leaders, killed, locked,
                   child, cursor, idVars>>

\* An unregistered WORKER that has a workflow; a failure returns -1.
MarkJoin(p) ==
    /\ pc[p] = "mark_join"
    /\ \/ /\ MayJoin(key[p])
          /\ AddMember(key[p])
          /\ registered' = registered \cup {p}
       \/ /\ ~MayJoin(key[p])
          /\ UNCHANGED <<registered, tabVars>>
    /\ pc' = [pc EXCEPT ![p] = "user"]
    /\ UNCHANGED <<st, pid, ident, type, key, role, leaders, killed, locked,
                   child, cursor, idVars>>

(* agent_proc_role_set and agent_proc_cap_set, as far as WORKFLOW_CTRL is   *)
(* concerned: a role is given once, capabilities only shrink.               *)
RoleSet(p, r) ==
    /\ InUser(p) /\ r \in Calls[p]
    /\ type[p] # "NORMAL"
    /\ role[p] = "UNSET"
    /\ role' = [role EXCEPT ![p] = r]
    /\ UNCHANGED <<st, pid, ident, type, key, leaders, registered, killed,
                   ctlVars, tabVars, idVars>>

CapDrop(p) ==
    /\ InUser(p) /\ "NOCTRL" \in Calls[p]
    /\ type[p] # "NORMAL"
    /\ role[p] = "CTRL"
    /\ role' = [role EXCEPT ![p] = "NOCTRL"]
    /\ UNCHANGED <<st, pid, ident, type, key, leaders, registered, killed,
                   ctlVars, tabVars, idVars>>

(* agent_cascade_kill: agent_cascade_terminate(myproc(), reason, 0).        *)
CascadeBegin(p) ==
    /\ InUser(p) /\ "cascade" \in Calls[p]
    /\ type[p] # "NORMAL"
    /\ p \in leaders \/ role[p] = "CTRL"
    /\ key[p] # NoKey
    /\ BeginTerminateLocked(key[p])
    /\ cursor' = [cursor EXCEPT ![p] = 1]
    /\ pc' = [pc EXCEPT ![p] = "cascade"]
    /\ UNCHANGED <<procVars, locked, child, idVars>>

\* Mutant: a sleeping process is only marked.
Woken_Not(q) == st[q]

\* p->state of a process that is killed.
Woken(q) == IF st[q] = "SLEEPING" THEN "RUNNABLE" ELSE st[q]

\* One turn of the loop, under p->lock of the slot it looks at.
CascadeStep(p) ==
    LET q == cursor[p]
        hit == /\ st[q] # "UNUSED" /\ type[q] # "NORMAL"
               /\ key[q] = key[p] /\ q # p
    IN  /\ InCascade(p)
        /\ q \notin locked
        /\ killed' = IF hit THEN killed \cup {q} ELSE killed
        /\ st' = IF hit THEN [st EXCEPT ![q] = Woken(q)] ELSE st
        /\ IF q < NPROC
           THEN cursor' = [cursor EXCEPT ![p] = q + 1] /\ UNCHANGED pc
           ELSE /\ cursor' = [cursor EXCEPT ![p] = 0]
                /\ pc' = [pc EXCEPT ![p] = IF @ = "cascade" THEN "user"
                                                            ELSE "exit_leave"]
        /\ UNCHANGED <<pid, ident, type, key, role, leaders, registered,
                       locked, child, tabVars, idVars>>

(* exit, called by the process or by usertrap for a killed one.             *)
ExitBegin(p) ==
    /\ st[p] = "RUNNABLE" /\ pc[p] = "user"
    /\ IF p \in leaders
       THEN /\ BeginTerminateLocked(key[p])
            /\ cursor' = [cursor EXCEPT ![p] = 1]
            /\ pc' = [pc EXCEPT ![p] = "exit_cascade"]
       ELSE /\ pc' = [pc EXCEPT ![p] = "exit_leave"]
            /\ UNCHANGED <<cursor, tabVars>>
    /\ UNCHANGED <<procVars, locked, child, idVars>>

ExitLeave(p) ==
    /\ pc[p] = "exit_leave"
    /\ IF p \in registered THEN LeaveLocked(key[p]) ELSE UNCHANGED tabVars
    /\ pc' = [pc EXCEPT ![p] = "exit_zombie"]
    /\ UNCHANGED <<procVars, locked, child, cursor, idVars>>

ExitZombie(p) ==
    /\ pc[p] = "exit_zombie"
    /\ registered' = registered \ {p}
    /\ st' = [st EXCEPT ![p] = "ZOMBIE"]
    /\ pc' = [pc EXCEPT ![p] = "none"]
    /\ UNCHANGED <<pid, ident, type, key, role, leaders, killed, locked,
                   child, cursor, tabVars, idVars>>

\* wait, called by the parent or, after it is gone, by initproc: freeproc.
Reap(q) ==
    /\ st[q] = "ZOMBIE"
    /\ st' = [st EXCEPT ![q] = "UNUSED"]
    /\ pid' = [pid EXCEPT ![q] = 0]
    /\ ident' = [ident EXCEPT ![q] = 0]
    /\ type' = [type EXCEPT ![q] = "NORMAL"]
    /\ key' = [key EXCEPT ![q] = NoKey]
    /\ role' = [role EXCEPT ![q] = "UNSET"]
    /\ leaders' = leaders \ {q}
    /\ registered' = registered \ {q}
    /\ killed' = killed \ {q}
    /\ UNCHANGED <<ctlVars, tabVars, idVars>>

(* kill(pid) for a process that exists, from anywhere.                      *)
Kill(q) ==
    /\ "killed" \in Calls[q]
    /\ pid[q] # 0 /\ q \notin locked
    /\ killed' = killed \cup {q}
    /\ st' = [st EXCEPT ![q] = Woken(q)]
    /\ UNCHANGED <<pid, ident, type, key, role, leaders, registered, ctlVars,
                   tabVars, idVars>>

(* agent_wait: p->lock is held from the test of p->killed to the sleep.     *)
WaitSleep(p) ==
    /\ InUser(p) /\ "wait" \in Calls[p]
    /\ type[p] # "NORMAL"
    /\ st' = [st EXCEPT ![p] = "SLEEPING"]
    /\ pc' = [pc EXCEPT ![p] = "wait"]
    /\ UNCHANGED <<pid, ident, type, key, role, leaders, registered, killed,
                   locked, child, cursor, tabVars, idVars>>

\* A message, a file change, a heartbeat or the timeout wakes the sleeper.
WaitWake(p) ==
    /\ st[p] = "SLEEPING"
    /\ st' = [st EXCEPT ![p] = "RUNNABLE"]
    /\ UNCHANGED <<pid, ident, type, key, role, leaders, registered, killed,
                   ctlVars, tabVars, idVars>>

WaitReturn(p) ==
    /\ pc[p] = "wait" /\ st[p] = "RUNNABLE"
    /\ pc' = [pc EXCEPT ![p] = "user"]
    /\ UNCHANGED <<procVars, locked, child, cursor, tabVars, idVars>>

-----------------------------------------------------------------------------

\* The rest of a system call that p has begun.
Continue(p) ==
    \/ ForkJoin(p) \/ ForkAbort(p) \/ ForkPublish(p)
    \/ MarkLeave(p) \/ MarkKey(p) \/ MarkCreate(p) \/ MarkJoin(p)
    \/ CascadeStep(p) \/ ExitLeave(p) \/ ExitZombie(p) \/ WaitReturn(p)

Call(p) ==
    \/ \E np \in Slots : ForkAlloc(p, np)
    \/ \E t \in {"PRIMARY", "WORKER"} : MarkBegin(p, t)
    \/ \E r \in {"CTRL", "NOCTRL"} : RoleSet(p, r)
    \/ CapDrop(p) \/ CascadeBegin(p) \/ WaitSleep(p)

Next ==
    \E p \in Slots :
        \/ Continue(p) \/ Call(p) \/ ExitBegin(p)
        \/ Reap(p) \/ Kill(p) \/ WaitWake(p)

Spec == Init /\ [][Next]_vars

(* A CPU inside the kernel goes on, and usertrap makes a killed process     *)
(* exit; nothing is assumed about what programs or other processes do.      *)
Fairness ==
    \A p \in Slots :
        /\ WF_vars(Continue(p))
        /\ WF_vars(p \in killed /\ ExitBegin(p))

FairSpec == Spec /\ Fairness

-----------------------------------------------------------------------------
(* Properties.                                                             *)

PcValues == {"none", "user", "wait", "fork_join", "fork_publish",
             "mark_leave", "mark_unreg", "mark_key", "mark_create",
             "mark_join", "cascade", "exit_cascade", "exit_leave",
             "exit_zombie"}

\* Types of the variables.
TypeOK ==
    /\ st \in [Slots -> {"UNUSED", "USED", "RUNNABLE", "SLEEPING", "ZOMBIE"}]
    /\ pid \in [Slots -> Nat]
    /\ ident \in [Slots -> Nat]
    /\ type \in [Slots -> {"NORMAL", "PRIMARY", "WORKER"}]
    /\ key \in [Slots -> Nat \X Nat]
    /\ role \in [Slots -> {"UNSET", "CTRL", "NOCTRL"}]
    /\ leaders \subseteq Slots
    /\ registered \subseteq Slots
    /\ killed \subseteq Slots
    /\ locked \subseteq Slots
    /\ pc \in [Slots -> PcValues]
    /\ child \in [Slots -> Slots \cup {0}]
    /\ cursor \in [Slots -> Slots \cup {0}]
    /\ wkey \in [Entries -> Nat \X Nat]
    /\ wstate \in [Entries -> {"NONE", "ACTIVE", "TERMINATING"}]
    /\ wcount \in [Entries -> Nat]
    /\ nextpid \in Nat \ {0}
    /\ nextident \in Nat \ {0}

\* The processes the table counts for workflow k.
Members(k) == {p \in registered \ {q \in Slots : Leaving(q)} : key[p] = k}

\* member_count of every entry is the number of its registered members, no
\* registered process lacks an entry and no entry outlives its members: the
\* joins of fork and agent_create and the leaves of agent_create and exit,
\* whatever their order, never lose or leak a member or an entry.
MemberCountExact ==
    /\ \A w \in Entries : wkey[w] # NoKey =>
         wcount[w] = Cardinality(Members(wkey[w])) /\ wcount[w] > 0
    /\ \A p \in registered : Leaving(p) \/ Found(key[p])
    /\ \A v, w \in Entries : wkey[v] = wkey[w] /\ wkey[v] # NoKey => v = w

\* The agents of workflow k that nobody has killed yet.
Survivors(k) ==
    {p \in Slots \ killed : st[p] # "UNUSED" /\ type[p] # "NORMAL"
                            /\ key[p] = k}

\* Once no cascade over a TERMINATING workflow is in progress, at most one of
\* its agents, the caller of the cascade, has not been killed: neither a fork
\* that races with the loop nor one that comes after it leaves an agent behind
\* (agent_cascade_terminate, agent_after_fork).
CascadeComplete ==
    \A w \in Entries :
        /\ wstate[w] = "TERMINATING"
        /\ \A p \in Slots : InCascade(p) => key[p] # wkey[w]
        => \A p, q \in Survivors(wkey[w]) : p = q

\* A workflow that is terminating gains no member.
TerminatingIsClosed ==
    [][\A w \in Entries :
         wstate[w] = "TERMINATING" /\ wkey'[w] = wkey[w] /\ wstate'[w] # "NONE"
         => wstate'[w] = "TERMINATING" /\ wcount'[w] <= wcount[w]]_vars

\* When a leader exits, its workflow is eventually gone from the table: every
\* member is killed, woken if it sleeps in agent_wait, and leaves.
ExitReclaimsWorkflow ==
    \A n \in 1..MaxPid :
        (\E p \in Slots : pc[p] = "exit_cascade" /\ key[p][1] = n)
            ~> \A w \in Entries : wkey[w][1] # n

-----------------------------------------------------------------------------
(* The inductive invariant behind MemberCountExact and CascadeComplete.    *)

\* What p->state says of the other fields.
StateInv ==
    \A p \in Slots :
        /\ st[p] \in {"RUNNABLE", "SLEEPING"} <=> pc[p] # "none"
        /\ st[p] = "SLEEPING" => pc[p] = "wait"
        /\ st[p] = "UNUSED" => /\ pid[p] = 0 /\ key[p] = NoKey
                               /\ type[p] = "NORMAL" /\ p \notin leaders
        /\ st[p] # "UNUSED" => pid[p] # 0
        /\ st[p] \in {"UNUSED", "ZOMBIE"} => p \notin registered
        /\ p \in registered => key[p] # NoKey
        /\ p \in leaders \/ InCascade(p) => key[p] # NoKey
        /\ InCascade(p) => cursor[p] \in Slots

\* What a process inside fork knows of its child: nobody else has it, and up
\* to agent_after_fork it is blank.
ForkInv ==
    \A p \in Slots :
        pc[p] \in {"fork_join", "fork_publish"} =>
            /\ child[p] \in Slots
            /\ st[child[p]] = "USED"
            /\ \A q \in Slots \ {p} :
                 pc[q] \in {"fork_join", "fork_publish"} => child[q] # child[p]
            /\ pc[p] = "fork_join" =>
                 /\ child[p] \notin registered \cup leaders
                 /\ key[child[p]] = NoKey
                 /\ type[child[p]] = "NORMAL"

\* What the steps of agent_create know.
MarkInv ==
    \A p \in Slots :
        /\ pc[p] \in {"mark_leave", "mark_unreg"} =>
             type[p] = "PRIMARY" /\ p \in registered
        /\ pc[p] = "mark_key" =>
             type[p] # "NORMAL" /\ (type[p] = "PRIMARY" => p \notin registered)
        /\ pc[p] \in {"mark_create", "mark_join"} =>
             key[p] # NoKey /\ p \notin registered

CountInv == TypeOK /\ StateInv /\ ForkInv /\ MarkInv /\ MemberCountExact

\* Pids and workflow keys: pids are never used twice, a workflow whose id is a
\* live process's pid is the one that process is in.
KeyInv ==
    /\ \A p \in Slots : pid[p] < nextpid
    /\ \A p, q \in Slots : pid[p] = pid[q] /\ pid[p] # 0 => p = q
    /\ \A p \in Slots : key[p][1] < nextpid
    /\ \A w \in Entries : wkey[w][1] < nextpid
    /\ \A p, q \in Slots :
         pid[p] # 0 /\ key[q][1] = pid[p] => key[q] = key[p]
    /\ \A p \in Slots, w \in Entries :
         pid[p] # 0 /\ wkey[w][1] = pid[p] => wkey[w] = key[p]
    /\ \A p \in Slots :
         pid[p] # 0 /\ key[p][1] = pid[p] => key[p] = <<pid[p], ident[p]>>
    /\ \A p \in Slots :
         type[p] # "NORMAL" \/ (pid[p] # 0 /\ key[p][1] = pid[p])
           => ident[p] # 0

\* A process that may fork or cascade is a counted member of its workflow or
\* the process the workflow is named after.
OwnerInv ==
    \A p \in Slots :
        /\ st[p] \notin {"UNUSED", "ZOMBIE"} /\ p \notin killed
             => key[p] = NoKey \/ p \in registered \/ key[p][1] = pid[p]
        /\ p \in leaders => key[p][1] = pid[p]
        /\ pc[p] = "mark_create" => key[p][1] = pid[p]
        /\ type[p] = "NORMAL" => key[p] = NoKey
        /\ InCascade(p) => p \in registered \/ key[p][1] = pid[p]

\* An unused entry has no state.
EntryInv == \A w \in Entries : wkey[w] = NoKey => wstate[w] = "NONE"

\* While a process runs the loop of a cascade, its workflow is TERMINATING or
\* gone, and the loop has left no agent alive behind it.
LoopInv ==
    \A p \in Slots : InCascade(p) =>
        /\ \A w \in Entries : wkey[w] = key[p] => wstate[w] = "TERMINATING"
        /\ \A q \in Survivors(key[p]) : q < cursor[p] => q = p

CascadeInv ==
    CountInv /\ KeyInv /\ OwnerInv /\ EntryInv /\ LoopInv /\ CascadeComplete
=============================================================================
