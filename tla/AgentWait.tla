----------------------------- MODULE AgentWait -----------------------------
(***************************************************************************)
(* The mailbox of an agent and agent_wait (kernel/agent_loop.c 147-518,    *)
(* kernel/agent.c 768-825): messages, file changes, heartbeats, timeouts,  *)
(* kill and the cascade, all of which wake the sleeper under its p->lock.  *)
(*                                                                         *)
(* A step is a region under one p->lock.  Two regions are cut in two: the  *)
(* sender's, because agent_create clears the mailbox without the lock, and *)
(* the start of agent_wait, because the clock goes on meanwhile.  lock     *)
(* says who holds a p->lock between the parts.                             *)
(*                                                                         *)
(* No caller sends a SYSTEM message, so every message is a NORMAL one.     *)
(* Where heartbeats are kept and which file a writer reports is the        *)
(* business of other parts of the kernel: here they may come at any time.  *)
(***************************************************************************)
EXTENDS Integers, Sequences, FiniteSets

CONSTANTS
    N,              \* agents
    Cap,            \* AGENT_MAILBOX_CAP
    SystemSlots,    \* AGENT_MAILBOX_SYSTEM_SLOTS
    Files,          \* files an agent may watch
    Start,          \* processes that are agents when the model starts
    Peers,          \* <<sender, target>> of the messages programs send
    Calls,          \* bound of the model: what the program of each does
    Timeouts,       \* timeout_ticks of agent_wait, 0 for none
    Intervals,      \* heartbeat_interval of agent_create, 0 for none
    MaxSeq,         \* bound of the model: messages to one agent
    MaxTick         \* bound of the model: ticks without a pending timeout

Agents == 1..N

\* "begin" is an agent_create of a process that is no agent yet.
CallNames == {"begin", "create", "wait", "done", "watch", "file", "heartbeat", "exit",
              "killed", "cascade", "child"}

ASSUME WaitAssumption ==
    /\ N \in Nat \ {0}
    /\ Cap \in Nat \ {0}
    /\ SystemSlots \in 0..(Cap - 1)
    /\ 0 \notin Files
    /\ Start \subseteq Agents
    /\ Peers \subseteq Agents \X Agents
    /\ Calls \in [Agents -> SUBSET CallNames]
    /\ Timeouts \subseteq Nat
    /\ Intervals \subseteq Nat
    /\ MaxSeq \in Nat
    /\ MaxTick \in Nat

VARIABLES
    st,             \* p->state
    pc,             \* where the process is in the kernel
    lock,           \* who keeps p->lock from one step to the next, or 0
    agent,          \* processes with agent_type other than NORMAL
    loop,           \* p->loop_state; IDLE, RUNNING, ROLLED_BACK are "READY"
    pend,           \* p->pending_events
    watch,          \* p->watch_mask
    file,           \* p->agent_watch_inum, 0 for none
    beats,          \* processes with heartbeat_interval > 0
    deadline,       \* p->wait_deadline, 0 for none
    killed,         \* processes with p->killed
    box,            \* p->mailbox
    got,            \* the message agent_wait copied out last
    arg,            \* agent_wait: timeout_ticks; send: the target
    now,            \* ticks
    scan            \* agent_tick: the process its last loop looks at, or 0

eventVars == <<loop, pend, watch, file, beats>>
clockVars == <<now, scan>>
vars == <<st, pc, lock, agent, eventVars, deadline, killed, box, got, arg,
          clockVars>>

NoMsg == <<0, 0>>

\* A mailbox after memset, and after agent_init_proc.
ZeroBox  == [ring |-> [i \in 0..(Cap - 1) |-> NoMsg],
             head |-> 0, tail |-> 0, count |-> 0, normal |-> 0, next |-> 0]
EmptyBox == [ZeroBox EXCEPT !.next = 1]

\* (i + 1) % AGENT_MAILBOX_CAP.
After(i) == IF i = Cap - 1 THEN 0 ELSE i + 1

\* Mutant: off by one.
Full_OffByOne(b) == b.normal > Cap - SystemSlots \/ b.count >= Cap

\* agent_send_message refuses a NORMAL message.
Full(b) == b.normal >= Cap - SystemSlots \/ b.count >= Cap

\* Mutant: a sleeping process is not made runnable.
Wakened_Not(q) == st[q]

\* p->state after a wakeup of whoever sleeps in agent_wait.
Wakened(q) == IF st[q] = "SLEEPING" THEN "RUNNABLE" ELSE st[q]

\* agent_signal_event_locked.
Signal(q, e) ==
    /\ pend' = [pend EXCEPT ![q] = @ \cup {e}]
    /\ st' = [st EXCEPT ![q] = Wakened(q)]

\* loop_state = READY unless it is DONE.
Ready(p) == IF loop[p] = "DONE" THEN "DONE" ELSE "READY"

-----------------------------------------------------------------------------

Init ==
    /\ st = [p \in Agents |-> "RUNNABLE"]
    /\ pc = [p \in Agents |-> "user"]
    /\ lock = [p \in Agents |-> 0]
    /\ agent = Start
    /\ loop = [p \in Agents |-> "READY"]
    /\ pend = [p \in Agents |-> {}]
    /\ watch = [p \in Agents |-> {}]
    /\ file = [p \in Agents |-> 0]
    /\ beats = {}
    /\ deadline = [p \in Agents |-> 0]
    /\ killed = {}
    /\ box = [p \in Agents |-> EmptyBox]
    /\ got = [p \in Agents |-> NoMsg]
    /\ arg = [p \in Agents |-> 0]
    /\ now = 0
    /\ scan = 0

\* A process that enters a system call: usertrap found p->killed clear.
InUser(p) == st[p] = "RUNNABLE" /\ pc[p] = "user" /\ p \notin killed

\* ... and calls something only agents may call, which takes p->lock.
AgentCall(p, name) ==
    /\ InUser(p) /\ p \in agent
    /\ name \in Calls[p]
    /\ lock[p] = 0

(* agent_create, which takes no p->lock: up to the mailbox, the memset of   *)
(* the mailbox, and from its next_sequence on.  When the worker cannot join *)
(* its workflow the call fails before it resets the deadline.               *)
MarkBegin(p) ==
    /\ InUser(p)
    /\ "create" \in Calls[p] \/ ("begin" \in Calls[p] /\ p \notin agent)
    /\ agent' = agent \cup {p}
    /\ loop' = [loop EXCEPT ![p] = "READY"]
    /\ \E interval \in Intervals :
         beats' = IF interval > 0 THEN beats \cup {p} ELSE beats \ {p}
    /\ watch' = [watch EXCEPT ![p] = {}]
    /\ pend' = [pend EXCEPT ![p] = {}]
    /\ pc' = [pc EXCEPT ![p] = "mark_clear"]
    /\ UNCHANGED <<st, lock, file, deadline, killed, box, got, arg, clockVars>>

MarkClear(p) ==
    /\ pc[p] = "mark_clear"
    /\ box' = [box EXCEPT ![p] = ZeroBox]
    /\ pc' = [pc EXCEPT ![p] = "mark_next"]
    /\ UNCHANGED <<st, lock, agent, eventVars, deadline, killed, got, arg,
                   clockVars>>

MarkNext(p) ==
    /\ pc[p] = "mark_next"
    /\ box' = [box EXCEPT ![p].next = 1]
    /\ file' = [file EXCEPT ![p] = 0]
    /\ deadline' \in {deadline, [deadline EXCEPT ![p] = 0]}
    /\ pc' = [pc EXCEPT ![p] = "user"]
    /\ UNCHANGED <<st, lock, agent, loop, pend, watch, beats, killed, got, arg,
                   clockVars>>

(* agent_send_message, called by the tool send_message; agent_tool_call     *)
(* sets loop_state before and after it.                                     *)
MaySend(s, t) ==
    /\ InUser(s) /\ s \in agent
    /\ <<s, t>> \in Peers
    /\ t \in agent /\ lock[t] = 0

SendPut(s, t) ==
    /\ MaySend(s, t) /\ ~Full(box[t])
    /\ box[t].next <= MaxSeq
    /\ box' = [box EXCEPT ![t].ring[box[t].tail] = <<s, box[t].next>>,
                          ![t].next = @ + 1,
                          ![t].tail = After(@)]
    /\ lock' = [lock EXCEPT ![t] = s]
    /\ arg' = [arg EXCEPT ![s] = t]
    /\ loop' = [loop EXCEPT ![s] = "READY"]
    /\ pc' = [pc EXCEPT ![s] = "send_count"]
    /\ UNCHANGED <<st, agent, pend, watch, file, beats, deadline, killed, got,
                   clockVars>>

SendCount(s) ==
    LET t == arg[s] IN
    /\ pc[s] = "send_count"
    /\ box' = [box EXCEPT ![t].count = @ + 1, ![t].normal = @ + 1]
    /\ Signal(t, "MESSAGE")
    /\ lock' = [lock EXCEPT ![t] = 0]
    /\ loop' = [loop EXCEPT ![s] = "READY"]
    /\ pc' = [pc EXCEPT ![s] = "user"]
    /\ arg' = [arg EXCEPT ![s] = 0]
    /\ UNCHANGED <<agent, watch, file, beats, deadline, killed, got, clockVars>>

\* The mailbox is full: BUSY, and one more in the dropped statistics.
SendBusy(s, t) ==
    /\ MaySend(s, t) /\ Full(box[t])
    /\ loop' = [loop EXCEPT ![s] = "READY"]
    /\ UNCHANGED <<st, pc, lock, agent, pend, watch, file, beats, deadline,
                   killed, box, got, arg, clockVars>>

(* agent_watch, agent_watch_file, agent_unwatch and the heartbeat calls.    *)
Watch(p, e) ==
    /\ AgentCall(p, "watch")
    /\ watch' = [watch EXCEPT ![p] = @ \cup {e}]
    /\ loop' = [loop EXCEPT ![p] = Ready(p)]
    /\ UNCHANGED <<st, pc, lock, agent, pend, file, beats, deadline, killed,
                   box, got, arg, clockVars>>

WatchFile(p, f) ==
    /\ AgentCall(p, "file")
    /\ watch' = [watch EXCEPT ![p] = @ \cup {"FILEMOD"}]
    /\ file' = [file EXCEPT ![p] = f]
    /\ loop' = [loop EXCEPT ![p] = Ready(p)]
    /\ UNCHANGED <<st, pc, lock, agent, pend, beats, deadline, killed, box,
                   got, arg, clockVars>>

Unwatch(p, mask) ==
    LET left == IF mask = {} THEN {} ELSE watch[p] \ mask IN
    /\ AgentCall(p, "watch")
    /\ watch' = [watch EXCEPT ![p] = left]
    /\ pend' = [pend EXCEPT ![p] = @ \ ({"MESSAGE", "FILEMOD"} \ left)]
    /\ file' = [file EXCEPT ![p] = IF "FILEMOD" \in left THEN @ ELSE 0]
    /\ UNCHANGED <<st, pc, lock, agent, loop, beats, deadline, killed, box,
                   got, arg, clockVars>>

HeartbeatSet(p) ==
    /\ AgentCall(p, "heartbeat")
    /\ beats' = beats \cup {p}
    /\ pend' = [pend EXCEPT ![p] = @ \ {"HEARTBEAT"}]
    /\ loop' = [loop EXCEPT ![p] = Ready(p)]
    /\ UNCHANGED <<st, pc, lock, agent, watch, file, deadline, killed, box,
                   got, arg, clockVars>>

HeartbeatStop(p) ==
    /\ AgentCall(p, "heartbeat")
    /\ beats' = beats \ {p}
    /\ pend' = [pend EXCEPT ![p] = @ \ {"HEARTBEAT"}]
    /\ UNCHANGED <<st, pc, lock, agent, loop, watch, file, deadline, killed,
                   box, got, arg, clockVars>>

-----------------------------------------------------------------------------
(* agent_wait.                                                             *)

\* agent_wait(0): the agent's loop is over.
WaitDone(p) ==
    /\ AgentCall(p, "done")
    /\ loop' = [loop EXCEPT ![p] = "DONE"]
    /\ beats' = beats \ {p}
    /\ watch' = [watch EXCEPT ![p] = {}]
    /\ pend' = [pend EXCEPT ![p] = {}]
    /\ box' = [box EXCEPT ![p] = EmptyBox]
    /\ file' = [file EXCEPT ![p] = 0]
    /\ deadline' = [deadline EXCEPT ![p] = 0]
    /\ UNCHANGED <<st, pc, lock, agent, killed, got, arg, clockVars>>

\* Mutant: the check is missing.
HasSource_Any(p, timeout) == TRUE

\* Something may wake the process; otherwise agent_wait returns NO_SOURCE.
HasSource(p, timeout) ==
    p \in beats \/ watch[p] # {} \/ box[p].count # 0 \/ timeout > 0

\* The test of the sources is made before p->lock is taken.
WaitCall(p, timeout) ==
    /\ InUser(p) /\ p \in agent /\ "wait" \in Calls[p]
    /\ now < MaxTick \/ timeout = 0
    /\ HasSource(p, timeout)
    /\ arg' = [arg EXCEPT ![p] = timeout]
    /\ pc' = [pc EXCEPT ![p] = "wait_lock"]
    /\ UNCHANGED <<st, lock, agent, eventVars, deadline, killed, box, got,
                   clockVars>>

WaitEnter(p) ==
    /\ pc[p] = "wait_lock" /\ lock[p] = 0
    /\ lock' = [lock EXCEPT ![p] = p]
    /\ loop' = [loop EXCEPT ![p] = "WAITING"]
    /\ deadline' = [deadline EXCEPT ![p] = IF arg[p] > 0 THEN now + arg[p]
                                                         ELSE 0]
    /\ arg' = [arg EXCEPT ![p] = 0]
    /\ pc' = [pc EXCEPT ![p] = "wait"]
    /\ UNCHANGED <<st, agent, pend, watch, file, beats, killed, box, got,
                   clockVars>>

\* Mutant: one tick too late.
Expired_Late(p) == deadline[p] > 0 /\ now > deadline[p]

\* The wait has timed out (agent_proc_wait and agent_tick).
Expired(p) == deadline[p] > 0 /\ now >= deadline[p]

\* Mutant: p->killed is not tested before the process sleeps.
Reason_NoKill(p) ==
    IF "PARENT_GONE" \in pend[p] THEN "PARENT_GONE"
    ELSE IF box[p].count > 0 THEN "MESSAGE"
    ELSE IF "FILEMOD" \in pend[p] THEN "FILEMOD"
    ELSE IF "HEARTBEAT" \in pend[p] THEN "HEARTBEAT"
    ELSE IF Expired(p) THEN "TIMEOUT"
    ELSE "NONE"

\* What one turn of the loop finds, in the order of its tests.
Reason(p) ==
    IF "PARENT_GONE" \in pend[p] THEN "PARENT_GONE"
    ELSE IF box[p].count > 0 THEN "MESSAGE"
    ELSE IF "FILEMOD" \in pend[p] THEN "FILEMOD"
    ELSE IF "HEARTBEAT" \in pend[p] THEN "HEARTBEAT"
    ELSE IF Expired(p) THEN "TIMEOUT"
    ELSE IF p \in killed THEN "CANCELLED"
    ELSE "NONE"

\* p makes a turn of the loop, holding p->lock, and finds r.
Turn(p, r) ==
    /\ pc[p] = "wait" /\ st[p] = "RUNNABLE"
    /\ lock[p] \in {0, p}
    /\ Reason(p) = r
    /\ lock' = [lock EXCEPT ![p] = 0]

WaitMessage(p) ==
    LET b == box[p] IN
    /\ Turn(p, "MESSAGE")
    /\ got' = [got EXCEPT ![p] = b.ring[b.head]]
    /\ box' = [box EXCEPT ![p].ring[b.head] = NoMsg,
                          ![p].head = After(@),
                          ![p].count = @ - 1,
                          ![p].normal = @ - 1]
    /\ pend' = [pend EXCEPT ![p] = IF b.count > 1 THEN @ \cup {"MESSAGE"}
                                                  ELSE @ \ {"MESSAGE"}]
    /\ loop' = [loop EXCEPT ![p] = "READY"]
    /\ pc' = [pc EXCEPT ![p] = "user"]
    /\ UNCHANGED <<st, agent, watch, file, beats, deadline, killed, arg,
                   clockVars>>

WaitEvent(p, e) ==
    /\ Turn(p, e)
    /\ pend' = [pend EXCEPT ![p] = @ \ {e}]
    /\ loop' = [loop EXCEPT ![p] = IF e = "PARENT_GONE" THEN "DONE"
                                                        ELSE "READY"]
    /\ pc' = [pc EXCEPT ![p] = "user"]
    /\ UNCHANGED <<st, agent, watch, file, beats, deadline, killed, box, got,
                   arg, clockVars>>

WaitOver(p, r) ==
    /\ Turn(p, r)
    /\ loop' = [loop EXCEPT ![p] = IF r = "TIMEOUT" THEN "READY" ELSE "DONE"]
    /\ pc' = [pc EXCEPT ![p] = "user"]
    /\ UNCHANGED <<st, agent, pend, watch, file, beats, deadline, killed, box,
                   got, arg, clockVars>>

WaitSleep(p) ==
    /\ Turn(p, "NONE")
    /\ st' = [st EXCEPT ![p] = "SLEEPING"]
    /\ UNCHANGED <<pc, agent, eventVars, deadline, killed, box, got, arg,
                   clockVars>>

-----------------------------------------------------------------------------
(* What other processes and the clock do to q, under its p->lock.          *)

\* agent_notify_file_modified reaches a watcher of the file.
NotifyFile(q, f) ==
    /\ q \in agent /\ lock[q] = 0
    /\ "FILEMOD" \in watch[q] /\ file[q] = f
    /\ Signal(q, "FILEMOD")
    /\ UNCHANGED <<pc, lock, agent, loop, watch, file, beats, deadline, killed,
                   box, got, arg, clockVars>>

\* agent_signal_filemod reaches a watcher of any file.
SignalFilemod(q) ==
    /\ q \in agent /\ lock[q] = 0
    /\ loop[q] # "DONE" /\ "FILEMOD" \in watch[q]
    /\ Signal(q, "FILEMOD")
    /\ UNCHANGED <<pc, lock, agent, loop, watch, file, beats, deadline, killed,
                   box, got, arg, clockVars>>

\* agent_tick finds the heartbeat of q due.
Heartbeat(q) ==
    /\ q \in agent /\ lock[q] = 0
    /\ loop[q] # "DONE" /\ q \in beats
    /\ Signal(q, "HEARTBEAT")
    /\ UNCHANGED <<pc, lock, agent, loop, watch, file, beats, deadline, killed,
                   box, got, arg, clockVars>>

\* agent_cascade_terminate reaches q.
ParentGone(q) ==
    /\ "cascade" \in Calls[q]
    /\ q \in agent /\ lock[q] = 0
    /\ killed' = killed \cup {q}
    /\ loop' = [loop EXCEPT ![q] = "DONE"]
    /\ beats' = beats \ {q}
    /\ watch' = [watch EXCEPT ![q] = {}]
    /\ file' = [file EXCEPT ![q] = 0]
    /\ deadline' = [deadline EXCEPT ![q] = 0]
    /\ Signal(q, "PARENT_GONE")
    /\ UNCHANGED <<pc, lock, agent, box, got, arg, clockVars>>

\* kill(pid).
Kill(q) ==
    /\ "killed" \in Calls[q]
    /\ st[q] # "UNUSED" /\ lock[q] = 0
    /\ killed' = killed \cup {q}
    /\ st' = [st EXCEPT ![q] = Wakened(q)]
    /\ UNCHANGED <<pc, lock, agent, eventVars, deadline, box, got, arg,
                   clockVars>>

\* A child exits: wakeup(p->parent) also wakes a parent in agent_wait, whose
\* channel is the same.
ChildExit(q) ==
    /\ "child" \in Calls[q]
    /\ st[q] = "SLEEPING" /\ lock[q] = 0
    /\ st' = [st EXCEPT ![q] = "RUNNABLE"]
    /\ UNCHANGED <<pc, lock, agent, eventVars, deadline, killed, box, got, arg,
                   clockVars>>

\* exit, by itself or by usertrap for a killed process; then freeproc.
Exit(p) ==
    /\ st[p] = "RUNNABLE" /\ pc[p] = "user" /\ lock[p] = 0
    /\ "exit" \in Calls[p] \/ p \in killed
    /\ st' = [st EXCEPT ![p] = "ZOMBIE"]
    /\ pc' = [pc EXCEPT ![p] = "none"]
    /\ UNCHANGED <<lock, agent, eventVars, deadline, killed, box, got, arg,
                   clockVars>>

Reap(p) ==
    /\ st[p] = "ZOMBIE" /\ lock[p] = 0
    /\ st' = [st EXCEPT ![p] = "UNUSED"]
    /\ agent' = agent \ {p}
    /\ loop' = [loop EXCEPT ![p] = "READY"]
    /\ pend' = [pend EXCEPT ![p] = {}]
    /\ watch' = [watch EXCEPT ![p] = {}]
    /\ file' = [file EXCEPT ![p] = 0]
    /\ beats' = beats \ {p}
    /\ deadline' = [deadline EXCEPT ![p] = 0]
    /\ killed' = killed \ {p}
    /\ box' = [box EXCEPT ![p] = EmptyBox]
    /\ UNCHANGED <<pc, lock, got, arg, clockVars>>

\* clockintr on CPU 0: ticks++, then the loop of agent_tick over proc[].
Tick ==
    /\ scan = 0
    /\ now < MaxTick \/ \E p \in Agents : deadline[p] > now
    /\ now' = now + 1
    /\ scan' = 1
    /\ UNCHANGED <<st, pc, lock, agent, eventVars, deadline, killed, box, got,
                   arg>>

TickStep ==
    /\ scan # 0 /\ lock[scan] = 0
    /\ st' = IF /\ st[scan] = "SLEEPING" /\ scan \in agent
                /\ loop[scan] = "WAITING" /\ Expired(scan)
             THEN [st EXCEPT ![scan] = "RUNNABLE"]
             ELSE st
    /\ scan' = IF scan = N THEN 0 ELSE scan + 1
    /\ UNCHANGED <<pc, lock, agent, eventVars, deadline, killed, box, got, arg,
                   now>>

-----------------------------------------------------------------------------

\* The rest of a system call that p has begun.
Continue(p) ==
    \/ MarkClear(p) \/ MarkNext(p) \/ SendCount(p)
    \/ WaitEnter(p) \/ WaitMessage(p) \/ WaitSleep(p)
    \/ \E e \in {"PARENT_GONE", "FILEMOD", "HEARTBEAT"} : WaitEvent(p, e)
    \/ \E r \in {"TIMEOUT", "CANCELLED"} : WaitOver(p, r)

Call(p) ==
    \/ MarkBegin(p)
    \/ \E t \in Agents : SendPut(p, t) \/ SendBusy(p, t)
    \/ \E e \in {"MESSAGE", "FILEMOD"} : Watch(p, e)
    \/ \E f \in Files : WatchFile(p, f)
    \/ \E mask \in SUBSET {"MESSAGE", "FILEMOD"} : Unwatch(p, mask)
    \/ HeartbeatSet(p) \/ HeartbeatStop(p)
    \/ WaitDone(p) \/ \E timeout \in Timeouts : WaitCall(p, timeout)
    \/ Exit(p)

Others(q) ==
    \/ \E f \in Files : NotifyFile(q, f)
    \/ SignalFilemod(q) \/ Heartbeat(q) \/ ParentGone(q) \/ Kill(q)
    \/ ChildExit(q) \/ Reap(q)

Next ==
    \/ \E p \in Agents : Continue(p) \/ Call(p) \/ Others(p)
    \/ Tick \/ TickStep

Spec == Init /\ [][Next]_vars

(* The timer interrupts CPU 0 for ever, a process that is RUNNABLE in the   *)
(* kernel runs (the instances have no more of them than CPUs), and who      *)
(* spins on a p->lock that is free again and again takes it in the end.     *)
Fairness ==
    /\ \A p \in Agents : SF_vars(Continue(p))
    /\ WF_vars(Tick) /\ SF_vars(TickStep)

FairSpec == Spec /\ Fairness

-----------------------------------------------------------------------------
(* Properties.                                                             *)

Events == {"MESSAGE", "FILEMOD", "HEARTBEAT", "PARENT_GONE"}

Boxes == [ring : [0..(Cap - 1) -> (Agents \cup {0}) \X Nat],
          head : 0..(Cap - 1), tail : 0..(Cap - 1),
          count : 0..Cap, normal : 0..Cap, next : Nat]

\* Types; the indices of a mailbox stay inside its ring.
TypeOK ==
    /\ st \in [Agents -> {"RUNNABLE", "SLEEPING", "ZOMBIE", "UNUSED"}]
    /\ pc \in [Agents -> {"none", "user", "mark_clear", "mark_next",
                          "send_count", "wait_lock", "wait"}]
    /\ lock \in [Agents -> Agents \cup {0}]
    /\ agent \subseteq Agents
    /\ loop \in [Agents -> {"READY", "WAITING", "DONE"}]
    /\ pend \in [Agents -> SUBSET Events]
    /\ watch \in [Agents -> SUBSET {"MESSAGE", "FILEMOD"}]
    /\ file \in [Agents -> Files \cup {0}]
    /\ beats \subseteq Agents
    /\ deadline \in [Agents -> Nat]
    /\ killed \subseteq Agents
    /\ box \in [Agents -> Boxes]
    /\ got \in [Agents -> (Agents \cup {0}) \X Nat]
    /\ arg \in [Agents -> Nat]
    /\ now \in Nat
    /\ scan \in Agents \cup {0}

\* A process asleep in agent_wait has no message, no event it waits for and
\* has not been killed: whatever comes between its tests and its sleep, or
\* while it sleeps, wakes it (the p->lock discipline of agent_proc_wait and
\* of everyone who signals).
NoLostWakeup ==
    \A p \in Agents : st[p] = "SLEEPING" =>
        /\ box[p].count = 0
        /\ pend[p] \subseteq {"MESSAGE"}
        /\ p \notin killed

\* A process does not sleep past its deadline, except while the agent_tick
\* that will wake it is under way: a timeout set just behind the scan of the
\* clock is found by the waiter itself.
TimeoutNotMissed ==
    \A p \in Agents : st[p] = "SLEEPING" /\ deadline[p] # 0 /\ deadline[p] <= now
        => scan # 0 /\ scan <= p

\* No process sleeps in agent_wait when nothing could ever wake it: the test
\* of the sources, made without the lock, still holds when it sleeps.
SleeperHasSource ==
    \A p \in Agents : st[p] = "SLEEPING" =>
        p \in beats \/ watch[p] # {} \/ deadline[p] # 0

-----------------------------------------------------------------------------
(* What the invariants rest on (AgentWaitProofs).                          *)

\* A sender that has not counted its message holds the p->lock of the target,
\* whose mailbox has room.
SendInv ==
    /\ \A t \in Agents : box[t].count = box[t].normal
    /\ \A s \in Agents : pc[s] = "send_count" =>
         arg[s] \in Agents /\ lock[arg[s]] = s /\ box[arg[s]].count < Cap

\* A process sleeps only in agent_wait, and only agents get there.
WhereInv ==
    \A p \in Agents :
        /\ st[p] = "SLEEPING" => pc[p] = "wait"
        /\ st[p] \in {"ZOMBIE", "UNUSED"} => pc[p] = "none"
        /\ pc[p] \in {"wait_lock", "wait"} => p \in agent
        /\ pc[p] = "wait" => loop[p] = "WAITING" \/ "PARENT_GONE" \in pend[p]

\* What agent_wait has found to wait for lasts until it is used.
SourceInv ==
    \A p \in Agents :
        pc[p] = "wait_lock" \/ pc[p] = "wait" =>
            \/ p \in beats \/ watch[p] # {} \/ box[p].count > 0
            \/ "PARENT_GONE" \in pend[p]
            \/ IF pc[p] = "wait" THEN deadline[p] > 0 ELSE arg[p] > 0

-----------------------------------------------------------------------------
(* The mailboxes as queues.                                                *)

\* Someone is between SendPut and SendCount for t.
Putting(t) == \E s \in Agents : pc[s] = "send_count" /\ arg[s] = t

\* The messages in the mailbox of t, oldest first, as Mailboxes sees them.
Queue(t) ==
    LET n == box[t].count + (IF Putting(t) THEN 1 ELSE 0)
    IN  [i \in 1..n |-> box[t].ring[(box[t].head + i - 1) % Cap]]

Fifo == INSTANCE Mailboxes WITH
    Room <- Cap - SystemSlots,
    queue <- [t \in Agents |-> Queue(t)],
    next <- [t \in Agents |-> IF pc[t] = "mark_next" THEN 1 ELSE box[t].next],
    closed <- {t \in Agents : loop[t] = "DONE" \/ st[t] = "UNUSED"}

\* The mailboxes are bounded FIFO queues: what send_message has accepted is
\* received, in order, or discarded when the agent's loop or the agent ends.
FifoSpec == Fifo!Spec

\* A process in agent_wait that has a message, a timeout or a kill returns.
WaitReturns ==
    \A p \in Agents :
        /\ pc[p] = "wait"
        /\ box[p].count > 0 \/ deadline[p] > 0 \/ p \in killed
        ~> pc[p] # "wait"
=============================================================================
