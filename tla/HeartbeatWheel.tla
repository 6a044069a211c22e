--------------------------- MODULE HeartbeatWheel ---------------------------
(***************************************************************************)
(* The heartbeat time wheel (kernel/agent_loop.c 60-145, 176-212 and       *)
(* 609-661): one list of agents per bucket, linked through indices in the  *)
(* process table, and the calls that put an agent on it or take it off.    *)
(*                                                                         *)
(* A step is a region under agent_global.lock or under one p->lock.  The   *)
(* loop of agent_tick holds neither between two agents, so it is cut where *)
(* it reads and where it writes: TickDetach, then TickNext, TickLook and   *)
(* TickLink per agent.                                                     *)
(*                                                                         *)
(* heartbeat_wheel_active is bucket # Off: the two always change together. *)
(* heartbeat_min_deadline, which nothing reads, and the statistics are     *)
(* left out.  A loop over a list that does not end never returns; the      *)
(* model does not go on after that (TickDetach).                           *)
(***************************************************************************)
EXTENDS Integers, FiniteSets

CONSTANTS
    Slots,          \* the process table
    None,           \* index 0, no process
    Buckets,        \* AGENT_HEARTBEAT_WHEEL_BUCKETS
    Intervals,      \* heartbeat intervals programs ask for
    Calls,          \* bound of the model: what programs do
    Races,          \* which overlaps with agent_tick the runs allow
    MaxStarts,      \* bound of the model: heartbeats begun in one slot
    MaxTick         \* bound of the model: ticks

CallNames == {"create", "set", "stop", "done", "wait", "cascade", "exit",
              "reap"}
RaceNames == {"set", "exit", "done"}

ASSUME WheelAssumption ==
    /\ IsFiniteSet(Slots)
    /\ None \notin Slots
    /\ Buckets \in Nat \ {0}
    /\ Intervals \subseteq Nat \ {0}
    /\ Calls \subseteq CallNames
    /\ Races \subseteq RaceNames
    /\ MaxStarts \in Nat
    /\ MaxTick \in Nat

VARIABLES
    st,             \* p->state
    pc,             \* where the process is in the kernel
    agent,          \* processes with agent_type other than NORMAL
    done,           \* processes whose loop_state is DONE
    killed,         \* processes with p->killed
    interval,       \* p->heartbeat_interval
    deadline,       \* p->heartbeat_deadline
    pend,           \* processes with AGENT_EVENT_HEARTBEAT pending
    wheel,          \* the lists
    now,            \* ticks
    tick,           \* where agent_tick is
    cur,            \* its current
    nxt,            \* its next
    starts          \* bound of the model: heartbeats begun

procVars == <<st, pc, agent, done, killed>>
beatVars == <<interval, deadline, pend>>
tickVars == <<now, tick, cur, nxt>>
vars == <<procVars, beatVars, wheel, tickVars, starts>>

Off == -1

\* deadline & AGENT_HEARTBEAT_WHEEL_MASK.
Bucket(d) == d % Buckets

-----------------------------------------------------------------------------
(* Lists.                                                                   *)

\* The first slots of the list that begins with x, then None.
Walk(next, x) ==
    LET hop[k \in 0..Cardinality(Slots)] ==
            IF k = 0 THEN x
            ELSE IF hop[k - 1] = None THEN None ELSE next[hop[k - 1]]
    IN  hop

Ends(next, x) == Walk(next, x)[Cardinality(Slots)] = None

From(next, x) == {p \in Slots : \E k \in 0..Cardinality(Slots) :
                                    Walk(next, x)[k] = p}

\* The slots of that list before p: all of them when p is not on it.
Before(next, x, p) ==
    {q \in Slots : \E k \in 0..Cardinality(Slots) :
                      /\ Walk(next, x)[k] = q
                      /\ \A i \in 0..k : Walk(next, x)[i] # p}

OnList(w, b) == From(w.next, w.heads[b])

\* Mutant: a process that is not the head stays linked.
Remove_HeadOnly(w, p) ==
    IF w.bucket[p] = Off THEN w
    ELSE LET b == w.bucket[p]
         IN  [heads  |-> [w.heads EXCEPT ![b] = IF @ = p THEN w.next[p] ELSE @],
              next   |-> [w.next EXCEPT ![p] = None],
              bucket |-> [w.bucket EXCEPT ![p] = Off],
              count  |-> IF p \in OnList(w, b) /\ w.count > 0
                         THEN w.count - 1 ELSE w.count]

\* agent_heartbeat_wheel_remove_locked.
Remove(w, p) ==
    IF w.bucket[p] = Off THEN w
    ELSE LET b == w.bucket[p]
             previous == {q \in Before(w.next, w.heads[b], p) : w.next[q] = p}
         IN  [heads  |-> [w.heads EXCEPT ![b] = IF @ = p THEN w.next[p] ELSE @],
              next   |-> [q \in Slots |-> IF q = p THEN None
                                          ELSE IF q \in previous THEN w.next[p]
                                          ELSE w.next[q]],
              bucket |-> [w.bucket EXCEPT ![p] = Off],
              count  |-> IF p \in OnList(w, b) /\ w.count > 0
                         THEN w.count - 1 ELSE w.count]

\* The end of agent_heartbeat_wheel_insert_locked: p becomes the head.
Push(w, p, b) ==
    [heads  |-> [w.heads EXCEPT ![b] = p],
     next   |-> [w.next EXCEPT ![p] = w.heads[b]],
     bucket |-> [w.bucket EXCEPT ![p] = b],
     count  |-> w.count + 1]

\* A heartbeat that is to be kept on the wheel.
Wanted(p) ==
    /\ st[p] # "UNUSED"
    /\ p \in agent
    /\ p \notin done
    /\ interval[p] > 0
    /\ deadline[p] > 0

\* agent_heartbeat_wheel_reschedule.
Reschedule(p) ==
    wheel' = IF Wanted(p)
             THEN Push(Remove(wheel, p), p, Bucket(deadline[p]))
             ELSE Remove(wheel, p)

\* A slot after agent_init_proc: its links are reset without
\* agent_global.lock, and no list is looked at.
ResetLinks(p) ==
    wheel' = [wheel EXCEPT !.next[p] = None, !.bucket[p] = Off]

\* agent_tick keeps p->lock from TickLook to TickLink.
Locked(p) == tick = "link" /\ cur = p

\* The processes agent_tick has taken off the wheel and is not through with.
Detached ==
    CASE tick = "walk" -> From(wheel.next, cur)
      [] tick \in {"look", "link"} -> {cur} \cup From(wheel.next, nxt)
      [] OTHER -> {}

Apart(race, p) == race \in Races \/ p \notin Detached

-----------------------------------------------------------------------------

Init ==
    /\ st = [p \in Slots |-> "UNUSED"]
    /\ pc = [p \in Slots |-> "user"]
    /\ agent = {}
    /\ done = {}
    /\ killed = {}
    /\ interval = [p \in Slots |-> 0]
    /\ deadline = [p \in Slots |-> 0]
    /\ pend = {}
    /\ wheel = [heads |-> [b \in 0..(Buckets - 1) |-> None],
                next |-> [p \in Slots |-> None],
                bucket |-> [p \in Slots |-> Off],
                count |-> 0]
    /\ now = 0
    /\ tick = "idle"
    /\ cur = None
    /\ nxt = None
    /\ starts = [p \in Slots |-> 0]

\* What agent_init_proc sets, in freeproc and in allocproc.
Reset(p, s, a) ==
    /\ ~Locked(p)
    /\ st' = [st EXCEPT ![p] = s]
    /\ agent' = IF a THEN agent \cup {p} ELSE agent \ {p}
    /\ done' = done \ {p}
    /\ killed' = killed \ {p}
    /\ interval' = [interval EXCEPT ![p] = 0]
    /\ deadline' = [deadline EXCEPT ![p] = 0]
    /\ pend' = pend \ {p}
    /\ ResetLinks(p)
    /\ UNCHANGED <<pc, tickVars, starts>>

\* fork: the child inherits agent_type, and no heartbeat.
Fork(p) ==
    /\ st[p] = "UNUSED"
    /\ Apart("exit", p)
    /\ \E a \in BOOLEAN : Reset(p, "LIVE", a)

\* A process makes a system call.
Calling(p, call) ==
    /\ call \in Calls
    /\ st[p] = "LIVE"
    /\ pc[p] = "user"
    /\ p \notin killed

AgentCalling(p, call) == Calling(p, call) /\ p \in agent

Goto(p, where) == pc' = [pc EXCEPT ![p] = where]

\* agent_create takes the process off the wheel.  A process whose heartbeat
\* is on does not call it: its stores do not take p->lock.
CreateRemove(p) ==
    /\ Calling(p, "create")
    /\ interval[p] = 0
    /\ wheel' = Remove(wheel, p)
    /\ Goto(p, "made")
    /\ UNCHANGED <<st, agent, done, killed, beatVars, tickVars, starts>>

\* The stores of agent_mark_current, without a lock.  No one reads one half
\* of them: until deadline is set the heartbeat is not wanted.
CreateSet(p) ==
    /\ pc[p] = "made"
    /\ agent' = agent \cup {p}
    /\ done' = done \ {p}
    /\ pend' = pend \ {p}
    /\ \/ \E i \in Intervals :
            /\ starts[p] < MaxStarts
            /\ starts' = [starts EXCEPT ![p] = @ + 1]
            /\ interval' = [interval EXCEPT ![p] = i]
            /\ deadline' = [deadline EXCEPT ![p] = now + i]
       \/ /\ interval' = [interval EXCEPT ![p] = 0]
          /\ deadline' = [deadline EXCEPT ![p] = 0]
          /\ UNCHANGED starts
    /\ Goto(p, "marked")
    /\ UNCHANGED <<st, killed, wheel, tickVars>>

\* agent_mark_current reschedules a process with a heartbeat.
CreateLink(p) ==
    /\ pc[p] = "marked"
    /\ \/ interval[p] > 0 /\ Apart("set", p) /\ Reschedule(p)
       \/ interval[p] = 0 /\ UNCHANGED wheel
    /\ Goto(p, "user")
    /\ UNCHANGED <<st, agent, done, killed, beatVars, tickVars, starts>>

\* agent_heartbeat_set, under p->lock.
SetFields(p) ==
    /\ AgentCalling(p, "set")
    /\ p \in done => "done" \in Races
    /\ ~Locked(p)
    /\ starts[p] < MaxStarts
    /\ starts' = [starts EXCEPT ![p] = @ + 1]
    /\ \E i \in Intervals :
         /\ interval' = [interval EXCEPT ![p] = i]
         /\ deadline' = [deadline EXCEPT ![p] = now + i + 1]
    /\ pend' = pend \ {p}
    /\ Goto(p, "armed")
    /\ UNCHANGED <<st, agent, done, killed, wheel, tickVars>>

\* Mutant: a process that is on the wheel stays where it is.
SetLink_OnlyNew(p) ==
    /\ pc[p] = "armed"
    /\ Apart("set", p)
    /\ \/ wheel.bucket[p] = Off /\ Reschedule(p)
       \/ wheel.bucket[p] # Off /\ UNCHANGED wheel
    /\ Goto(p, "user")
    /\ UNCHANGED <<st, agent, done, killed, beatVars, tickVars, starts>>

\* agent_heartbeat_set, under agent_global.lock.
SetLink(p) ==
    /\ pc[p] = "armed"
    /\ Apart("set", p)
    /\ Reschedule(p)
    /\ Goto(p, "user")
    /\ UNCHANGED <<st, agent, done, killed, beatVars, tickVars, starts>>

\* agent_heartbeat_stop, under agent_global.lock.
StopRemove(p) ==
    /\ AgentCalling(p, "stop")
    /\ wheel' = Remove(wheel, p)
    /\ Goto(p, "stopping")
    /\ UNCHANGED <<st, agent, done, killed, beatVars, tickVars, starts>>

\* Mutant: a heartbeat that came before the stop stays pending.
StopFields_KeepPending(p) ==
    /\ pc[p] = "stopping"
    /\ ~Locked(p)
    /\ interval' = [interval EXCEPT ![p] = 0]
    /\ deadline' = [deadline EXCEPT ![p] = 0]
    /\ Goto(p, "user")
    /\ UNCHANGED <<st, agent, done, killed, pend, wheel, tickVars, starts>>

\* agent_heartbeat_stop, under p->lock.
StopFields(p) ==
    /\ pc[p] = "stopping"
    /\ ~Locked(p)
    /\ interval' = [interval EXCEPT ![p] = 0]
    /\ deadline' = [deadline EXCEPT ![p] = 0]
    /\ pend' = pend \ {p}
    /\ Goto(p, "user")
    /\ UNCHANGED <<st, agent, done, killed, wheel, tickVars, starts>>

\* agent_wait(0): the process stays on the wheel.
WaitDone(p) ==
    /\ AgentCalling(p, "done")
    /\ ~Locked(p)
    /\ done' = done \cup {p}
    /\ interval' = [interval EXCEPT ![p] = 0]
    /\ deadline' = [deadline EXCEPT ![p] = 0]
    /\ pend' = pend \ {p}
    /\ UNCHANGED <<st, pc, agent, killed, wheel, tickVars, starts>>

\* agent_wait(1), also after agent_wait(0).
WaitEnter(p) ==
    /\ AgentCalling(p, "wait")
    /\ ~Locked(p)
    /\ done' = done \ {p}
    /\ Goto(p, "waiting")
    /\ UNCHANGED <<st, agent, killed, beatVars, wheel, tickVars, starts>>

\* agent_wait returns a heartbeat, or something else.
WaitReturn(p) ==
    /\ pc[p] = "waiting"
    /\ ~Locked(p)
    /\ \/ pend' = pend \ {p}
       \/ UNCHANGED pend
    /\ Goto(p, "user")
    /\ UNCHANGED <<st, agent, done, killed, interval, deadline, wheel,
                   tickVars, starts>>

\* agent_cascade_terminate, the turn of p.
Cascade(p) ==
    /\ "cascade" \in Calls
    /\ st[p] # "UNUSED"
    /\ p \in agent
    /\ ~Locked(p)
    /\ killed' = killed \cup {p}
    /\ done' = done \cup {p}
    /\ interval' = [interval EXCEPT ![p] = 0]
    /\ deadline' = [deadline EXCEPT ![p] = 0]
    /\ UNCHANGED <<st, pc, agent, pend, wheel, tickVars, starts>>

\* exit, in agent_proc_exit: interval and deadline stay.
ExitRemove(p) ==
    /\ "exit" \in Calls
    /\ st[p] = "LIVE"
    /\ pc[p] = "user"
    /\ Apart("exit", p)
    /\ wheel' = Remove(wheel, p)
    /\ Goto(p, "leaving")
    /\ UNCHANGED <<st, agent, done, killed, beatVars, tickVars, starts>>

\* exit, under p->lock.
ExitZombie(p) ==
    /\ pc[p] = "leaving"
    /\ ~Locked(p)
    /\ st' = [st EXCEPT ![p] = "ZOMBIE"]
    /\ Goto(p, "user")
    /\ UNCHANGED <<agent, done, killed, beatVars, wheel, tickVars, starts>>

\* wait of the parent: freeproc.
Reap(p) ==
    /\ "reap" \in Calls
    /\ st[p] = "ZOMBIE"
    /\ Apart("exit", p)
    /\ Reset(p, "UNUSED", FALSE)

-----------------------------------------------------------------------------
(* agent_tick.                                                              *)

\* clockintr.  No process is held up between setting its deadline and linking
\* itself until the deadline has come.
Tick ==
    /\ tick = "idle"
    /\ now < MaxTick
    /\ \A p \in Slots : pc[p] \in {"marked", "armed"} /\ Wanted(p) =>
                            now + 1 < deadline[p]
    /\ now' = now + 1
    /\ tick' = "detach"
    /\ UNCHANGED <<procVars, beatVars, wheel, cur, nxt, starts>>

\* The list of this tick's bucket is taken off the wheel as it is linked.
TickDetach ==
    /\ tick = "detach"
    /\ LET b == now % Buckets
           list == OnList(wheel, b)
           gone == Cardinality(list)
       IN  /\ Ends(wheel.next, wheel.heads[b])
           /\ cur' = wheel.heads[b]
           /\ wheel' = [heads  |-> [wheel.heads EXCEPT ![b] = None],
                        next   |-> wheel.next,
                        bucket |-> [p \in Slots |-> IF p \in list THEN Off
                                                    ELSE wheel.bucket[p]],
                        count  |-> IF wheel.count > gone
                                   THEN wheel.count - gone ELSE 0]
    /\ tick' = "walk"
    /\ UNCHANGED <<procVars, beatVars, now, nxt, starts>>

\* next = p->heartbeat_wheel_next, without a lock.
TickNext ==
    /\ tick = "walk"
    /\ cur # None
    /\ nxt' = wheel.next[cur]
    /\ tick' = "look"
    /\ UNCHANGED <<procVars, beatVars, wheel, now, cur, starts>>

\* Mutant: the heartbeat comes one tick late.
Due_Late(p) == Wanted(p) /\ now > deadline[p]

\* The first test under p->lock.
Due(p) == Wanted(p) /\ now >= deadline[p]

\* Under p->lock: the link is cut, and a due heartbeat is signalled.
TickLook ==
    /\ tick = "look"
    /\ wheel' = [wheel EXCEPT !.next[cur] = None]
    /\ \/ /\ Due(cur)
          /\ pend' = pend \cup {cur}
          /\ deadline' = [deadline EXCEPT ![cur] = now + interval[cur]]
       \/ /\ ~Due(cur)
          /\ UNCHANGED <<pend, deadline>>
    /\ tick' = "link"
    /\ UNCHANGED <<procVars, interval, now, cur, nxt, starts>>

\* Still under p->lock: back on the wheel if it is wanted.
TickLink ==
    /\ tick = "link"
    /\ IF Wanted(cur) THEN Reschedule(cur) ELSE UNCHANGED wheel
    /\ cur' = nxt
    /\ nxt' = None
    /\ tick' = "walk"
    /\ UNCHANGED <<procVars, beatVars, now, starts>>

TickEnd ==
    /\ tick = "walk"
    /\ cur = None
    /\ tick' = "idle"
    /\ UNCHANGED <<procVars, beatVars, wheel, now, cur, nxt, starts>>

-----------------------------------------------------------------------------

Next ==
    \/ \E p \in Slots :
          \/ Fork(p)
          \/ CreateRemove(p)
          \/ CreateSet(p)
          \/ CreateLink(p)
          \/ SetFields(p)
          \/ SetLink(p)
          \/ StopRemove(p)
          \/ StopFields(p)
          \/ WaitDone(p)
          \/ WaitEnter(p)
          \/ WaitReturn(p)
          \/ Cascade(p)
          \/ ExitRemove(p)
          \/ ExitZombie(p)
          \/ Reap(p)
    \/ Tick
    \/ TickDetach
    \/ TickNext
    \/ TickLook
    \/ TickLink
    \/ TickEnd

Spec == Init /\ [][Next]_vars

-----------------------------------------------------------------------------
(* Properties.                                                              *)

WheelType ==
    [heads  : [0..(Buckets - 1) -> Slots \cup {None}],
     next   : [Slots -> Slots \cup {None}],
     bucket : [Slots -> (0..(Buckets - 1)) \cup {Off}],
     count  : Nat]

\* The wheel has a bucket for every deadline, agent_tick works on a slot
\* while it holds its lock, and the rest is of its type.
TypeOK ==
    /\ st \in [Slots -> {"UNUSED", "LIVE", "ZOMBIE"}]
    /\ pc \in [Slots -> {"user", "made", "marked", "armed", "stopping",
                         "waiting", "leaving"}]
    /\ agent \subseteq Slots
    /\ done \subseteq Slots
    /\ killed \subseteq Slots
    /\ interval \in [Slots -> Nat]
    /\ deadline \in [Slots -> Nat]
    /\ pend \subseteq Slots
    /\ wheel \in WheelType
    /\ now \in Nat
    /\ tick \in {"idle", "detach", "walk", "look", "link"}
    /\ cur \in Slots \cup {None}
    /\ nxt \in Slots \cup {None}
    /\ tick \in {"look", "link"} => cur \in Slots
    /\ starts \in [Slots -> Nat]

\* No list of the wheel runs into itself, so that the loops of
\* agent_heartbeat_wheel_remove_locked and agent_tick end, which they run with
\* agent_global.lock held.
ListsEnd ==
    \A b \in 0..(Buckets - 1) : Ends(wheel.next, wheel.heads[b])

\* The lists hold exactly the processes that are marked as active in their
\* bucket, each list its own, and heartbeat_count counts them: inserting,
\* removing and detaching never lose or share a link.
WheelSound ==
    /\ ListsEnd
    /\ \A b \in 0..(Buckets - 1), p \in Slots :
          p \in OnList(wheel, b) <=> wheel.bucket[p] = b
    /\ wheel.count = Cardinality({p \in Slots : wheel.bucket[p] # Off})

\* When agent_tick is through, the deadline of every agent that runs or waits
\* lies ahead: each due heartbeat has been signalled (agent_loop.c 641-649).
NoHeartbeatMissed ==
    tick = "idle" =>
        \A p \in Slots :
            st[p] = "LIVE" /\ pc[p] \in {"user", "waiting"} /\ Wanted(p) =>
                deadline[p] > now

\* An agent that is on the wheel is in the bucket of its deadline, except while
\* the call or the agent_tick that has set the deadline has yet to link it.
InItsBucket ==
    \A p \in Slots :
        /\ wheel.bucket[p] # Off
        /\ Wanted(p)
        /\ pc[p] \notin {"marked", "armed"}
        /\ ~Locked(p)
        => wheel.bucket[p] = Bucket(deadline[p])

\* A heartbeat is pending only where one is on: agent_wait never reports a
\* heartbeat after agent_heartbeat_stop or agent_wait(0).  The cascade leaves
\* it to a process that is killed.
QuietAfterStop ==
    \A p \in pend : interval[p] > 0 \/ p \in killed
=============================================================================
