---------------------------- MODULE KernelLocks ----------------------------
(***************************************************************************)
(* The spinlocks that AgentOS takes one inside another, on several CPUs:   *)
(* p->lock of every process, tickslock, agent_global.lock,                 *)
(* agent_runtime_lock and wait_lock.  What a path through the kernel does  *)
(* under no lock of these is left out, and so are the locks that are       *)
(* innermost everywhere.  A process enters any path at any time; which     *)
(* process is runnable, a child or due is not kept, only where it runs.    *)
(*                                                                         *)
(* A path is the sequence of its acquire and release calls.  sched() hands *)
(* the CPU, and the release of p->lock, to the scheduler; the scheduler    *)
(* keeps the lock of the best process while it looks at the others and     *)
(* hands its release to that process.                                      *)
(***************************************************************************)
EXTENDS Integers, Sequences, SequencesExt

CONSTANTS
    NCPU,           \* CPUs, of which number 1 takes the timer interrupts
    NPROC,          \* processes
    Calls           \* the paths processes take

CPUs == 1..NCPU
ProcIds == 1..NPROC

CallNames == {"yield", "sys_sleep", "fork", "exit", "wait", "tool_call",
              "tool_reply", "global", "agent_wait", "send_message", "cascade"}

ASSUME LocksAssumption ==
    /\ NCPU \in Nat \ {0} /\ NPROC \in Nat \ {0}
    /\ Calls \subseteq CallNames

P(p) == <<"proc", p>>
Ticks == <<"ticks", 0>>
Global == <<"global", 0>>
Runtime == <<"runtime", 0>>
WaitLock == <<"wait", 0>>
Locks == {P(p) : p \in ProcIds} \cup {Ticks, Global, Runtime, WaitLock}

VARIABLES
    run,            \* the process of the CPU, 0 for the scheduler
    owner,          \* the CPU that holds a lock, or 0
    todo,           \* what the CPU has still to do of its path
    scan,           \* the scheduler's p: 0 outside of its loop
    best            \* the scheduler's best, whose lock it holds, or 0

lockVars == <<run, owner, todo, scan, best>>

Acq(l) == <<[op |-> "acquire", lock |-> l]>>
Rel(l) == <<[op |-> "release", lock |-> l]>>

\* sched(): the scheduler releases the lock of the process.
Sched(p) == <<[op |-> "sched", lock |-> P(p)]>>

Region(l) == Acq(l) \o Rel(l)

\* A loop over proc[] that looks at each process under its lock, and wakeup,
\* which leaves out the caller.
EachProc == FlattenSeq([q \in ProcIds |-> Region(P(q))])
WakeupCalls(p) == FlattenSeq([q \in ProcIds |-> IF q = p THEN <<>> ELSE Region(P(q))])

\* sleep(chan, lk).
SleepCalls(p, lk) == Acq(P(p)) \o Rel(lk) \o Sched(p)

\* agent_now_safe.
Now == Region(Ticks)

-----------------------------------------------------------------------------
(* The paths.                                                              *)

\* fork: allocproc leaves np locked, agent_after_fork takes an identity and
\* joins the workflow.
ForkPath(np) ==
    Acq(P(np)) \o Region(Global) \o Region(Global) \o Rel(P(np)) \o
    Region(WaitLock) \o Region(P(np))

\* Mutant: the lock of the process first.
ExitPath_Swapped(p) ==
    Acq(P(p)) \o Acq(WaitLock) \o WakeupCalls(p) \o Rel(WaitLock) \o Sched(p)

ExitPath(p) ==
    Acq(WaitLock) \o WakeupCalls(p) \o Acq(P(p)) \o Rel(WaitLock) \o Sched(p)

\* wait looks at a child q.
WaitPath(p, q) == Acq(WaitLock) \o Region(P(q)) \o SleepCalls(p, WaitLock)

\* agent_dynamic_tool_call and agent_tool_reply.
ToolCallPath(p) ==
    Acq(Runtime) \o WakeupCalls(p) \o Region(P(p)) \o SleepCalls(p, Runtime)
ToolReplyPath(p) == Acq(Runtime) \o WakeupCalls(p) \o Rel(Runtime)

\* agent_proc_wait reads the clock under p->lock.
AgentWaitPath(p) == Acq(P(p)) \o Now \o Sched(p)

\* agent_send_message under the lock of the target; agent_proc_heartbeat_set
\* and agent_proc_sched_set under the caller's.
SendPath(q) == Acq(P(q)) \o Now \o Rel(P(q))

\* agent_workflow_begin_terminate_locked, then the loop of the cascade.
CascadePath == Acq(Global) \o Now \o Rel(Global) \o EachProc

\* clockintr, then agent_tick, in which the heartbeat of q is due.
ClockPath(p, q) ==
    Acq(Ticks) \o WakeupCalls(p) \o Rel(Ticks) \o
    EachProc \o Region(Global) \o Region(Global) \o
    Acq(P(q)) \o Region(Global) \o Region(Global) \o Rel(P(q)) \o EachProc

Path(name, p, q) ==
    CASE name = "yield"        -> Acq(P(p)) \o Sched(p)
      [] name = "sys_sleep"    -> Acq(Ticks) \o SleepCalls(p, Ticks)
      [] name = "fork"         -> ForkPath(q)
      [] name = "exit"         -> ExitPath(p)
      [] name = "wait"         -> WaitPath(p, q)
      [] name = "tool_call"    -> ToolCallPath(p)
      [] name = "tool_reply"   -> ToolReplyPath(p)
      [] name = "global"       -> Region(Global)
      [] name = "agent_wait"   -> AgentWaitPath(p)
      [] name = "send_message" -> SendPath(q)
      [] name = "cascade"      -> CascadePath

-----------------------------------------------------------------------------

LocksInit ==
    /\ run = [c \in CPUs |-> 0]
    /\ owner = [l \in Locks |-> 0]
    /\ todo = [c \in CPUs |-> <<>>]
    /\ scan = [c \in CPUs |-> 0]
    /\ best = [c \in CPUs |-> 0]

Running(p) == \E c \in CPUs : run[c] = p

\* The next call of a path; an acquire waits for the lock.
Do(c) ==
    /\ todo[c] # <<>>
    /\ LET next == Head(todo[c]) IN
       \/ /\ next.op = "acquire" /\ owner[next.lock] = 0
          /\ owner' = [owner EXCEPT ![next.lock] = c]
          /\ UNCHANGED run
       \/ /\ next.op = "release"
          /\ owner' = [owner EXCEPT ![next.lock] = 0]
          /\ UNCHANGED run
       \/ /\ next.op = "sched"
          /\ owner' = [owner EXCEPT ![next.lock] = 0]
          /\ run' = [run EXCEPT ![c] = 0]
    /\ todo' = [todo EXCEPT ![c] = Tail(@)]
    /\ UNCHANGED <<scan, best>>

\* The process of c enters the kernel; a fork needs an unused process.
Enter(c, name, q) ==
    /\ run[c] # 0 /\ todo[c] = <<>>
    /\ q # run[c] /\ (name = "fork" => ~Running(q))
    /\ todo' = [todo EXCEPT ![c] = Path(name, run[c], q)]
    /\ UNCHANGED <<run, owner, scan, best>>

\* The timer interrupts CPU 1, which holds no spinlock.
Clock(q) ==
    /\ todo[1] = <<>> /\ best[1] = 0
    /\ todo' = [todo EXCEPT ![1] = ClockPath(run[1], q)]
    /\ UNCHANGED <<run, owner, scan, best>>

\* scheduler() starts a round: it reads the clock.
SchedStart(c) ==
    /\ run[c] = 0 /\ todo[c] = <<>> /\ scan[c] = 0
    /\ todo' = [todo EXCEPT ![c] = Now]
    /\ scan' = [scan EXCEPT ![c] = 1]
    /\ UNCHANGED <<run, owner, best>>

\* The scheduler keeps p and releases the best one so far.
Dropped(c, p) == IF best[c] = 0 THEN <<>> ELSE Rel(P(best[c]))

\* It looks at the next process, and keeps it or lets it go.
SchedLook(c) ==
    LET p == scan[c] IN
    /\ run[c] = 0 /\ todo[c] = <<>> /\ p \in ProcIds
    /\ owner[P(p)] = 0
    /\ owner' = [owner EXCEPT ![P(p)] = c]
    /\ scan' = [scan EXCEPT ![c] = p + 1]
    /\ \/ /\ ~Running(p)
          /\ best' = [best EXCEPT ![c] = p]
          /\ todo' = [todo EXCEPT ![c] = Dropped(c, p)]
       \/ /\ todo' = [todo EXCEPT ![c] = Rel(P(p))]
          /\ UNCHANGED best
    /\ UNCHANGED run

\* It switches to the best one, if there is one.
SchedSwitch(c) ==
    /\ run[c] = 0 /\ todo[c] = <<>> /\ scan[c] = NPROC + 1
    /\ run' = [run EXCEPT ![c] = best[c]]
    /\ todo' = [todo EXCEPT ![c] = IF best[c] = 0 THEN <<>>
                                                  ELSE Rel(P(best[c]))]
    /\ scan' = [scan EXCEPT ![c] = 0]
    /\ best' = [best EXCEPT ![c] = 0]
    /\ UNCHANGED owner

LocksNext ==
    \/ \E c \in CPUs :
         \/ Do(c) \/ SchedStart(c) \/ SchedLook(c) \/ SchedSwitch(c)
         \/ \E name \in Calls, q \in ProcIds : Enter(c, name, q)
    \/ \E q \in ProcIds : Clock(q)

LocksSpec == LocksInit /\ [][LocksNext]_lockVars

-----------------------------------------------------------------------------

\* The lock a CPU is about to take, if it is.
Wanted(c) ==
    IF todo[c] # <<>>
    THEN IF Head(todo[c]).op = "acquire" THEN {Head(todo[c]).lock} ELSE {}
    ELSE IF run[c] = 0 /\ scan[c] \in ProcIds THEN {P(scan[c])} ELSE {}

\* No set of CPUs wait for locks that they themselves hold: neither one for
\* its own lock nor several in a circle.
NoDeadlock ==
    \A S \in (SUBSET CPUs) \ {{}} :
        \E c \in S : \A l \in Wanted(c) : owner[l] \notin S
=============================================================================
