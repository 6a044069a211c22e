----------------------------- MODULE Scheduler ------------------------------
(* The scheduler and its score (kernel/proc.c, kernel/agent_loop.c).          *)
(*                                                                            *)
(* Every CPU goes through the process table, one locked process at a time,    *)
(* keeps the lock of the best one so far and runs it.  The processes it has   *)
(* passed change while it goes on: they are woken, run by other CPUs, forked. *)
(* Pending events and wait deadlines are those of AgentWait; here a score may *)
(* find any.                                                                  *)
EXTENDS Integers

CONSTANTS
    ProcCount,          \* NPROC: the table is 1 .. ProcCount
    Cpus,
    MaxPriority,        \* AGENT_MAX_PRIORITY
    DefaultPriority,    \* AGENT_DEFAULT_PRIORITY
    PriorityWeight,     \* 10
    AgingDivisor,       \* AGENT_AGING_DIVISOR
    AgingMax,           \* AGENT_AGING_MAX
    EventWeights,       \* agent_event_weight: 0, 10, 20, 25, 30
    EventMax,           \* the largest of them
    BoostWeight,        \* 10
    BoostMax,           \* 2
    VruntimeDivisor,    \* AGENT_VRUNTIME_DIVISOR
    BudgetPenalty,      \* AGENT_BUDGET_PENALTY_SCORE
    DeadlineBonus,      \* 15
    Quotas,             \* 0, and AGENT_SCHED_QUOTA_MIN .. AGENT_SCHED_QUOTA_MAX
    Interval,           \* AGENT_SCHED_BUDGET_REPLENISH_INTERVAL
    MaxTick, MaxRun,    \* bounds: ticks, and turns of an agent
    MaxRestart          \* bound: agent_create by an agent while others wait

ASSUME SchedulerAssumption ==
    /\ ProcCount \in Nat /\ MaxPriority \in Nat /\ DefaultPriority \in 0 .. MaxPriority
    /\ PriorityWeight \in Nat /\ AgingMax \in Nat /\ AgingDivisor \in Nat \ {0}
    /\ EventMax \in Nat /\ EventWeights \subseteq 0 .. EventMax
    /\ BoostWeight \in Nat /\ BoostMax \in Nat /\ VruntimeDivisor \in Nat \ {0}
    /\ BudgetPenalty \in Nat /\ DeadlineBonus \in Nat
    /\ Quotas \subseteq Nat /\ Interval \in Nat

VARIABLES
    proc,       \* [state, agent, priority, quota, budget, refill, boost, vruntime, since]
    cpu,        \* [at, next, best, score, now]: the scan, or the process that runs
    now,        \* ticks
    fresh,      \* history: processes that became RUNNABLE since the scan began
    passed,     \* history: passed[p][q], how often scans that p was there for from
                \* the beginning have run agent q since p waits
    restarts    \* history: restarts[p][q], how often agent q has called
                \* agent_create since p waits

vars == <<proc, cpu, now, fresh, passed, restarts>>

Procs == 1 .. ProcCount
Idle == [at |-> "idle", next |-> 1, best |-> 0, score |-> 0, now |-> 0]
Unused == [state |-> "unused", agent |-> FALSE, priority |-> DefaultPriority, quota |-> 0,
           budget |-> 0, refill |-> 0, boost |-> 0, vruntime |-> 0, since |-> 0]
Never == [q \in Procs |-> 0]

\* The first process, init, is there and not an agent.
Init == /\ proc = [p \in Procs |-> IF p = 1 THEN [Unused EXCEPT !.state = "runnable"]
                                   ELSE Unused]
        /\ cpu = [c \in Cpus |-> Idle]
        /\ now = 0
        /\ fresh = [c \in Cpus |-> {}]
        /\ passed = [p \in Procs |-> Never]
        /\ restarts = [p \in Procs |-> Never]

\* The scheduler that holds p->lock, having chosen p for now.
Held(p) == \E c \in Cpus : cpu[c].at = "scan" /\ cpu[c].best = p

\* p becomes RUNNABLE: it is new to every scan under way.
Ready(p) == fresh' = [c \in Cpus |-> fresh[c] \cup {p}]

----------------------------------------------------------------------------
(* agent_schedule_score.                                                      *)

SinceOf(p, t) == IF proc[p].since # 0 THEN proc[p].since ELSE IF t # 0 THEN t ELSE 1
Waited(p, t) == IF t > SinceOf(p, t) THEN (t - SinceOf(p, t)) \div AgingDivisor ELSE 0
Aging(p, t) == IF Waited(p, t) > AgingMax THEN AgingMax ELSE Waited(p, t)

\* e is the weight of the most urgent pending event, d the deadline bonus.
Score(p, t, e, d) ==
    PriorityWeight * proc[p].priority + Aging(p, t)
    + (IF proc[p].agent
       THEN e + d + BoostWeight * proc[p].boost
            - (proc[p].vruntime \div VruntimeDivisor)
            - (IF proc[p].budget <= 0 THEN BudgetPenalty ELSE 0)
       ELSE 0)

----------------------------------------------------------------------------
(* scheduler.                                                                 *)

ScanBegin(c) ==
    /\ cpu[c].at = "idle"
    /\ cpu' = [cpu EXCEPT ![c] = [at |-> "scan", next |-> 1, best |-> 0, score |-> -1,
                                  now |-> now]]
    /\ fresh' = [fresh EXCEPT ![c] = {}]
    /\ UNCHANGED <<proc, now, passed, restarts>>

\* The scan comes to a process, when its lock is free.
Skip(c) ==
    LET p == cpu[c].next
    IN /\ cpu[c].at = "scan" /\ p \in Procs /\ ~ Held(p)
       /\ proc[p].state # "runnable"
       /\ cpu' = [cpu EXCEPT ![c].next = p + 1]
       /\ UNCHANGED <<proc, now, fresh, passed, restarts>>

Better(c, s) == cpu[c].best = 0 \/ s > cpu[c].score

\* A variant with a plausible bug, for the mutation checks: another CPU's choice
\* is taken too.
Compare_Unlocked(c) ==
    LET p == cpu[c].next
        t == cpu[c].now
    IN /\ cpu[c].at = "scan" /\ p \in Procs
       /\ proc[p].state = "runnable"
       /\ cpu' = [cpu EXCEPT ![c] =
                    IF Better(c, Score(p, t, 0, 0))
                    THEN [at |-> "scan", next |-> p + 1, best |-> p,
                          score |-> Score(p, t, 0, 0), now |-> t]
                    ELSE [at |-> "scan", next |-> p + 1, best |-> cpu[c].best,
                          score |-> cpu[c].score, now |-> t]]
       /\ proc' = [proc EXCEPT ![p].since = SinceOf(p, t)]
       /\ UNCHANGED <<now, fresh, passed, restarts>>

Compare(c) ==
    LET p == cpu[c].next
        t == cpu[c].now
    IN /\ cpu[c].at = "scan" /\ p \in Procs /\ ~ Held(p)
       /\ proc[p].state = "runnable"
       /\ \E e \in EventWeights, d \in {0, DeadlineBonus} :
            cpu' = [cpu EXCEPT ![c] =
                      IF Better(c, Score(p, t, e, d))
                      THEN [at |-> "scan", next |-> p + 1, best |-> p,
                            score |-> Score(p, t, e, d), now |-> t]
                      ELSE [at |-> "scan", next |-> p + 1, best |-> cpu[c].best,
                            score |-> cpu[c].score, now |-> t]]
       /\ proc' = [proc EXCEPT ![p].since = SinceOf(p, t)]
       /\ UNCHANGED <<now, fresh, passed, restarts>>

NobodyToRun(c) ==
    /\ cpu[c].at = "scan" /\ cpu[c].next > ProcCount /\ cpu[c].best = 0
    /\ cpu' = [cpu EXCEPT ![c] = Idle]
    /\ UNCHANGED <<proc, now, fresh, passed, restarts>>

Waits(p) == proc[p].state = "runnable"

Dispatch(c) ==
    LET q == cpu[c].best
    IN /\ cpu[c].at = "scan" /\ cpu[c].next > ProcCount /\ q # 0
       /\ proc[q].vruntime < MaxRun
       /\ proc' = [proc EXCEPT ![q].state = "running", ![q].since = 0]
       /\ cpu' = [cpu EXCEPT ![c] = [at |-> "run", next |-> 1, best |-> q, score |-> 0,
                                     now |-> cpu[c].now]]
       /\ passed' = [p \in Procs |->
                       IF p = q THEN Never
                       ELSE IF Waits(p) /\ p \notin fresh[c] /\ proc[q].agent
                            THEN [passed[p] EXCEPT ![q] = passed[p][q] + 1]
                            ELSE passed[p]]
       /\ restarts' = [restarts EXCEPT ![q] = Never]
       /\ UNCHANGED <<now, fresh>>

\* A variant with a plausible bug, for the mutation checks: the turn is not counted.
Charged_NoVruntime(r, t) ==
    IF r.agent
    THEN [r EXCEPT !.budget = IF r.quota > 0 /\ r.budget > 0 THEN r.budget - 1 ELSE r.budget,
                   !.refill = IF r.refill = 0 /\ r.quota > 0 THEN t + Interval ELSE r.refill,
                   !.boost = IF r.boost > 0 THEN r.boost - 1 ELSE 0]
    ELSE r

\* Back in the scheduler: what the turn has cost an agent.
Charged(r, t) ==
    IF r.agent
    THEN [r EXCEPT !.budget = IF r.quota > 0 /\ r.budget > 0 THEN r.budget - 1 ELSE r.budget,
                   !.vruntime = r.vruntime + 1,
                   !.refill = IF r.refill = 0 /\ r.quota > 0 THEN t + Interval ELSE r.refill,
                   !.boost = IF r.boost > 0 THEN r.boost - 1 ELSE 0]
    ELSE r

Yield(c) ==
    LET q == cpu[c].best
    IN /\ cpu[c].at = "run"
       /\ proc' = [proc EXCEPT ![q] = Charged([proc[q] EXCEPT !.state = "runnable"],
                                              cpu[c].now)]
       /\ Ready(q)
       /\ cpu' = [cpu EXCEPT ![c] = Idle]
       /\ UNCHANGED <<now, passed, restarts>>

Sleep(c) ==
    LET q == cpu[c].best
    IN /\ cpu[c].at = "run"
       /\ proc' = [proc EXCEPT ![q] = Charged([proc[q] EXCEPT !.state = "sleeping"],
                                              cpu[c].now)]
       /\ cpu' = [cpu EXCEPT ![c] = Idle]
       /\ UNCHANGED <<now, fresh, passed, restarts>>

\* exit, and the freeproc of the parent that waits for it; what is counted of the
\* process ends with it.
Exit(c) ==
    LET q == cpu[c].best
    IN /\ cpu[c].at = "run" /\ q # 1
       /\ proc' = [proc EXCEPT ![q] = Unused]
       /\ cpu' = [cpu EXCEPT ![c] = Idle]
       /\ passed' = [p \in Procs |-> [passed[p] EXCEPT ![q] = 0]]
       /\ restarts' = [p \in Procs |-> [restarts[p] EXCEPT ![q] = 0]]
       /\ UNCHANGED <<now, fresh>>

----------------------------------------------------------------------------
(* What the processes do to one another's entries.                            *)

\* wakeup and kill.
Wakeup(p) ==
    /\ proc[p].state = "sleeping" /\ ~ Held(p)
    /\ proc' = [proc EXCEPT ![p].state = "runnable"]
    /\ Ready(p)
    /\ UNCHANGED <<cpu, now, passed, restarts>>

\* agent_signal_event_locked, of an agent that sleeps for an event or does not.
SignalEvent(p, sleepsForIt) ==
    /\ proc[p].agent /\ ~ Held(p)
    /\ proc[p].boost < BoostMax \/ sleepsForIt
    /\ sleepsForIt => proc[p].state = "sleeping"
    /\ proc' = [proc EXCEPT ![p].boost = IF proc[p].boost < BoostMax THEN BoostMax
                                         ELSE proc[p].boost,
                            ![p].state = IF sleepsForIt THEN "runnable" ELSE proc[p].state]
    /\ IF sleepsForIt THEN Ready(p) ELSE UNCHANGED fresh
    /\ UNCHANGED <<cpu, now, passed, restarts>>

\* fork: the child has the parent's priority and quota, and has not run.
Fork(c, p) ==
    LET q == cpu[c].best
    IN /\ cpu[c].at = "run"
       /\ proc[p].state = "unused"
       /\ proc' = [proc EXCEPT ![p] = [Unused EXCEPT !.state = "runnable",
                                                     !.agent = proc[q].agent,
                                                     !.priority = proc[q].priority,
                                                     !.quota = proc[q].quota]]
       /\ Ready(p)
       /\ UNCHANGED <<cpu, now, passed, restarts>>

\* agent_create, of any process: an agent that calls it again, as every worker
\* does that was forked by one, starts with a vruntime of 0.
Create(c, priority, quota) ==
    LET q == cpu[c].best
    IN /\ cpu[c].at = "run"
       /\ \A p \in Procs : restarts[p][q] < MaxRestart
       /\ proc' = [proc EXCEPT ![q] =
                     [Unused EXCEPT !.state = "running", !.agent = TRUE,
                                    !.priority = priority, !.quota = quota,
                                    !.budget = quota,
                                    !.refill = IF quota > 0 THEN now + Interval ELSE 0]]
       /\ restarts' = [p \in Procs |->
                         IF Waits(p) /\ proc[q].agent
                         THEN [restarts[p] EXCEPT ![q] = restarts[p][q] + 1]
                         ELSE restarts[p]]
       /\ UNCHANGED <<cpu, now, fresh, passed>>

\* agent_proc_sched_set, of the agent itself; priority is the larger of its two.
SchedSet(c, priority, quota) ==
    LET q == cpu[c].best
    IN /\ cpu[c].at = "run" /\ proc[q].agent /\ quota > 0
       /\ proc' = [proc EXCEPT ![q].priority = priority, ![q].quota = quota,
                               ![q].budget = IF proc[q].budget > quota \/ proc[q].budget <= 0
                                             THEN quota ELSE proc[q].budget,
                               ![q].refill = now + Interval]
       /\ UNCHANGED <<cpu, now, fresh, passed, restarts>>

----------------------------------------------------------------------------
Tick == now < MaxTick /\ now' = now + 1 /\ UNCHANGED <<proc, cpu, fresh, passed, restarts>>

\* agent_replenish_budgets, for one process.
Replenish(p) ==
    /\ proc[p].state # "unused" /\ proc[p].agent /\ ~ Held(p)
    /\ proc[p].quota > 0 /\ proc[p].refill > 0 /\ now >= proc[p].refill
    /\ proc' = [proc EXCEPT ![p].budget = proc[p].quota, ![p].refill = now + Interval]
    /\ UNCHANGED <<cpu, now, fresh, passed, restarts>>

CpuStep(c) ==
    \/ ScanBegin(c) \/ Skip(c) \/ Compare(c) \/ NobodyToRun(c) \/ Dispatch(c)
    \/ Yield(c) \/ Sleep(c) \/ Exit(c)
    \/ \E p \in Procs : Fork(c, p)
    \/ \E r \in 0 .. MaxPriority, k \in Quotas : Create(c, r, k) \/ SchedSet(c, r, k)

ProcStep(p) ==
    Wakeup(p) \/ Replenish(p) \/ \E sleepsForIt \in BOOLEAN : SignalEvent(p, sleepsForIt)

Next == \/ \E c \in Cpus : CpuStep(c)
        \/ \E p \in Procs : ProcStep(p)
        \/ Tick

Spec == Init /\ [][Next]_vars

----------------------------------------------------------------------------
ProcRecords == [state: {"unused", "runnable", "running", "sleeping"}, agent: BOOLEAN,
                priority: 0 .. MaxPriority, quota: Nat, budget: Nat, refill: Nat,
                boost: 0 .. BoostMax, vruntime: Nat, since: Nat]

TypeOK ==
    /\ proc \in [Procs -> ProcRecords]
    /\ cpu \in [Cpus -> [at: {"idle", "scan", "run"}, next: Nat, best: {0} \cup Procs,
                         score: Int, now: Nat]]
    /\ now \in Nat
    /\ fresh \in [Cpus -> SUBSET Procs]
    /\ passed \in [Procs -> [Procs -> Nat]]
    /\ restarts \in [Procs -> [Procs -> Nat]]

(* A process runs on one CPU, or is the choice of one scan, which holds it    *)
(* RUNNABLE until it runs it.                                                 *)
OnePlace ==
    /\ \A c \in Cpus : cpu[c].at = "run" => cpu[c].best # 0
    /\ \A c \in Cpus : cpu[c].at # "idle" /\ cpu[c].best # 0 =>
         /\ proc[cpu[c].best].state = IF cpu[c].at = "run" THEN "running" ELSE "runnable"
         /\ \A k \in Cpus : k # c /\ cpu[k].at # "idle" => cpu[k].best # cpu[c].best

\* The part of the score that does not grow with the turns an agent has had.
ScoreLow == - BudgetPenalty
ScoreHigh == PriorityWeight * MaxPriority + AgingMax + EventMax + DeadlineBonus
             + BoostWeight * BoostMax
Lead == VruntimeDivisor * (ScoreHigh - ScoreLow + 1)

\* What a process that waits allows an agent before it calls agent_create again.
Most(p) == proc[p].vruntime + Lead

(* However the scans overlap with wakeups, forks and other CPUs, whatever the  *)
(* priorities, events and boosts: while a process waits, an agent is run in   *)
(* its place, by scans that began after it was ready, at most Lead times more *)
(* often than the process itself has been run.  An agent that calls           *)
(* agent_create again starts anew: each call gives it one turn less than that *)
(* on top.                                                                    *)
BoundedOvertaking ==
    \A p, q \in Procs : Waits(p) /\ proc[q].agent =>
      passed[p][q] <= Most(p) + restarts[p][q] * (Most(p) - 1)
=============================================================================
