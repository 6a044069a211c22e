-------------------------- MODULE SchedulerProofs ---------------------------
(* What CPUs do to each other, proved for every number of processes and CPUs. *)
(* Scheduler: agents do not overtake for ever, for every choice of the        *)
(* weights; a process runs in one place.  KernelLocks: the spinlocks are      *)
(* taken in one order, so nobody waits in a circle, but for the paths that    *)
(* read the clock inside another lock.                                        *)
EXTENDS Scheduler, KernelLocks, SequenceTheorems, WellFoundedInduction, TLAPS

LEMMA Division ==
    ASSUME NEW a \in Nat, NEW d \in Nat \ {0}
    PROVE  /\ a \div d \in Nat
           /\ d * (a \div d) <= a /\ a < d * (a \div d) + d
OBVIOUS

LEMMA Times ==
    ASSUME NEW d \in Nat \ {0}, NEW x \in Int, NEW y \in Int, x <= y
    PROVE  d * x <= d * y /\ d * x \in Int /\ d * y \in Int
OBVIOUS

LEMMA Distribute ==
    ASSUME NEW d \in Nat, NEW x \in Int, NEW y \in Int
    PROVE  d * (x + y) = d * x + d * y
OBVIOUS
----------------------------------------------------------------------------
(* Types.  The entry of a process is a record of the fields below.            *)
LEMMA UnusedType == Unused \in ProcRecords
BY SchedulerAssumption DEF Unused, ProcRecords

LEMMA ChargedType ==
    ASSUME NEW r \in ProcRecords, NEW t \in Nat
    PROVE  /\ Charged(r, t) \in ProcRecords
           /\ Charged(r, t).state = r.state /\ Charged(r, t).agent = r.agent
           /\ Charged(r, t).vruntime = IF r.agent THEN r.vruntime + 1 ELSE r.vruntime
<1>1. CASE ~ r.agent
  BY <1>1 DEF Charged
<1>2. CASE r.agent
  <2> DEFINE b == IF r.quota > 0 /\ r.budget > 0 THEN r.budget - 1 ELSE r.budget
             f == IF r.refill = 0 /\ r.quota > 0 THEN t + Interval ELSE r.refill
             k == IF r.boost > 0 THEN r.boost - 1 ELSE 0
  <2>1. b \in Nat /\ f \in Nat /\ k \in 0 .. BoostMax
    BY SchedulerAssumption DEF ProcRecords
  <2>2. Charged(r, t) = [r EXCEPT !.budget = b, !.vruntime = r.vruntime + 1,
                                  !.refill = f, !.boost = k]
    BY <1>2 DEF Charged
  <2> HIDE DEF b, f, k
  <2>3. r.vruntime + 1 \in Nat
    BY DEF ProcRecords
  <2> QED BY <1>2, <2>1, <2>2, <2>3 DEF ProcRecords
<1> QED BY <1>1, <1>2 DEF ProcRecords

LEMMA SinceType ==
    ASSUME TypeOK, NEW p \in Procs, NEW t \in Nat
    PROVE  SinceOf(p, t) \in Nat /\ Aging(p, t) \in 0 .. AgingMax
<1>1. proc[p].since \in Nat
  BY DEF TypeOK, ProcRecords
<1>2. SinceOf(p, t) \in Nat
  BY <1>1 DEF SinceOf
<1>3. t > SinceOf(p, t) => (t - SinceOf(p, t)) \div AgingDivisor \in Nat
  <2> SUFFICES ASSUME t > SinceOf(p, t) PROVE (t - SinceOf(p, t)) \div AgingDivisor \in Nat
    OBVIOUS
  <2>1. t - SinceOf(p, t) \in Nat
    BY <1>2
  <2> QED BY <2>1, Division, SchedulerAssumption
<1>4. Waited(p, t) \in Nat
  BY <1>3 DEF Waited
<1> QED BY <1>2, <1>4, SchedulerAssumption DEF Aging

(* The score lies within its constant part and the vruntime.                  *)
High(v) == ScoreHigh - (v \div VruntimeDivisor)
Low(v) == ScoreLow - (v \div VruntimeDivisor)

LEMMA ScoreBounds ==
    ASSUME TypeOK, NEW p \in Procs, NEW t \in Nat, NEW e \in EventWeights,
           NEW d \in {0, DeadlineBonus}
    PROVE  /\ Score(p, t, e, d) \in Int
           /\ Low(proc[p].vruntime) <= Score(p, t, e, d)
           /\ proc[p].agent => Score(p, t, e, d) <= High(proc[p].vruntime)
<1> DEFINE x == PriorityWeight * proc[p].priority
           y == BoostWeight * proc[p].boost
           v == proc[p].vruntime \div VruntimeDivisor
           X == PriorityWeight * MaxPriority
           Y == BoostWeight * BoostMax
<1>1. /\ proc[p].priority \in 0 .. MaxPriority /\ proc[p].boost \in 0 .. BoostMax
      /\ proc[p].vruntime \in Nat /\ proc[p].agent \in BOOLEAN
  BY DEF TypeOK, ProcRecords
<1>2. x \in Nat /\ X \in Nat /\ x <= X
  BY <1>1, SchedulerAssumption
<1>3. y \in Nat /\ Y \in Nat /\ y <= Y
  BY <1>1, SchedulerAssumption
<1>4. v \in Nat
  BY <1>1, Division, SchedulerAssumption
<1>5. Aging(p, t) \in 0 .. AgingMax
  BY SinceType
<1>6. e \in 0 .. EventMax /\ d \in 0 .. DeadlineBonus
  BY SchedulerAssumption
<1>7. ScoreLow = 0 - BudgetPenalty /\ ScoreHigh = X + AgingMax + EventMax + DeadlineBonus + Y
  BY SchedulerAssumption DEF ScoreLow, ScoreHigh
<1> DEFINE w == IF proc[p].budget <= 0 THEN BudgetPenalty ELSE 0
<1>8. w \in 0 .. BudgetPenalty
  BY SchedulerAssumption
<1>9. Score(p, t, e, d) = x + Aging(p, t) + (IF proc[p].agent THEN e + d + y - v - w ELSE 0)
  BY DEF Score
<1>10. /\ Low(proc[p].vruntime) = ScoreLow - v /\ High(proc[p].vruntime) = ScoreHigh - v
  BY DEF Low, High
<1> HIDE DEF x, y, v, w, X, Y
<1>11. CASE proc[p].agent
  BY <1>2, <1>3, <1>4, <1>5, <1>6, <1>7, <1>8, <1>9, <1>10, <1>11, SchedulerAssumption
<1>12. CASE ~ proc[p].agent
  BY <1>2, <1>3, <1>4, <1>5, <1>6, <1>7, <1>8, <1>9, <1>10, <1>12, SchedulerAssumption
<1> QED BY <1>11, <1>12
----------------------------------------------------------------------------
CpuRecords == [at: {"idle", "scan", "run"}, next: Nat, best: {0} \cup Procs,
               score: Int, now: Nat]

LEMMA InitTypes == Init => TypeOK
<1> SUFFICES ASSUME Init PROVE TypeOK
  OBVIOUS
<1>1. [Unused EXCEPT !.state = "runnable"] \in ProcRecords
  BY UnusedType DEF ProcRecords
<1>2. proc \in [Procs -> ProcRecords]
  BY <1>1, UnusedType DEF Init
<1>3. Never \in [Procs -> Nat]
  BY DEF Never
<1> QED BY <1>2, <1>3 DEF Init, TypeOK, Idle

LEMMA IdleType == Idle \in CpuRecords
BY DEF Idle, CpuRecords

(* A change of the entry of one process.                                      *)
LEMMA OneProc ==
    ASSUME TypeOK, NEW p \in Procs, NEW r \in ProcRecords, proc' = [proc EXCEPT ![p] = r]
    PROVE  /\ proc' \in [Procs -> ProcRecords]
           /\ \A q \in Procs : proc'[q] = IF q = p THEN r ELSE proc[q]
BY DEF TypeOK

LEMMA OneCpu ==
    ASSUME TypeOK, NEW c \in Cpus, NEW k \in CpuRecords, cpu' = [cpu EXCEPT ![c] = k]
    PROVE  /\ cpu' \in [Cpus -> CpuRecords]
           /\ \A d \in Cpus : cpu'[d] = IF d = c THEN k ELSE cpu[d]
BY DEF TypeOK, CpuRecords

LEMMA ReadyTypes ==
    ASSUME TypeOK, NEW p \in Procs, Ready(p)
    PROVE  /\ fresh' \in [Cpus -> SUBSET Procs]
           /\ \A c \in Cpus : fresh'[c] = fresh[c] \cup {p}
<1>1. \A c \in Cpus : fresh[c] \cup {p} \in SUBSET Procs
  BY DEF TypeOK
<1> QED BY <1>1 DEF Ready

----------------------------------------------------------------------------
(* The inductive invariant.  A scan knows of every process it has passed and  *)
(* that was there from its beginning that it scores at least Low of the       *)
(* process's vruntime and at most what the choice scores, which is at most    *)
(* High of the choice's.                                                      *)
ScanKnows(c) ==
    LET k == cpu[c]
    IN /\ \A p \in Procs : Waits(p) /\ p < k.next /\ p \notin fresh[c]
                             => k.best # 0 /\ Low(proc[p].vruntime) <= k.score
       /\ k.best # 0 /\ proc[k.best].agent => k.score <= High(proc[k.best].vruntime)

ScanOK == \A c \in Cpus : cpu[c].at = "scan" => ScanKnows(c)

Turns(q) == proc[q].vruntime + (IF proc[q].state = "running" THEN 1 ELSE 0)

(* The turns that are counted are those before the last agent_create of the   *)
(* agent, and at most its vruntime.                                           *)
PassedOK ==
    \A p, q \in Procs :
      /\ ~ Waits(p) => passed[p][q] = 0 /\ restarts[p][q] = 0
      /\ ~ proc[q].agent => passed[p][q] = 0
      /\ Waits(p) /\ proc[q].agent
           => passed[p][q] <= restarts[p][q] * (Most(p) - 1) + Turns(q)

Freed == \A p \in Procs : proc[p].state = "unused" => ~ proc[p].agent

Inv == TypeOK /\ OnePlace /\ Freed /\ ScanOK /\ PassedOK /\ BoundedOvertaking

(* What the entries of processes may do under the scans that go on.           *)
LEMMA ScanKept ==
    ASSUME TypeOK, ScanOK, NEW c \in Cpus,
           cpu'[c] = cpu[c], cpu[c].at = "scan", fresh[c] \subseteq fresh'[c],
           \A p \in Procs : Waits(p)' /\ p \notin fresh'[c] =>
                              Waits(p) /\ proc'[p].vruntime = proc[p].vruntime,
           \A p \in Procs : p = cpu[c].best =>
                              /\ proc'[p].vruntime = proc[p].vruntime
                              /\ proc'[p].agent = proc[p].agent
    PROVE  ScanKnows(c)'
<1>1. ScanKnows(c) /\ cpu[c].best \in {0} \cup Procs
  BY DEF ScanOK, TypeOK
<1>2. ASSUME NEW p \in Procs, Waits(p)', p < cpu'[c].next, p \notin fresh'[c]
      PROVE  cpu'[c].best # 0 /\ Low(proc'[p].vruntime) <= cpu'[c].score
  <2>1. Waits(p) /\ p < cpu[c].next /\ p \notin fresh[c]
    BY <1>2
  <2>2. cpu[c].best # 0 /\ Low(proc[p].vruntime) <= cpu[c].score
    BY <1>1, <2>1 DEF ScanKnows
  <2>3. proc'[p].vruntime = proc[p].vruntime
    BY <1>2
  <2> QED BY <2>2, <2>3
<1>3. ASSUME cpu'[c].best # 0, proc'[cpu'[c].best].agent
      PROVE  cpu'[c].score <= High(proc'[cpu'[c].best].vruntime)
  <2>1. cpu[c].best \in Procs
    BY <1>1, <1>3
  <2>2. /\ proc'[cpu[c].best].vruntime = proc[cpu[c].best].vruntime
        /\ proc'[cpu[c].best].agent = proc[cpu[c].best].agent
    BY <2>1
  <2>3. cpu[c].score <= High(proc[cpu[c].best].vruntime)
    BY <1>1, <1>3, <2>2 DEF ScanKnows
  <2> QED BY <2>2, <2>3
<1> QED BY <1>2, <1>3 DEF ScanKnows, Low, High

(* A step that changes neither who is where nor the turns.                    *)
LEMMA EntriesOnly ==
    ASSUME Inv, TypeOK', UNCHANGED <<cpu, fresh, passed, restarts>>,
           \A p \in Procs : /\ proc'[p].vruntime = proc[p].vruntime
                            /\ proc'[p].agent = proc[p].agent
                            /\ proc'[p].state = proc[p].state
    PROVE  Inv'
<1>1. \A p \in Procs : Waits(p)' = Waits(p) /\ Turns(p)' = Turns(p)
  BY DEF Waits, Turns
<1>2. ScanOK'
  BY <1>1, ScanKept DEF Inv, ScanOK
<1>3. OnePlace' /\ Freed'
  BY DEF Inv, OnePlace, TypeOK, Freed
<1>4. PassedOK' /\ BoundedOvertaking'
  <2>1. \A p \in Procs : Most(p)' = Most(p)
    BY DEF Most
  <2>2. PassedOK'
    BY <1>1, <2>1 DEF Inv, PassedOK
  <2>3. BoundedOvertaking'
    BY <1>1, <2>1 DEF Inv, BoundedOvertaking
  <2> QED BY <2>2, <2>3
<1> QED BY <1>2, <1>3, <1>4 DEF Inv
----------------------------------------------------------------------------
(* The scan.                                                                  *)
LEMMA ScanBeginStep == ASSUME Inv, NEW c \in Cpus, ScanBegin(c) PROVE Inv'
<1> DEFINE k == [at |-> "scan", next |-> 1, best |-> 0, score |-> -1, now |-> now]
<1> USE DEF Inv
<1>1. k \in CpuRecords /\ TypeOK /\ cpu' = [cpu EXCEPT ![c] = k]
  BY DEF CpuRecords, TypeOK, ScanBegin
<1>2. /\ cpu' \in [Cpus -> CpuRecords]
      /\ \A d \in Cpus : cpu'[d] = IF d = c THEN k ELSE cpu[d]
  BY <1>1, OneCpu
<1>3. fresh' \in [Cpus -> SUBSET Procs] /\ \A d \in Cpus : d # c => fresh'[d] = fresh[d]
  BY <1>1 DEF ScanBegin, TypeOK
<1>4. TypeOK' /\ UNCHANGED <<proc, passed, restarts>>
  BY <1>1, <1>2, <1>3 DEF TypeOK, CpuRecords, ScanBegin
<1>5. OnePlace' /\ Freed'
  BY <1>2, <1>4 DEF OnePlace, Freed
<1>6. ASSUME NEW d \in Cpus, cpu'[d].at = "scan" PROVE ScanKnows(d)'
  <2>1. CASE d = c
    <3>1. cpu'[d].next = 1 /\ cpu'[d].best = 0
      BY <1>2, <2>1
    <3>2. \A p \in Procs : ~ (p < 1)
      BY SchedulerAssumption DEF Procs
    <3> QED BY <3>1, <3>2 DEF ScanKnows
  <2>2. CASE d # c
    BY <1>2, <1>3, <1>4, <1>6, <2>2, ScanKept DEF Waits
  <2> QED BY <2>1, <2>2
<1>7. PassedOK' /\ BoundedOvertaking'
  BY <1>4 DEF PassedOK, BoundedOvertaking, Turns, Most, Waits
<1> QED BY <1>4, <1>5, <1>6, <1>7 DEF ScanOK

LEMMA SkipStep == ASSUME Inv, NEW c \in Cpus, Skip(c) PROVE Inv'
<1> DEFINE p == cpu[c].next
           k == [cpu[c] EXCEPT !.next = p + 1]
<1> USE DEF Inv
<1>1. /\ TypeOK /\ cpu[c] \in CpuRecords /\ p \in Procs /\ p \in Nat
      /\ cpu[c].at = "scan" /\ ~ Waits(p) /\ UNCHANGED <<proc, now, fresh, passed, restarts>>
  BY SchedulerAssumption DEF TypeOK, CpuRecords, Skip, Waits, Procs
<1>2. k \in CpuRecords /\ k.next = p + 1 /\ k.best = cpu[c].best /\ k.score = cpu[c].score
      /\ k.at = "scan"
  BY <1>1 DEF CpuRecords
<1>3. cpu' = [cpu EXCEPT ![c] = k]
  BY DEF Skip
<1> HIDE DEF k
<1>4. /\ cpu' \in [Cpus -> CpuRecords]
      /\ \A d \in Cpus : cpu'[d] = IF d = c THEN k ELSE cpu[d]
  BY <1>1, <1>2, <1>3, OneCpu
<1>5. TypeOK'
  BY <1>1, <1>4 DEF TypeOK, CpuRecords
<1>6. OnePlace' /\ Freed'
  BY <1>1, <1>2, <1>4 DEF OnePlace, Freed
<1>7. ASSUME NEW d \in Cpus, cpu'[d].at = "scan" PROVE ScanKnows(d)'
  <2>1. CASE d = c
    <3>1. ScanKnows(c)
      BY <1>1 DEF ScanOK
    <3>2. \A q \in Procs : Waits(q) /\ q < p + 1 => q < p
      BY <1>1, SchedulerAssumption DEF Procs
    <3>3. \A q \in Procs : Waits(q)' = Waits(q)
      BY <1>1 DEF Waits
    <3>4. cpu'[c].next = p + 1 /\ cpu'[c].best = cpu[c].best /\ cpu'[c].score = cpu[c].score
      BY <1>2, <1>4
    <3>5. ASSUME NEW q \in Procs, Waits(q)', q < p + 1, q \notin fresh'[c]
          PROVE  cpu[c].best # 0 /\ Low(proc'[q].vruntime) <= cpu[c].score
      <4>1. Waits(q) /\ q < p /\ q \notin fresh[c] /\ proc'[q].vruntime = proc[q].vruntime
        BY <1>1, <3>2, <3>3, <3>5
      <4> QED BY <3>1, <4>1 DEF ScanKnows
    <3>6. cpu[c].best # 0 /\ proc'[cpu[c].best].agent
            => cpu[c].score <= High(proc'[cpu[c].best].vruntime)
      BY <1>1, <3>1 DEF ScanKnows
    <3> QED BY <2>1, <3>4, <3>5, <3>6 DEF ScanKnows, Low, High
  <2>2. CASE d # c
    BY <1>1, <1>4, <1>7, <2>2, ScanKept DEF Waits
  <2> QED BY <2>1, <2>2
<1>8. PassedOK' /\ BoundedOvertaking'
  BY <1>1 DEF PassedOK, BoundedOvertaking, Turns, Most, Waits
<1> QED BY <1>5, <1>6, <1>7, <1>8 DEF ScanOK

LEMMA NobodyStep == ASSUME Inv, NEW c \in Cpus, NobodyToRun(c) PROVE Inv'
<1> USE DEF Inv
<1>1. TypeOK /\ UNCHANGED <<proc, now, fresh, passed, restarts>> /\ cpu' = [cpu EXCEPT ![c] = Idle]
  BY DEF NobodyToRun
<1>2. /\ cpu' \in [Cpus -> CpuRecords]
      /\ \A d \in Cpus : cpu'[d] = IF d = c THEN Idle ELSE cpu[d]
  BY <1>1, IdleType, OneCpu
<1>3. TypeOK'
  BY <1>1, <1>2 DEF TypeOK, CpuRecords
<1>4. OnePlace' /\ Freed'
  BY <1>1, <1>2 DEF OnePlace, Idle, Freed
<1>5. ASSUME NEW d \in Cpus, cpu'[d].at = "scan" PROVE ScanKnows(d)'
  BY <1>1, <1>2, <1>5, ScanKept DEF Waits, Idle
<1>6. PassedOK' /\ BoundedOvertaking'
  BY <1>1 DEF PassedOK, BoundedOvertaking, Turns, Most, Waits
<1> QED BY <1>3, <1>4, <1>5, <1>6 DEF ScanOK

LEMMA CompareStep == ASSUME Inv, NEW c \in Cpus, Compare(c) PROVE Inv'
<1> DEFINE p == cpu[c].next
           t == cpu[c].now
<1> USE DEF Inv
<1>1. PICK e \in EventWeights, d \in {0, DeadlineBonus} :
        cpu' = [cpu EXCEPT ![c] =
                  IF Better(c, Score(p, t, e, d))
                  THEN [at |-> "scan", next |-> p + 1, best |-> p,
                        score |-> Score(p, t, e, d), now |-> t]
                  ELSE [at |-> "scan", next |-> p + 1, best |-> cpu[c].best,
                        score |-> cpu[c].score, now |-> t]]
  BY DEF Compare
<1> DEFINE s == Score(p, t, e, d)
           r == [proc[p] EXCEPT !.since = SinceOf(p, t)]
<1>2. /\ TypeOK /\ cpu[c] \in CpuRecords /\ p \in Procs /\ p \in Nat /\ t \in Nat
      /\ cpu[c].at = "scan" /\ Waits(p) /\ ~ Held(p)
      /\ UNCHANGED <<now, fresh, passed, restarts>>
      /\ cpu[c].best # p /\ proc[p] \in ProcRecords
      /\ proc' = [proc EXCEPT ![p] = r]
  BY SchedulerAssumption DEF TypeOK, CpuRecords, Compare, Waits, Procs, Held
<1>3. r \in ProcRecords /\ r.vruntime = proc[p].vruntime /\ r.agent = proc[p].agent
      /\ r.state = proc[p].state
  BY <1>2, SinceType DEF ProcRecords
<1>4. s \in Int /\ Low(proc[p].vruntime) <= s /\ (proc[p].agent => s <= High(proc[p].vruntime))
  BY <1>2, ScoreBounds
<1> HIDE DEF s, r
<1>5. /\ proc' \in [Procs -> ProcRecords]
      /\ \A q \in Procs : /\ proc'[q].vruntime = proc[q].vruntime
                          /\ proc'[q].agent = proc[q].agent
                          /\ proc'[q].state = proc[q].state
  BY <1>2, <1>3, OneProc
<1> DEFINE k == IF Better(c, s)
                THEN [at |-> "scan", next |-> p + 1, best |-> p, score |-> s, now |-> t]
                ELSE [at |-> "scan", next |-> p + 1, best |-> cpu[c].best,
                      score |-> cpu[c].score, now |-> t]
<1>6. k \in CpuRecords /\ k.at = "scan" /\ k.next = p + 1
  BY <1>2, <1>4 DEF CpuRecords
<1>7. /\ Better(c, s) => k.best = p /\ k.score = s
      /\ ~ Better(c, s) => k.best = cpu[c].best /\ k.score = cpu[c].score
  OBVIOUS
<1>8. cpu' = [cpu EXCEPT ![c] = k]
  BY <1>1 DEF s
<1> HIDE DEF k
<1>9. /\ cpu' \in [Cpus -> CpuRecords]
      /\ \A d2 \in Cpus : cpu'[d2] = IF d2 = c THEN k ELSE cpu[d2]
  BY <1>2, <1>6, <1>8, OneCpu
<1>10. TypeOK'
  BY <1>2, <1>5, <1>9 DEF TypeOK, CpuRecords
<1>11. \A q \in Procs : Waits(q)' = Waits(q) /\ Turns(q)' = Turns(q)
  BY <1>5 DEF Waits, Turns
<1>12. OnePlace'
  <2>1. \A d2 \in Cpus : cpu[d2].best \in {0} \cup Procs
    BY DEF TypeOK
  <2>2. \A d2 \in Cpus : d2 # c /\ cpu[d2].at # "idle" => cpu[d2].best # p
    BY <1>2 DEF Held, OnePlace, Waits, TypeOK
  <2>3. cpu'[c].best \in {p, cpu[c].best}
    BY <1>7, <1>9
  <2>4. \A d2 \in Cpus : cpu'[d2].at = cpu[d2].at
    BY <1>2, <1>6, <1>9
  <2>5. \A d2 \in Cpus : d2 # c => cpu'[d2].best = cpu[d2].best
    BY <1>9
  <2>6. /\ \A d2 \in Cpus : cpu'[d2].at = "run" => cpu'[d2].best # 0
    BY <1>2, <2>4, <2>5 DEF OnePlace
  <2>7. ASSUME NEW d2 \in Cpus, cpu'[d2].at # "idle", cpu'[d2].best # 0
        PROVE  /\ proc'[cpu'[d2].best].state = IF cpu'[d2].at = "run" THEN "running" ELSE "runnable"
               /\ \A k2 \in Cpus : k2 # d2 /\ cpu'[k2].at # "idle" => cpu'[k2].best # cpu'[d2].best
    <3>1. CASE d2 = c /\ cpu'[c].best = p
      BY <1>2, <1>5, <2>2, <2>4, <2>5, <3>1 DEF Waits
    <3>2. CASE cpu'[d2].best = cpu[d2].best
      <4>1. cpu[d2].at # "idle" /\ cpu[d2].best # 0 /\ cpu[d2].best \in Procs
        BY <2>1, <2>4, <2>7, <3>2
      <4>2. proc'[cpu'[d2].best].state = IF cpu'[d2].at = "run" THEN "running" ELSE "runnable"
        BY <1>5, <2>4, <3>2, <4>1 DEF OnePlace
      <4>3. \A k2 \in Cpus : k2 # d2 /\ cpu[k2].at # "idle" => cpu[k2].best # cpu[d2].best
        BY <4>1 DEF OnePlace
      <4>4. cpu[d2].best = p => d2 = c
        BY <2>2, <4>1
      <4> QED BY <1>2, <2>3, <2>4, <2>5, <3>2, <4>2, <4>3, <4>4
    <3> QED BY <2>3, <2>5, <3>1, <3>2
  <2> QED BY <2>6, <2>7 DEF OnePlace
<1>13. ASSUME NEW d2 \in Cpus, cpu'[d2].at = "scan" PROVE ScanKnows(d2)'
  <2>1. CASE d2 = c
    <3>1. ScanKnows(c)
      BY <1>2 DEF ScanOK
    <3>2. \A q \in Procs : q < p + 1 => q < p \/ q = p
      BY <1>2, SchedulerAssumption DEF Procs
    <3>3. cpu'[c] = k /\ fresh'[c] = fresh[c] /\ cpu[c].score \in Int
          /\ \A q \in Procs : Low(proc[q].vruntime) \in Int
      <4>1. \A q \in Procs : proc[q].vruntime \div VruntimeDivisor \in Nat
        BY Division, SchedulerAssumption DEF TypeOK, ProcRecords
      <4>2. ScoreLow \in Int
        BY SchedulerAssumption DEF ScoreLow
      <4> QED BY <1>2, <1>9, <4>1, <4>2 DEF CpuRecords, Low
    <3>4. CASE Better(c, s)
      <4>1. \A q \in Procs : Waits(q) /\ q < p /\ q \notin fresh[c]
                               => Low(proc[q].vruntime) <= s
        BY <1>4, <3>1, <3>3, <3>4 DEF ScanKnows, Better
      <4>2. k.best = p /\ k.score = s /\ k.next = p + 1 /\ p # 0
        BY <1>2, <1>6, <1>7, <3>4 DEF Procs
      <4>3. ASSUME NEW q \in Procs, Waits(q)', q < k.next, q \notin fresh'[c]
            PROVE  k.best # 0 /\ Low(proc'[q].vruntime) <= k.score
        <5>1. Waits(q) /\ proc'[q].vruntime = proc[q].vruntime /\ q \notin fresh[c]
          BY <1>5, <1>11, <3>3, <4>3
        <5> QED BY <1>4, <3>2, <4>1, <4>2, <4>3, <5>1
      <4>4. proc'[k.best].agent => k.score <= High(proc'[k.best].vruntime)
        BY <1>2, <1>4, <1>5, <4>2
      <4> QED BY <2>1, <3>3, <4>3, <4>4 DEF ScanKnows, Low, High
    <3>5. CASE ~ Better(c, s)
      <4>1. s <= cpu[c].score /\ cpu[c].best # 0
        BY <1>4, <3>3, <3>5 DEF Better
      <4>2. Low(proc[p].vruntime) <= cpu[c].score
        BY <1>2, <1>4, <3>3, <4>1
      <4>3. k.best = cpu[c].best /\ k.score = cpu[c].score /\ k.next = p + 1
            /\ k.best \in Procs
        BY <1>2, <1>6, <1>7, <3>5, <4>1 DEF CpuRecords
      <4>4. ASSUME NEW q \in Procs, Waits(q)', q < k.next, q \notin fresh'[c]
            PROVE  Low(proc'[q].vruntime) <= k.score
        <5>1. Waits(q) /\ proc'[q].vruntime = proc[q].vruntime /\ q \notin fresh[c]
          BY <1>5, <1>11, <3>3, <4>4
        <5> QED BY <3>1, <3>2, <4>2, <4>3, <4>4, <5>1 DEF ScanKnows
      <4>5. proc'[k.best].agent => k.score <= High(proc'[k.best].vruntime)
        BY <1>5, <3>1, <4>1, <4>3 DEF ScanKnows
      <4> QED BY <2>1, <3>3, <4>1, <4>3, <4>4, <4>5 DEF ScanKnows, Low, High
    <3> QED BY <2>1, <3>4, <3>5
  <2>2. CASE d2 # c
    BY <1>2, <1>5, <1>9, <1>11, <1>13, <2>2, ScanKept
  <2> QED BY <2>1, <2>2
<1>14. PassedOK' /\ BoundedOvertaking'
  BY <1>2, <1>5, <1>11 DEF PassedOK, BoundedOvertaking, Most
<1>15. Freed'
  BY <1>5 DEF Freed
<1> QED BY <1>10, <1>12, <1>13, <1>14, <1>15 DEF ScanOK
----------------------------------------------------------------------------
(* A turn.                                                                    *)

(* Scores that meet bound the vruntimes: v is less than Lead above w.         *)
LEMMA LeadBound ==
    ASSUME NEW v \in Nat, NEW w \in Nat, NEW s \in Int, Low(w) <= s, s <= High(v)
    PROVE  v + 1 <= w + Lead
<1> DEFINE D == VruntimeDivisor
           x == v \div D
           y == w \div D
           R == ScoreHigh - ScoreLow
<1>1. D \in Nat \ {0} /\ ScoreHigh \in Int /\ ScoreLow \in Int /\ R \in Int
  BY SchedulerAssumption DEF ScoreHigh, ScoreLow
<1>2. /\ x \in Nat /\ v < D * x + D
      /\ y \in Nat /\ D * y <= w
  BY <1>1, Division
<1>3. ScoreLow - y <= s /\ s <= ScoreHigh - x
  BY DEF Low, High
<1>4. Lead = D * (R + 1)
  BY DEF Lead
<1> HIDE DEF D, x, y, R
<1>5. x <= y + R
  BY <1>1, <1>2, <1>3 DEF R
<1>6. D * x <= D * (y + R) /\ D * x \in Int
  BY <1>1, <1>2, <1>5, Times
<1>7. D * (y + R) = D * y + D * R /\ D * (R + 1) = D * R + D * 1
  BY <1>1, <1>2, Distribute
<1>8. D * y \in Int /\ D * R \in Int /\ D * 1 = D
  BY <1>1, <1>2
<1> QED BY <1>1, <1>2, <1>4, <1>6, <1>7, <1>8

LEMMA LeadType == Lead \in Nat \ {0}
<1> DEFINE R == ScoreHigh - ScoreLow + 1
<1>1. VruntimeDivisor \in Nat \ {0} /\ R \in Nat \ {0}
  <2>1. PriorityWeight * MaxPriority \in Nat /\ BoostWeight * BoostMax \in Nat
    BY SchedulerAssumption
  <2> QED BY <2>1, SchedulerAssumption DEF ScoreHigh, ScoreLow
<1>2. Lead = VruntimeDivisor * R
  BY DEF Lead
<1> HIDE DEF R
<1> QED BY <1>1, <1>2

(* The counts and what bounds them are numbers, the bounds do not fall with    *)
(* an agent_create, and 0 is within them.                                      *)
LEMMA CountTypes ==
    ASSUME TypeOK, NEW p \in Procs, NEW q \in Procs
    PROVE  /\ passed[p][q] \in Nat /\ restarts[p][q] \in Nat /\ Turns(q) \in Nat
           /\ Most(p) \in Nat \ {0}
           /\ restarts[p][q] * (Most(p) - 1) \in Nat
           /\ (restarts[p][q] + 1) * (Most(p) - 1) = restarts[p][q] * (Most(p) - 1) + Most(p) - 1
<1>1. /\ passed[p][q] \in Nat /\ restarts[p][q] \in Nat
      /\ proc[p].vruntime \in Nat /\ proc[q].vruntime \in Nat
  BY DEF TypeOK, ProcRecords
<1>2. Turns(q) \in Nat /\ Most(p) \in Nat \ {0}
  BY <1>1, LeadType DEF Turns, Most
<1> DEFINE m == Most(p) - 1
           n == restarts[p][q]
<1>3. m \in Nat /\ n \in Nat
  BY <1>1, <1>2
<1> HIDE DEF m, n
<1>4. n * m \in Nat /\ (n + 1) * m = n * m + m
  BY <1>3
<1>5. m = Most(p) - 1 /\ n = restarts[p][q]
  BY DEF m, n
<1> QED BY <1>1, <1>2, <1>4, <1>5

LEMMA DispatchStep == ASSUME Inv, NEW c \in Cpus, Dispatch(c) PROVE Inv'
<1> DEFINE q == cpu[c].best
           r == [proc[q] EXCEPT !.state = "running", !.since = 0]
           k == [at |-> "run", next |-> 1, best |-> q, score |-> 0, now |-> cpu[c].now]
<1> USE DEF Inv
<1>1. /\ TypeOK /\ cpu[c] \in CpuRecords /\ q \in Procs /\ q # 0 /\ cpu[c].at = "scan"
      /\ cpu[c].next > ProcCount /\ proc[q] \in ProcRecords /\ UNCHANGED <<now, fresh>>
      /\ proc' = [proc EXCEPT ![q] = r] /\ cpu' = [cpu EXCEPT ![c] = k]
      /\ k \in CpuRecords /\ r \in ProcRecords
  <2>1. cpu[c] \in CpuRecords /\ proc \in [Procs -> ProcRecords]
    BY DEF TypeOK, CpuRecords
  <2>2. q \in Procs /\ q # 0 /\ cpu[c].at = "scan" /\ cpu[c].next > ProcCount
        /\ UNCHANGED <<now, fresh>>
    BY <2>1 DEF Dispatch, CpuRecords
  <2>3. proc[q] \in ProcRecords /\ r \in ProcRecords
    <3>1. proc[q] \in ProcRecords
      BY <2>1, <2>2
    <3> QED BY <3>1 DEF ProcRecords
  <2>4. k \in CpuRecords
    BY <2>1, <2>2 DEF CpuRecords
  <2>5. proc' = [proc EXCEPT ![q] = r]
    BY <2>1, <2>2 DEF Dispatch
  <2>6. cpu' = [cpu EXCEPT ![c] = k]
    BY DEF Dispatch
  <2> QED BY <2>1, <2>2, <2>3, <2>4, <2>5, <2>6
<1>2. /\ r.vruntime = proc[q].vruntime /\ r.agent = proc[q].agent /\ r.state = "running"
      /\ proc[q].state = "runnable" /\ k.at = "run" /\ k.best = q
  BY <1>1 DEF OnePlace, ProcRecords
<1> DEFINE N(p) == Waits(p) /\ p \notin fresh[c] /\ proc[q].agent
<1>3. /\ passed' = [p \in Procs |->
                      IF p = q THEN Never
                      ELSE IF N(p) THEN [passed[p] EXCEPT ![q] = passed[p][q] + 1]
                      ELSE passed[p]]
      /\ restarts' = [restarts EXCEPT ![q] = Never]
  BY DEF Dispatch
<1> HIDE DEF r, k, N
<1>4. /\ proc' \in [Procs -> ProcRecords]
      /\ \A p \in Procs : proc'[p] = IF p = q THEN r ELSE proc[p]
  BY <1>1, OneProc
<1>5. /\ cpu' \in [Cpus -> CpuRecords]
      /\ \A d \in Cpus : cpu'[d] = IF d = c THEN k ELSE cpu[d]
  BY <1>1, OneCpu
<1>6. /\ passed' \in [Procs -> [Procs -> Nat]]
      /\ restarts' \in [Procs -> [Procs -> Nat]]
      /\ \A p, o \in Procs : passed'[p][o] = IF p = q THEN 0
                                             ELSE IF N(p) /\ o = q THEN passed[p][o] + 1
                                             ELSE passed[p][o]
      /\ \A p, o \in Procs : restarts'[p][o] = IF p = q THEN 0 ELSE restarts[p][o]
  <2>1. passed \in [Procs -> [Procs -> Nat]] /\ restarts \in [Procs -> [Procs -> Nat]]
        /\ Never \in [Procs -> Nat] /\ \A o \in Procs : Never[o] = 0
    BY DEF TypeOK, Never
  <2>2. \A p \in Procs : passed[p][q] + 1 \in Nat
    BY <1>1, <2>1
  <2>3. \A p \in Procs : [passed[p] EXCEPT ![q] = passed[p][q] + 1] \in [Procs -> Nat]
    BY <2>1, <2>2
  <2> QED BY <1>1, <1>3, <2>1, <2>3
<1>7. TypeOK'
  BY <1>1, <1>4, <1>5, <1>6 DEF TypeOK, CpuRecords
<1>8. \A d \in Cpus : d # c /\ cpu[d].at # "idle" => cpu[d].best # q
  BY <1>1 DEF OnePlace
<1>9. OnePlace'
  <2>1. ASSUME NEW d \in Cpus PROVE cpu'[d].at = "run" => cpu'[d].best # 0
    BY <1>1, <1>2, <1>5 DEF OnePlace
  <2>2. ASSUME NEW d \in Cpus, cpu'[d].at # "idle", cpu'[d].best # 0
        PROVE  /\ proc'[cpu'[d].best].state = IF cpu'[d].at = "run" THEN "running" ELSE "runnable"
               /\ \A j \in Cpus : j # d /\ cpu'[j].at # "idle" => cpu'[j].best # cpu'[d].best
    <3>1. CASE d = c
      BY <1>1, <1>2, <1>4, <1>5, <1>8, <3>1
    <3>2. CASE d # c
      <4>1. cpu'[d] = cpu[d] /\ cpu[d].best # q /\ cpu[d].best \in Procs
        BY <1>5, <1>8, <2>2, <3>2 DEF TypeOK
      <4>2. proc'[cpu[d].best] = proc[cpu[d].best]
        BY <1>4, <4>1
      <4> QED BY <1>2, <1>5, <2>2, <3>2, <4>1, <4>2 DEF OnePlace
    <3> QED BY <3>1, <3>2
  <2> QED BY <2>1, <2>2 DEF OnePlace
<1>10. ASSUME NEW d \in Cpus, cpu'[d].at = "scan" PROVE ScanKnows(d)'
  <2>1. d # c /\ cpu'[d] = cpu[d] /\ cpu[d].best # q
    BY <1>2, <1>5, <1>8, <1>10
  <2>2. \A p \in Procs : Waits(p)' => Waits(p) /\ proc'[p] = proc[p]
    BY <1>2, <1>4 DEF Waits
  <2>3. \A p \in Procs : p = cpu[d].best => proc'[p] = proc[p]
    BY <1>4, <2>1
  <2> QED BY <1>1, <1>10, <2>1, <2>2, <2>3, ScanKept
<1>11. \A p \in Procs : /\ proc'[p].vruntime = proc[p].vruntime
                        /\ proc'[p].agent = proc[p].agent
  BY <1>2, <1>4
<1>12. ASSUME NEW p \in Procs, NEW o \in Procs, Waits(p)', proc'[o].agent
       PROVE  /\ passed'[p][o] <= restarts'[p][o] * (Most(p)' - 1) + Turns(o)'
              /\ passed'[p][o] <= Most(p)' + restarts'[p][o] * (Most(p)' - 1)
  <2>1. Waits(p) /\ p # q /\ proc[o].agent
    BY <1>2, <1>4, <1>11, <1>12 DEF Waits
  <2>2. Most(p)' = Most(p) /\ restarts'[p][o] = restarts[p][o]
    BY <1>6, <1>11, <2>1 DEF Most
  <2> DEFINE n == restarts[p][o] * (Most(p) - 1)
  <2>3. n \in Nat /\ Most(p) \in Nat /\ passed[p][o] \in Nat /\ Turns(o) \in Nat
    BY CountTypes
  <2>4. passed[p][o] <= n + Turns(o)
    BY <2>1 DEF PassedOK
  <2>5. passed[p][o] <= Most(p) + n
    BY <2>1 DEF BoundedOvertaking
  <2> HIDE DEF n
  <2>6. CASE N(p) /\ o = q
    <3>1. ScanKnows(c) /\ p < cpu[c].next /\ p \notin fresh[c]
      BY <1>1, <2>6, SchedulerAssumption DEF ScanOK, N, Procs, CpuRecords
    <3>2. Low(proc[p].vruntime) <= cpu[c].score /\ cpu[c].score <= High(proc[q].vruntime)
      BY <1>1, <2>1, <2>6, <3>1 DEF ScanKnows
    <3>3. proc[q].vruntime \in Nat /\ proc[p].vruntime \in Nat /\ cpu[c].score \in Int
      BY <1>1 DEF TypeOK, ProcRecords, CpuRecords
    <3>4. proc[q].vruntime + 1 <= Most(p)
      BY <3>2, <3>3, LeadBound DEF Most
    <3>5. Turns(o) = proc[q].vruntime /\ Turns(o)' = proc[q].vruntime + 1
      BY <1>2, <1>4, <1>11, <2>6, <3>3 DEF Turns
    <3>6. passed'[p][o] = passed[p][o] + 1
      BY <1>6, <2>1, <2>6
    <3>7. /\ passed'[p][o] <= n + Turns(o)'
          /\ passed'[p][o] <= Most(p) + n
      BY <2>3, <2>4, <3>3, <3>4, <3>5, <3>6
    <3> QED BY <2>2, <3>7 DEF n
  <2>7. CASE ~ (N(p) /\ o = q)
    <3>1. passed'[p][o] = passed[p][o]
      BY <1>6, <2>1, <2>7
    <3>2. proc[o].vruntime \in Nat /\ Turns(o) <= Turns(o)' /\ Turns(o)' \in Nat
      BY <1>1, <1>2, <1>4, <1>11 DEF Turns, TypeOK, ProcRecords
    <3>3. /\ passed'[p][o] <= n + Turns(o)'
          /\ passed'[p][o] <= Most(p) + n
      BY <2>3, <2>4, <2>5, <3>1, <3>2
    <3> QED BY <2>2, <3>3 DEF n
  <2> QED BY <2>6, <2>7
<1>13. PassedOK' /\ BoundedOvertaking'
  <2>1. \A p, o \in Procs : ~ Waits(p)' => passed'[p][o] = 0 /\ restarts'[p][o] = 0
    BY <1>4, <1>6 DEF PassedOK, Waits, N
  <2>2. \A p, o \in Procs : ~ proc'[o].agent => passed'[p][o] = 0
    BY <1>6, <1>11 DEF PassedOK, N
  <2>3. PassedOK'
    BY <1>12, <2>1, <2>2 DEF PassedOK
  <2>4. BoundedOvertaking'
    BY <1>12 DEF BoundedOvertaking
  <2> QED BY <2>3, <2>4
<1>14. Freed'
  BY <1>2, <1>4 DEF Freed
<1> QED BY <1>7, <1>9, <1>10, <1>13, <1>14 DEF ScanOK
----------------------------------------------------------------------------
(* What the processes do to their own entries and to those of others.         *)

(* A scan that goes on holds its choice, a turn that goes on its process; what *)
(* waits has waited unchanged or is new to all scans.                          *)
LEMMA PlacesKept ==
    ASSUME Inv,
           \A d \in Cpus : cpu'[d] = cpu[d] \/ cpu'[d] = Idle,
           \A d \in Cpus : fresh[d] \subseteq fresh'[d],
           \A d \in Cpus, p \in Procs :
              cpu'[d] = cpu[d] /\ cpu[d].at # "idle" /\ p = cpu[d].best
                => /\ proc'[p].state = proc[p].state
                   /\ cpu[d].at = "scan" => /\ proc'[p].vruntime = proc[p].vruntime
                                            /\ proc'[p].agent = proc[p].agent,
           \A p \in Procs : Waits(p)' =>
              \/ Waits(p) /\ proc'[p].vruntime = proc[p].vruntime
              \/ \A d \in Cpus : p \in fresh'[d]
    PROVE  OnePlace' /\ ScanOK'
<1> USE DEF Inv
<1>1. OnePlace'
  <2>1. \A d \in Cpus : cpu'[d].at # "idle" => cpu'[d] = cpu[d]
    BY DEF Idle
  <2>2. ASSUME NEW d \in Cpus PROVE cpu'[d].at = "run" => cpu'[d].best # 0
    BY <2>1 DEF OnePlace
  <2>3. ASSUME NEW d \in Cpus, cpu'[d].at # "idle", cpu'[d].best # 0
        PROVE  /\ proc'[cpu'[d].best].state = IF cpu'[d].at = "run" THEN "running" ELSE "runnable"
               /\ \A j \in Cpus : j # d /\ cpu'[j].at # "idle" => cpu'[j].best # cpu'[d].best
    <3>1. cpu'[d] = cpu[d] /\ cpu[d].best \in Procs
      BY <2>1, <2>3 DEF TypeOK
    <3>2. proc'[cpu[d].best].state = proc[cpu[d].best].state
      BY <2>3, <3>1
    <3>3. proc[cpu[d].best].state = IF cpu[d].at = "run" THEN "running" ELSE "runnable"
      BY <2>3, <3>1 DEF OnePlace
    <3>4. \A j \in Cpus : j # d /\ cpu[j].at # "idle" => cpu[j].best # cpu[d].best
      BY <2>3, <3>1 DEF OnePlace
    <3> QED BY <2>1, <3>1, <3>2, <3>3, <3>4
  <2> QED BY <2>2, <2>3 DEF OnePlace
<1>2. ASSUME NEW d \in Cpus, cpu'[d].at = "scan" PROVE ScanKnows(d)'
  <2>1. cpu'[d] = cpu[d] /\ cpu[d].at = "scan"
    BY <1>2 DEF Idle
  <2>2. \A p \in Procs : p = cpu[d].best => /\ proc'[p].vruntime = proc[p].vruntime
                                             /\ proc'[p].agent = proc[p].agent
    BY <2>1
  <2> QED BY <2>1, <2>2, ScanKept
<1> QED BY <1>1, <1>2 DEF ScanOK

(* Who waits goes on waiting as he is, and the turns of an agent do not fall;  *)
(* what is counted of a process may end with it.                               *)
LEMMA CountsKept ==
    ASSUME Inv, TypeOK',
           \A p \in Procs : Waits(p) => Waits(p)' /\ proc'[p].vruntime = proc[p].vruntime,
           \A q \in Procs : proc[q].agent /\ proc'[q].agent => Turns(q) <= Turns(q)',
           \A p, q \in Procs :
              \/ /\ UNCHANGED <<passed[p][q], restarts[p][q]>>
                 /\ proc[q].agent => proc'[q].agent
              \/ passed'[p][q] = 0 /\ restarts'[p][q] = 0
    PROVE  PassedOK' /\ BoundedOvertaking'
<1> USE DEF Inv
<1> SUFFICES ASSUME NEW p \in Procs, NEW q \in Procs
             PROVE  /\ ~ Waits(p)' => passed'[p][q] = 0 /\ restarts'[p][q] = 0
                    /\ ~ proc'[q].agent => passed'[p][q] = 0
                    /\ Waits(p)' /\ proc'[q].agent
                         => /\ passed'[p][q] <= restarts'[p][q] * (Most(p)' - 1) + Turns(q)'
                            /\ passed'[p][q] <= Most(p)' + restarts'[p][q] * (Most(p)' - 1)
  BY DEF PassedOK, BoundedOvertaking
<1>1. /\ Turns(q)' \in Nat /\ Most(p)' \in Nat
      /\ restarts'[p][q] * (Most(p)' - 1) \in Nat
  <2>1. /\ passed'[p][q] \in Nat /\ restarts'[p][q] \in Nat
        /\ proc'[p].vruntime \in Nat /\ proc'[q].vruntime \in Nat
    BY DEF TypeOK, ProcRecords
  <2>2. Turns(q)' \in Nat /\ Most(p)' \in Nat \ {0}
    BY <2>1, LeadType DEF Turns, Most
  <2> DEFINE m == Most(p)' - 1
             n == restarts'[p][q]
  <2>3. m \in Nat /\ n \in Nat
    BY <2>1, <2>2
  <2> HIDE DEF m, n
  <2>4. n * m \in Nat
    BY <2>3
  <2> QED BY <2>2, <2>4 DEF m, n
<1>2. CASE passed'[p][q] = 0
  <2>1. ~ Waits(p)' => restarts'[p][q] = 0
    <3>1. ~ Waits(p)' => ~ Waits(p)
      OBVIOUS
    <3> QED BY <3>1 DEF PassedOK
  <2> QED BY <1>1, <1>2, <2>1
<1>3. CASE passed'[p][q] # 0
  <2>1. /\ passed'[p][q] = passed[p][q] /\ restarts'[p][q] = restarts[p][q]
        /\ proc[q].agent => proc'[q].agent
    BY <1>3
  <2>2. Waits(p) /\ proc[q].agent
    BY <1>3, <2>1 DEF PassedOK
  <2>3. Waits(p)' /\ proc'[q].agent /\ Most(p)' = Most(p) /\ Turns(q) <= Turns(q)'
    BY <2>1, <2>2 DEF Most
  <2> DEFINE n == restarts[p][q] * (Most(p) - 1)
  <2>4. n = restarts'[p][q] * (Most(p)' - 1)
    BY <2>1, <2>3
  <2>5. passed[p][q] <= n + Turns(q) /\ passed[p][q] <= Most(p) + n
    BY <2>2 DEF PassedOK, BoundedOvertaking
  <2>6. n \in Nat /\ passed[p][q] \in Nat /\ Turns(q) \in Nat
    BY CountTypes
  <2> HIDE DEF n
  <2>7. passed[p][q] <= n + Turns(q)'
    BY <1>1, <2>3, <2>5, <2>6
  <2> QED BY <2>1, <2>2, <2>3, <2>4, <2>5, <2>7
<1> QED BY <1>2, <1>3

(* Both, of a step that counts nothing.                                        *)
LEMMA EntriesChange ==
    ASSUME Inv, TypeOK', UNCHANGED <<passed, restarts>>,
           \A d \in Cpus : cpu'[d] = cpu[d] \/ cpu'[d] = Idle,
           \A d \in Cpus : fresh[d] \subseteq fresh'[d],
           \A d \in Cpus, p \in Procs :
              cpu'[d] = cpu[d] /\ cpu[d].at # "idle" /\ p = cpu[d].best
                => proc'[p] = proc[p],
           \A p \in Procs : Waits(p) => proc'[p] = proc[p],
           \A p \in Procs : Waits(p)' => Waits(p) \/ \A d \in Cpus : p \in fresh'[d],
           \A p \in Procs :
              \/ proc'[p] = proc[p]
              \/ proc[p].agent => proc'[p].agent /\ Turns(p) <= Turns(p)',
           Freed'
    PROVE  Inv'
<1>1. \A p \in Procs : Waits(p) => Waits(p)' /\ proc'[p].vruntime = proc[p].vruntime
  BY DEF Waits
<1>2. \A p \in Procs : proc[p].agent => proc'[p].agent /\ Turns(p) <= Turns(p)'
  <2> SUFFICES ASSUME NEW p \in Procs, proc[p].agent
               PROVE  proc'[p].agent /\ Turns(p) <= Turns(p)'
    OBVIOUS
  <2>1. proc[p].vruntime \in Nat
    BY DEF Inv, TypeOK, ProcRecords
  <2>2. CASE proc'[p] = proc[p]
    BY <2>1, <2>2 DEF Turns
  <2> QED BY <2>2
<1>3. PassedOK' /\ BoundedOvertaking'
  BY <1>1, <1>2, CountsKept
<1>4. OnePlace' /\ ScanOK'
  BY <1>1, PlacesKept
<1> QED BY <1>3, <1>4 DEF Inv

(* The process that runs on a CPU is in no scan and on no other CPU.           *)
LEMMA Runs ==
    ASSUME Inv, NEW c \in Cpus, cpu[c].at = "run"
    PROVE  /\ cpu[c].best \in Procs /\ proc[cpu[c].best] \in ProcRecords
           /\ proc[cpu[c].best].state = "running" /\ cpu[c].now \in Nat
           /\ \A d \in Cpus : d # c /\ cpu[d].at # "idle" => cpu[d].best # cpu[c].best
<1>1. cpu[c].best # 0 /\ cpu[c].best \in {0} \cup Procs /\ cpu[c].now \in Nat
  BY DEF Inv, OnePlace, TypeOK
<1>2. proc[cpu[c].best] \in ProcRecords
  BY <1>1 DEF Inv, TypeOK
<1> QED BY <1>1, <1>2 DEF Inv, OnePlace

LEMMA YieldStep == ASSUME Inv, NEW c \in Cpus, Yield(c) PROVE Inv'
<1> DEFINE q == cpu[c].best
           e == [proc[q] EXCEPT !.state = "runnable"]
           r == Charged(e, cpu[c].now)
<1>1. TypeOK /\ q \in Procs /\ proc[q] \in ProcRecords /\ proc[q].state = "running"
      /\ cpu[c].now \in Nat
      /\ \A d \in Cpus : d # c /\ cpu[d].at # "idle" => cpu[d].best # q
  BY Runs DEF Yield, Inv
<1>2. e \in ProcRecords /\ e.state = "runnable" /\ e.agent = proc[q].agent
      /\ e.vruntime = proc[q].vruntime
  BY <1>1 DEF ProcRecords
<1>3. proc' = [proc EXCEPT ![q] = r] /\ cpu' = [cpu EXCEPT ![c] = Idle] /\ Ready(q)
      /\ UNCHANGED <<now, passed, restarts>>
  BY DEF Yield
<1> HIDE DEF e
<1>4. r \in ProcRecords /\ r.state = "runnable" /\ r.agent = proc[q].agent
      /\ r.vruntime = IF proc[q].agent THEN proc[q].vruntime + 1 ELSE proc[q].vruntime
  <2>1. e \in ProcRecords /\ cpu[c].now \in Nat
    BY <1>1, <1>2
  <2>2. /\ r \in ProcRecords /\ r.state = e.state /\ r.agent = e.agent
        /\ r.vruntime = IF e.agent THEN e.vruntime + 1 ELSE e.vruntime
    BY <2>1, ChargedType, Zenon
  <2> QED BY <1>2, <2>2
<1> HIDE DEF r
<1>5. /\ proc' \in [Procs -> ProcRecords]
      /\ \A p \in Procs : proc'[p] = IF p = q THEN r ELSE proc[p]
  BY <1>1, <1>3, <1>4, OneProc
<1>6. /\ cpu' \in [Cpus -> CpuRecords]
      /\ \A d \in Cpus : cpu'[d] = IF d = c THEN Idle ELSE cpu[d]
  BY <1>1, <1>3, IdleType, OneCpu
<1>7. /\ fresh' \in [Cpus -> SUBSET Procs]
      /\ \A d \in Cpus : fresh'[d] = fresh[d] \cup {q}
  BY <1>1, <1>3, ReadyTypes
<1>8. TypeOK'
  BY <1>1, <1>3, <1>5, <1>6, <1>7 DEF TypeOK, CpuRecords
<1>9. ASSUME NEW o \in Procs, o = q, proc[o].agent PROVE proc'[o].agent /\ Turns(o) <= Turns(o)'
  <2>1. proc[o].vruntime \in Nat /\ proc'[o] = r
    BY <1>1, <1>5, <1>9 DEF ProcRecords
  <2>2. r.agent /\ r.vruntime = proc[o].vruntime + 1
    BY <1>4, <1>9
  <2>3. Turns(o) = proc[o].vruntime + 1 /\ Turns(o)' = proc[o].vruntime + 1
    BY <1>1, <1>4, <1>9, <2>1, <2>2 DEF Turns
  <2> QED BY <2>1, <2>2, <2>3
<1>10. \A d \in Cpus, p \in Procs : cpu'[d] = cpu[d] /\ cpu[d].at # "idle" /\ p = cpu[d].best
         => proc'[p] = proc[p]
  BY <1>1, <1>5, <1>6 DEF Idle
<1>11. \A p \in Procs : /\ Waits(p) => proc'[p] = proc[p]
                        /\ Waits(p)' => Waits(p) \/ p = q
                        /\ proc'[p] = proc[p] \/ p = q
  BY <1>1, <1>5 DEF Waits
<1>12. Freed'
  BY <1>4, <1>5 DEF Inv, Freed
<1>13. \A p \in Procs : \/ proc'[p] = proc[p]
                        \/ proc[p].agent => proc'[p].agent /\ Turns(p) <= Turns(p)'
  BY <1>9, <1>11
<1>14. UNCHANGED <<passed, restarts>> /\ \A d \in Cpus : fresh[d] \subseteq fresh'[d]
  BY <1>3, <1>7
<1> QED BY <1>6, <1>7, <1>8, <1>10, <1>11, <1>12, <1>13, <1>14, EntriesChange

LEMMA SleepStep == ASSUME Inv, NEW c \in Cpus, Sleep(c) PROVE Inv'
<1> DEFINE q == cpu[c].best
           e == [proc[q] EXCEPT !.state = "sleeping"]
           r == Charged(e, cpu[c].now)
<1>1. TypeOK /\ q \in Procs /\ proc[q] \in ProcRecords /\ proc[q].state = "running"
      /\ cpu[c].now \in Nat
      /\ \A d \in Cpus : d # c /\ cpu[d].at # "idle" => cpu[d].best # q
  BY Runs DEF Sleep, Inv
<1>2. e \in ProcRecords /\ e.state = "sleeping" /\ e.agent = proc[q].agent
      /\ e.vruntime = proc[q].vruntime
  BY <1>1 DEF ProcRecords
<1>3. proc' = [proc EXCEPT ![q] = r] /\ cpu' = [cpu EXCEPT ![c] = Idle]
      /\ UNCHANGED <<now, fresh, passed, restarts>>
  BY DEF Sleep
<1> HIDE DEF e
<1>4. r \in ProcRecords /\ r.state = "sleeping" /\ r.agent = proc[q].agent
      /\ r.vruntime = IF proc[q].agent THEN proc[q].vruntime + 1 ELSE proc[q].vruntime
  <2>1. e \in ProcRecords /\ cpu[c].now \in Nat
    BY <1>1, <1>2
  <2>2. /\ r \in ProcRecords /\ r.state = e.state /\ r.agent = e.agent
        /\ r.vruntime = IF e.agent THEN e.vruntime + 1 ELSE e.vruntime
    BY <2>1, ChargedType, Zenon
  <2> QED BY <1>2, <2>2
<1> HIDE DEF r
<1>5. /\ proc' \in [Procs -> ProcRecords]
      /\ \A p \in Procs : proc'[p] = IF p = q THEN r ELSE proc[p]
  BY <1>1, <1>3, <1>4, OneProc
<1>6. /\ cpu' \in [Cpus -> CpuRecords]
      /\ \A d \in Cpus : cpu'[d] = IF d = c THEN Idle ELSE cpu[d]
  BY <1>1, <1>3, IdleType, OneCpu
<1>7. TypeOK'
  BY <1>1, <1>3, <1>5, <1>6 DEF TypeOK, CpuRecords
<1>8. ASSUME NEW o \in Procs, o = q, proc[o].agent PROVE proc'[o].agent /\ Turns(o) <= Turns(o)'
  <2>1. proc[o].vruntime \in Nat /\ proc'[o] = r
    BY <1>1, <1>5, <1>8 DEF ProcRecords
  <2>2. r.agent /\ r.vruntime = proc[o].vruntime + 1
    BY <1>4, <1>8
  <2>3. Turns(o) = proc[o].vruntime + 1 /\ Turns(o)' = proc[o].vruntime + 1
    BY <1>1, <1>4, <1>8, <2>1, <2>2 DEF Turns
  <2> QED BY <2>1, <2>2, <2>3
<1>9. \A d \in Cpus, p \in Procs : cpu'[d] = cpu[d] /\ cpu[d].at # "idle" /\ p = cpu[d].best
         => proc'[p] = proc[p]
  BY <1>1, <1>5, <1>6 DEF Idle
<1>10. \A p \in Procs : /\ Waits(p) => proc'[p] = proc[p]
                        /\ Waits(p)' => Waits(p)
                        /\ proc'[p] = proc[p] \/ p = q
  BY <1>1, <1>4, <1>5 DEF Waits
<1>11. Freed'
  BY <1>4, <1>5 DEF Inv, Freed
<1>12. \A p \in Procs : \/ proc'[p] = proc[p]
                        \/ proc[p].agent => proc'[p].agent /\ Turns(p) <= Turns(p)'
  BY <1>8, <1>10
<1> QED BY <1>3, <1>6, <1>7, <1>9, <1>10, <1>11, <1>12, EntriesChange

LEMMA ExitStep == ASSUME Inv, NEW c \in Cpus, Exit(c) PROVE Inv'
<1> DEFINE q == cpu[c].best
<1>1. TypeOK /\ q \in Procs /\ proc[q].state = "running"
      /\ \A d \in Cpus : d # c /\ cpu[d].at # "idle" => cpu[d].best # q
  BY Runs DEF Exit, Inv
<1>2. /\ proc' = [proc EXCEPT ![q] = Unused] /\ cpu' = [cpu EXCEPT ![c] = Idle]
      /\ passed' = [p \in Procs |-> [passed[p] EXCEPT ![q] = 0]]
      /\ restarts' = [p \in Procs |-> [restarts[p] EXCEPT ![q] = 0]]
      /\ UNCHANGED <<now, fresh>> /\ cpu[c].at = "run"
  BY DEF Exit
<1>3. /\ proc' \in [Procs -> ProcRecords]
      /\ \A p \in Procs : proc'[p] = IF p = q THEN Unused ELSE proc[p]
  BY <1>1, <1>2, UnusedType, OneProc
<1>4. /\ cpu' \in [Cpus -> CpuRecords]
      /\ \A d \in Cpus : cpu'[d] = IF d = c THEN Idle ELSE cpu[d]
  BY <1>1, <1>2, IdleType, OneCpu
<1>5. /\ passed' \in [Procs -> [Procs -> Nat]] /\ restarts' \in [Procs -> [Procs -> Nat]]
      /\ \A p, o \in Procs :
           /\ passed'[p][o] = IF o = q THEN 0 ELSE passed[p][o]
           /\ restarts'[p][o] = IF o = q THEN 0 ELSE restarts[p][o]
  <2>1. passed \in [Procs -> [Procs -> Nat]] /\ restarts \in [Procs -> [Procs -> Nat]]
    BY <1>1 DEF TypeOK
  <2>2. \A p \in Procs : /\ [passed[p] EXCEPT ![q] = 0] \in [Procs -> Nat]
                         /\ [restarts[p] EXCEPT ![q] = 0] \in [Procs -> Nat]
    BY <2>1
  <2> QED BY <1>1, <1>2, <2>1, <2>2
<1>6. TypeOK'
  BY <1>1, <1>2, <1>3, <1>4, <1>5 DEF TypeOK, CpuRecords
<1>7. ~ Unused.agent /\ Unused.state = "unused"
  BY DEF Unused
<1>8. \A p \in Procs : /\ Waits(p) => Waits(p)' /\ proc'[p].vruntime = proc[p].vruntime
                       /\ Waits(p)' => Waits(p) /\ proc'[p].vruntime = proc[p].vruntime
  BY <1>1, <1>3, <1>7 DEF Waits
<1>9. \A d \in Cpus, p \in Procs : cpu'[d] = cpu[d] /\ cpu[d].at # "idle" /\ p = cpu[d].best
         => proc'[p] = proc[p]
  BY <1>1, <1>2, <1>3, <1>4 DEF Idle
<1>10. Freed'
  BY <1>3, <1>7 DEF Inv, Freed
<1>11. OnePlace' /\ ScanOK'
  BY <1>2, <1>4, <1>8, <1>9, PlacesKept
<1>12. ASSUME NEW o \in Procs, proc[o].agent, proc'[o].agent PROVE Turns(o) <= Turns(o)'
  <2>1. proc[o].vruntime \in Nat /\ proc'[o] = proc[o]
    BY <1>1, <1>3, <1>7, <1>12 DEF TypeOK, ProcRecords
  <2> QED BY <2>1 DEF Turns
<1>13. ASSUME NEW p \in Procs, NEW o \in Procs
       PROVE  \/ /\ UNCHANGED <<passed[p][o], restarts[p][o]>>
                 /\ proc[o].agent => proc'[o].agent
              \/ passed'[p][o] = 0 /\ restarts'[p][o] = 0
  BY <1>3, <1>5
<1>14. PassedOK' /\ BoundedOvertaking'
  BY <1>6, <1>8, <1>12, <1>13, CountsKept
<1> QED BY <1>6, <1>10, <1>11, <1>14 DEF Inv

(* A process is woken: it is neither running nor anyone's choice.              *)
LEMMA Woken ==
    ASSUME Inv, NEW p \in Procs, NEW r \in ProcRecords, proc[p].state = "sleeping",
           proc' = [proc EXCEPT ![p] = r], r.state = "runnable",
           r.vruntime = proc[p].vruntime, r.agent = proc[p].agent,
           Ready(p), UNCHANGED <<cpu, now, passed, restarts>>
    PROVE  Inv'
<1>1. TypeOK
  BY DEF Inv
<1>2. /\ proc' \in [Procs -> ProcRecords]
      /\ \A q \in Procs : proc'[q] = IF q = p THEN r ELSE proc[q]
  BY <1>1, OneProc
<1>3. /\ fresh' \in [Cpus -> SUBSET Procs]
      /\ \A d \in Cpus : fresh'[d] = fresh[d] \cup {p}
  BY <1>1, ReadyTypes
<1>4. TypeOK'
  BY <1>1, <1>2, <1>3 DEF TypeOK
<1>5. proc'[p].agent = proc[p].agent /\ Turns(p) <= Turns(p)'
  <2>1. proc[p].vruntime \in Nat
    BY <1>1 DEF TypeOK, ProcRecords
  <2> QED BY <1>2, <2>1 DEF Turns
<1>6. \A d \in Cpus, q \in Procs : cpu[d].at # "idle" /\ q = cpu[d].best
         => proc'[q] = proc[q]
  <2> SUFFICES ASSUME NEW d \in Cpus, cpu[d].at # "idle", cpu[d].best \in Procs
               PROVE  proc'[cpu[d].best] = proc[cpu[d].best]
    OBVIOUS
  <2>1. cpu[d].best # 0
    BY SchedulerAssumption DEF Procs
  <2>2. proc[cpu[d].best].state \in {"running", "runnable"}
    BY <2>1 DEF Inv, OnePlace
  <2> QED BY <1>2, <2>2
<1>7. \A q \in Procs : /\ Waits(q) => proc'[q] = proc[q]
                       /\ Waits(q)' => Waits(q) \/ q = p
                       /\ proc'[q] = proc[q] \/ q = p
  BY <1>2 DEF Waits
<1>8. Freed'
  BY <1>2 DEF Inv, Freed
<1> QED BY <1>3, <1>4, <1>5, <1>6, <1>7, <1>8, EntriesChange

LEMMA WakeupStep == ASSUME Inv, NEW p \in Procs, Wakeup(p) PROVE Inv'
<1> DEFINE r == [proc[p] EXCEPT !.state = "runnable"]
<1>1. proc[p] \in ProcRecords
  BY DEF Inv, TypeOK
<1>2. r \in ProcRecords /\ r.state = "runnable" /\ r.vruntime = proc[p].vruntime
      /\ r.agent = proc[p].agent
  BY <1>1 DEF ProcRecords
<1>3. proc[p].state = "sleeping" /\ proc' = [proc EXCEPT ![p] = r] /\ Ready(p)
      /\ UNCHANGED <<cpu, now, passed, restarts>>
  BY DEF Wakeup
<1> HIDE DEF r
<1> QED BY <1>2, <1>3, Woken

LEMMA SignalEventStep ==
    ASSUME Inv, NEW p \in Procs, NEW sleepsForIt \in BOOLEAN, SignalEvent(p, sleepsForIt)
    PROVE  Inv'
<1> DEFINE b == IF proc[p].boost < BoostMax THEN BoostMax ELSE proc[p].boost
           s == IF sleepsForIt THEN "runnable" ELSE proc[p].state
           r == [proc[p] EXCEPT !.boost = b, !.state = s]
<1>1. proc[p] \in ProcRecords /\ proc \in [Procs -> ProcRecords]
  BY DEF Inv, TypeOK
<1>2. b \in 0 .. BoostMax /\ s \in {"unused", "runnable", "running", "sleeping"}
  BY <1>1, SchedulerAssumption DEF ProcRecords
<1>3. proc' = [proc EXCEPT ![p] = r] /\ UNCHANGED <<cpu, now, passed, restarts>>
  BY <1>1 DEF SignalEvent
<1>4. sleepsForIt => proc[p].state = "sleeping" /\ Ready(p) /\ s = "runnable"
  BY DEF SignalEvent
<1>5. ~ sleepsForIt => UNCHANGED fresh /\ s = proc[p].state
  BY DEF SignalEvent
<1> HIDE DEF b, s
<1>6. r \in ProcRecords /\ r.state = s /\ r.vruntime = proc[p].vruntime
      /\ r.agent = proc[p].agent
  BY <1>1, <1>2 DEF ProcRecords
<1> HIDE DEF r
<1>7. CASE sleepsForIt
  BY <1>3, <1>4, <1>6, <1>7, Woken
<1>8. CASE ~ sleepsForIt
  <2>1. /\ proc' \in [Procs -> ProcRecords]
        /\ \A q \in Procs : proc'[q] = IF q = p THEN r ELSE proc[q]
    BY <1>3, <1>6, OneProc DEF Inv
  <2>2. TypeOK'
    BY <1>3, <1>5, <1>8, <2>1 DEF Inv, TypeOK
  <2> QED BY <1>3, <1>5, <1>6, <1>8, <2>1, <2>2, EntriesOnly
<1> QED BY <1>7, <1>8

(* A step that changes the entry of a process but not its place, its turns or  *)
(* whether it is an agent.                                                     *)
LEMMA OneEntry ==
    ASSUME Inv, NEW p \in Procs, NEW r \in ProcRecords, proc' = [proc EXCEPT ![p] = r],
           r.state = proc[p].state, r.vruntime = proc[p].vruntime, r.agent = proc[p].agent,
           UNCHANGED <<cpu, now, fresh, passed, restarts>>
    PROVE  Inv'
<1>1. /\ proc' \in [Procs -> ProcRecords]
      /\ \A q \in Procs : proc'[q] = IF q = p THEN r ELSE proc[q]
  BY OneProc DEF Inv
<1>2. TypeOK'
  BY <1>1 DEF Inv, TypeOK
<1> QED BY <1>1, <1>2, EntriesOnly

LEMMA SchedSetStep ==
    ASSUME Inv, NEW c \in Cpus, NEW priority \in 0 .. MaxPriority, NEW quota \in Quotas,
           SchedSet(c, priority, quota)
    PROVE  Inv'
<1> DEFINE q == cpu[c].best
           b == IF proc[q].budget > quota \/ proc[q].budget <= 0 THEN quota ELSE proc[q].budget
           r == [proc[q] EXCEPT !.priority = priority, !.quota = quota, !.budget = b,
                                !.refill = now + Interval]
<1>1. q \in Procs /\ proc[q] \in ProcRecords
  BY Runs DEF SchedSet
<1>2. b \in Nat /\ quota \in Nat /\ now + Interval \in Nat /\ proc \in [Procs -> ProcRecords]
  BY <1>1, SchedulerAssumption DEF ProcRecords, Inv, TypeOK
<1>3. proc' = [proc EXCEPT ![q] = r] /\ UNCHANGED <<cpu, now, fresh, passed, restarts>>
  BY <1>1, <1>2 DEF SchedSet
<1> HIDE DEF b
<1>4. r \in ProcRecords /\ r.state = proc[q].state /\ r.vruntime = proc[q].vruntime
      /\ r.agent = proc[q].agent
  BY <1>1, <1>2 DEF ProcRecords
<1> HIDE DEF r
<1> QED BY <1>1, <1>3, <1>4, OneEntry

LEMMA ReplenishStep == ASSUME Inv, NEW p \in Procs, Replenish(p) PROVE Inv'
<1> DEFINE r == [proc[p] EXCEPT !.budget = proc[p].quota, !.refill = now + Interval]
<1>1. proc[p] \in ProcRecords /\ now + Interval \in Nat /\ proc \in [Procs -> ProcRecords]
  BY SchedulerAssumption DEF Inv, TypeOK
<1>2. r \in ProcRecords /\ r.state = proc[p].state /\ r.vruntime = proc[p].vruntime
      /\ r.agent = proc[p].agent
  BY <1>1 DEF ProcRecords
<1>3. proc' = [proc EXCEPT ![p] = r] /\ UNCHANGED <<cpu, now, fresh, passed, restarts>>
  BY <1>1 DEF Replenish
<1> HIDE DEF r
<1> QED BY <1>2, <1>3, OneEntry

LEMMA TickStep == Inv /\ Tick => Inv'
<1> SUFFICES ASSUME Inv, Tick PROVE Inv'
  OBVIOUS
<1>1. UNCHANGED <<proc, cpu, fresh, passed, restarts>> /\ now' \in Nat
  BY DEF Tick, Inv, TypeOK
<1>2. TypeOK'
  BY <1>1 DEF Inv, TypeOK
<1> QED BY <1>1, <1>2, EntriesOnly
----------------------------------------------------------------------------
(* New processes, and new agents or agents that start anew.                    *)
LEMMA ForkStep ==
    ASSUME Inv, NEW c \in Cpus, NEW p \in Procs, Fork(c, p)
    PROVE  Inv'
<1> DEFINE q == cpu[c].best
           r == [Unused EXCEPT !.state = "runnable", !.agent = proc[q].agent,
                               !.priority = proc[q].priority, !.quota = proc[q].quota]
<1>1. TypeOK /\ q \in Procs /\ proc[q] \in ProcRecords
  BY Runs DEF Fork, Inv
<1>2. r \in ProcRecords /\ r.state = "runnable"
  BY <1>1, UnusedType DEF ProcRecords, Unused
<1>3. /\ proc[p].state = "unused" /\ proc' = [proc EXCEPT ![p] = r] /\ Ready(p)
      /\ UNCHANGED <<cpu, now, passed, restarts>>
  BY DEF Fork
<1> HIDE DEF r
<1>4. /\ proc' \in [Procs -> ProcRecords]
      /\ \A o \in Procs : proc'[o] = IF o = p THEN r ELSE proc[o]
  BY <1>1, <1>2, <1>3, OneProc
<1>5. /\ fresh' \in [Cpus -> SUBSET Procs]
      /\ \A d \in Cpus : fresh'[d] = fresh[d] \cup {p}
  BY <1>1, <1>3, ReadyTypes
<1>6. TypeOK'
  BY <1>1, <1>3, <1>4, <1>5 DEF TypeOK
<1>7. ~ proc[p].agent
  BY <1>3 DEF Inv, Freed
<1>8. \A d \in Cpus, o \in Procs : cpu[d].at # "idle" /\ o = cpu[d].best
         => proc'[o] = proc[o]
  <2> SUFFICES ASSUME NEW d \in Cpus, cpu[d].at # "idle", cpu[d].best \in Procs
               PROVE  proc'[cpu[d].best] = proc[cpu[d].best]
    OBVIOUS
  <2>1. cpu[d].best # 0
    BY SchedulerAssumption DEF Procs
  <2>2. proc[cpu[d].best].state \in {"running", "runnable"}
    BY <2>1 DEF Inv, OnePlace
  <2> QED BY <1>3, <1>4, <2>2
<1>9. \A o \in Procs : /\ Waits(o) => proc'[o] = proc[o]
                       /\ Waits(o)' => Waits(o) \/ o = p
                       /\ proc'[o] = proc[o] \/ o = p
  BY <1>3, <1>4 DEF Waits
<1>10. Freed'
  BY <1>2, <1>4 DEF Inv, Freed
<1> QED BY <1>3, <1>5, <1>6, <1>7, <1>8, <1>9, <1>10, EntriesChange

LEMMA CreateStep ==
    ASSUME Inv, NEW c \in Cpus, NEW priority \in 0 .. MaxPriority, NEW quota \in Quotas,
           Create(c, priority, quota)
    PROVE  Inv'
<1> DEFINE q == cpu[c].best
           t == IF quota > 0 THEN now + Interval ELSE 0
           r == [Unused EXCEPT !.state = "running", !.agent = TRUE, !.priority = priority,
                               !.quota = quota, !.budget = quota, !.refill = t]
           A(p) == Waits(p) /\ proc[q].agent
<1>1. TypeOK /\ q \in Procs /\ proc[q] \in ProcRecords /\ proc[q].state = "running"
      /\ cpu[c].at = "run"
      /\ \A d \in Cpus : d # c /\ cpu[d].at # "idle" => cpu[d].best # q
  BY Runs DEF Create, Inv
<1>2. r \in ProcRecords /\ r.state = "running" /\ r.agent /\ r.vruntime = 0
  <2>1. quota \in Nat /\ t \in Nat
    BY <1>1, SchedulerAssumption DEF TypeOK
  <2> QED BY <2>1, UnusedType DEF ProcRecords, Unused
<1>3. /\ proc' = [proc EXCEPT ![q] = r]
      /\ restarts' = [p \in Procs |->
                        IF A(p) THEN [restarts[p] EXCEPT ![q] = restarts[p][q] + 1]
                        ELSE restarts[p]]
      /\ UNCHANGED <<cpu, now, fresh, passed>>
  BY DEF Create
<1> HIDE DEF r, A
<1>4. /\ proc' \in [Procs -> ProcRecords]
      /\ \A o \in Procs : proc'[o] = IF o = q THEN r ELSE proc[o]
  BY <1>1, <1>2, <1>3, OneProc
<1>5. /\ restarts' \in [Procs -> [Procs -> Nat]]
      /\ \A p, o \in Procs : restarts'[p][o] = IF A(p) /\ o = q THEN restarts[p][o] + 1
                                               ELSE restarts[p][o]
  <2>1. restarts \in [Procs -> [Procs -> Nat]]
    BY <1>1 DEF TypeOK
  <2>2. \A p \in Procs : restarts[p][q] + 1 \in Nat
    BY <1>1, <2>1
  <2>3. \A p \in Procs : [restarts[p] EXCEPT ![q] = restarts[p][q] + 1] \in [Procs -> Nat]
    BY <2>1, <2>2
  <2> QED BY <1>1, <1>3, <2>1, <2>3
<1>6. TypeOK'
  BY <1>1, <1>3, <1>4, <1>5 DEF TypeOK
<1>7. \A d \in Cpus, o \in Procs : cpu[d].at # "idle" /\ o = cpu[d].best
         => /\ proc'[o].state = proc[o].state
            /\ cpu[d].at = "scan" => proc'[o] = proc[o]
  BY <1>1, <1>2, <1>4
<1>8. \A o \in Procs : /\ Waits(o)' => Waits(o) /\ proc'[o] = proc[o]
                       /\ Waits(o) => Waits(o)'
  BY <1>1, <1>2, <1>4 DEF Waits
<1>9. OnePlace' /\ ScanOK'
  BY <1>3, <1>7, <1>8, PlacesKept
<1>10. Freed'
  BY <1>2, <1>4 DEF Inv, Freed
<1>11. ASSUME NEW p \in Procs, NEW o \in Procs, Waits(p)', proc'[o].agent
       PROVE  /\ passed'[p][o] <= restarts'[p][o] * (Most(p)' - 1) + Turns(o)'
              /\ passed'[p][o] <= Most(p)' + restarts'[p][o] * (Most(p)' - 1)
  <2>1. Waits(p) /\ Most(p)' = Most(p) /\ passed'[p][o] = passed[p][o]
    BY <1>3, <1>8, <1>11 DEF Most
  <2> DEFINE n == restarts[p][o] * (Most(p) - 1)
             m == (restarts[p][o] + 1) * (Most(p) - 1)
  <2>2. /\ n \in Nat /\ Most(p) \in Nat \ {0} /\ passed[p][o] \in Nat /\ Turns(o) \in Nat
        /\ m = n + Most(p) - 1
    BY <1>1, CountTypes DEF Inv
  <2>3. proc[o].agent => passed[p][o] <= n + Turns(o) /\ passed[p][o] <= Most(p) + n
    BY <2>1 DEF Inv, PassedOK, BoundedOvertaking
  <2>4. ~ proc[o].agent => passed[p][o] = 0
    BY DEF Inv, PassedOK
  <2>5. CASE A(p) /\ o = q
    <3>1. proc[o].agent /\ restarts'[p][o] = restarts[p][o] + 1
      BY <1>5, <2>5 DEF A
    <3>2. Turns(o)' = 1
      BY <1>2, <1>4, <2>5 DEF Turns
    <3>3. restarts'[p][o] * (Most(p)' - 1) = m
      BY <2>1, <3>1
    <3> HIDE DEF n, m
    <3>4. passed[p][o] <= m + 1 /\ passed[p][o] <= Most(p) + m
      BY <2>2, <2>3, <3>1
    <3> QED BY <2>1, <3>2, <3>3, <3>4
  <2>6. CASE ~ (A(p) /\ o = q)
    <3>1. restarts'[p][o] * (Most(p)' - 1) = n
      BY <1>5, <2>1, <2>6
    <3>2. Turns(o)' \in Nat /\ (proc[o].agent => Turns(o) <= Turns(o)')
      <4>1. proc[o].vruntime \in Nat /\ (o # q \/ ~ proc[o].agent)
        BY <1>1, <2>1, <2>6 DEF A, TypeOK, ProcRecords
      <4> QED BY <1>2, <1>4, <4>1 DEF Turns
    <3> HIDE DEF n, m
    <3>3. passed[p][o] <= n + Turns(o)' /\ passed[p][o] <= Most(p) + n
      BY <2>2, <2>3, <2>4, <3>2
    <3> QED BY <2>1, <3>1, <3>3
  <2> QED BY <2>5, <2>6
<1>12. PassedOK' /\ BoundedOvertaking'
  <2>1. \A p, o \in Procs : ~ Waits(p)' => passed'[p][o] = 0 /\ restarts'[p][o] = 0
    BY <1>3, <1>5, <1>8 DEF Inv, PassedOK, A
  <2>2. \A p, o \in Procs : ~ proc'[o].agent => passed'[p][o] = 0
    BY <1>2, <1>3, <1>4 DEF Inv, PassedOK
  <2>3. PassedOK'
    BY <1>11, <2>1, <2>2 DEF PassedOK
  <2>4. BoundedOvertaking'
    BY <1>11 DEF BoundedOvertaking
  <2> QED BY <2>3, <2>4
<1> QED BY <1>6, <1>9, <1>10, <1>12 DEF Inv
----------------------------------------------------------------------------
LEMMA Step == Inv /\ [Next]_vars => Inv'
<1> SUFFICES ASSUME Inv, [Next]_vars PROVE Inv'
  OBVIOUS
<1>1. ASSUME NEW c \in Cpus, CpuStep(c) PROVE Inv'
  BY <1>1, ScanBeginStep, SkipStep, CompareStep, NobodyStep, DispatchStep, YieldStep,
     SleepStep, ExitStep, ForkStep, CreateStep, SchedSetStep DEF CpuStep
<1>2. ASSUME NEW p \in Procs, ProcStep(p) PROVE Inv'
  BY <1>2, WakeupStep, ReplenishStep, SignalEventStep DEF ProcStep
<1>3. CASE UNCHANGED vars
  <2>1. UNCHANGED <<proc, cpu, now, fresh, passed, restarts>>
    BY <1>3 DEF vars
  <2>2. TypeOK'
    BY <2>1 DEF Inv, TypeOK
  <2> QED BY <2>1, <2>2, EntriesOnly
<1> QED BY <1>1, <1>2, <1>3, TickStep DEF Next

LEMMA InitInv == Init => Inv
<1> SUFFICES ASSUME Init PROVE Inv
  OBVIOUS
<1>1. TypeOK
  BY InitTypes
<1>2. OnePlace /\ ScanOK
  BY DEF Init, Idle, OnePlace, ScanOK
<1>3. \A p, q \in Procs : ~ proc[q].agent
  BY DEF Init, Unused
<1>4. \A p, q \in Procs : passed[p][q] = 0 /\ restarts[p][q] = 0
  BY DEF Init, Never
<1> QED BY <1>1, <1>2, <1>3, <1>4 DEF Inv, Freed, PassedOK, BoundedOvertaking

(* Whatever the weights and the numbers of processes and CPUs: while a process *)
(* waits, an agent is run in its place at most as often as the process's own   *)
(* turns and a constant of the weights allow, and once more nearly so often    *)
(* for each agent_create of the agent, which starts its vruntime anew          *)
(* (scheduler, agent_schedule_score, agent_mark_current).                      *)
THEOREM OvertakingIsBounded == Spec => []BoundedOvertaking
<1>1. Inv => BoundedOvertaking
  BY DEF Inv
<1> QED BY <1>1, InitInv, Step, PTL DEF Spec

(* No process runs on two CPUs or is chosen by two scans, and the choice of a  *)
(* scan stays RUNNABLE (scheduler keeps best->lock).                           *)
THEOREM EachHasOnePlace == Spec => []OnePlace
<1>1. Inv => OnePlace
  BY DEF Inv
<1> QED BY <1>1, InitInv, Step, PTL DEF Spec

(* The table's fields stay in their ranges: no budget and no boost falls below *)
(* zero (scheduler, agent_proc_sched_set, agent_replenish_budgets).            *)
THEOREM SchedulerTypes == Spec => []TypeOK
<1>1. Inv => TypeOK
  BY DEF Inv
<1> QED BY <1>1, InitInv, Step, PTL DEF Spec

----------------------------------------------------------------------------
LEMMA MinNat ==
    ASSUME NEW T \in SUBSET Nat, T # {}
    PROVE  \E x \in T : \A y \in T : x <= y
<1> DEFINE R == {ss \in Nat \X Nat : ss[1] < ss[2]}
<1>1. IsWellFoundedOn(R, Nat)
  <2>1. R = OpToRel(<, Nat)
    BY ZenonT(20) DEF OpToRel
  <2> QED
    BY <2>1, NatLessThanWellFounded, ZenonT(20)
<1>2. PICK x \in T : \A y \in T : ~ (<<y, x>> \in R)
  BY <1>1, WFMin
<1>3. ASSUME NEW m \in Nat, NEW n \in Nat, n < m
      PROVE  <<n, m>> \in R
  <2>1. <<n, m>>[1] = n /\ <<n, m>>[2] = m
    OBVIOUS
  <2>2. <<n, m>> \in Nat \X Nat
    OBVIOUS
  <2> QED
    BY <2>1, <2>2, <1>3
<1>4. \A y \in T : ~ (y < x)
  <2> HIDE DEF R
  <2> QED
    BY <1>2, <1>3
<1> QED
  <2>1. \A y \in T : x \in Int /\ y \in Int
    OBVIOUS
  <2> QED
    BY <2>1, <1>4

\* What each part of a sequence of sequences has, and what joining keeps, the
\* whole has.
LEMMA FlattenIn ==
    ASSUME NEW S, NEW n \in Nat, NEW f \in [1..n -> S], <<>> \in S,
           \A a, b \in S : a \o b \in S
    PROVE  FlattenSeq(f) \in S
<1> DEFINE F(h, m) == [i \in 1..m |-> IF i = 1 THEN f[i] ELSE h[i - 1] \o f[i]]
<1>1. f \in Seq(S) /\ Len(f) = n
  OBVIOUS
<1>2. CASE n = 0
  <2>1. f = <<>> /\ FlattenSeq(f) = f
    BY <1>1, <1>2 DEF FlattenSeq
  <2> QED
    BY <2>1
<1>3. CASE n # 0
  <2>1. FlattenSeq(f) = (CHOOSE h : h = F(h, n))[n]
    BY <1>1, <1>3 DEF FlattenSeq
  <2>2. \A m \in 0..n : \E h : h = F(h, m)
    <3> DEFINE T == {m \in 0..n : ~ \E h : h = F(h, m)}
    <3> SUFFICES ASSUME T # {} PROVE FALSE
      BY Zenon
    <3>1. T \in SUBSET Nat
      <4>1. 0..n \subseteq Nat
        OBVIOUS
      <4> QED
        BY <4>1, Zenon
    <3> HIDE DEF T
    <3>2. PICK m \in T : \A k \in T : m <= k
      BY <3>1, MinNat
    <3>3. m \in 0..n /\ ~ \E h : h = F(h, m)
      BY <3>2, Zenon DEF T
    <3>4. m # 0
      <4> SUFFICES ASSUME m = 0 PROVE FALSE
        OBVIOUS
      <4> DEFINE h == [i \in 1..0 |-> 0]
      <4>1. h = F(h, 0)
        OBVIOUS
      <4> HIDE DEF h
      <4> QED
        BY <3>3, <4>1, Zenon
    <3>5. m - 1 \in 0..n /\ m - 1 \notin T
      <4>1. m \in Nat /\ m - 1 \in 0..n /\ ~(m <= m - 1)
        BY <3>3, <3>4
      <4> QED
        BY <3>2, <4>1
    <3>6. PICK h : h = F(h, m - 1)
      BY <3>5, Zenon DEF T
    <3> DEFINE g == [i \in 1..m |-> IF i = m THEN IF m = 1 THEN f[m] ELSE h[m - 1] \o f[m]
                                   ELSE h[i]]
    <3>7. g = F(g, m)
      <4>1. ASSUME NEW i \in 1..m
            PROVE  g[i] = IF i = 1 THEN f[i] ELSE g[i - 1] \o f[i]
        <5>0. i \in Int /\ m \in Int /\ (i # 1 => i - 1 \in 1..m /\ i - 1 # m)
          BY <3>3
        <5>1. CASE i = m
          BY <5>0, <5>1
        <5>2. CASE i # m
          <6>1. i \in 1..(m - 1)
            BY <5>0, <5>2
          <6>2. h[i] = IF i = 1 THEN f[i] ELSE h[i - 1] \o f[i]
            BY <3>6, <6>1
          <6> QED
            BY <5>0, <5>2, <6>2
        <5> QED
          BY <5>1, <5>2
      <4>2. g = [i \in 1..m |-> g[i]]
        OBVIOUS
      <4> HIDE DEF g
      <4> QED
        BY <4>1, <4>2
    <3> HIDE DEF g
    <3> QED
      BY <3>3, <3>7, Zenon
  <2>3. PICK h : h = F(h, n) /\ FlattenSeq(f) = h[n]
    <3>1. n \in 0..n
      OBVIOUS
    <3> HIDE DEF F
    <3> QED
      BY <2>1, <2>2, <3>1, Zenon
  <2>4. \A i \in 1..n : h[i] \in S
    <3> DEFINE T == {i \in 1..n : h[i] \notin S}
    <3> SUFFICES ASSUME T # {} PROVE FALSE
      BY Zenon
    <3>1. T \in SUBSET Nat
      OBVIOUS
    <3> HIDE DEF T
    <3>2. PICK i \in T : \A k \in T : i <= k
      BY <3>1, MinNat
    <3>3. i \in 1..n /\ h[i] \notin S
      BY <3>2, Zenon DEF T
    <3>4. h[i] = IF i = 1 THEN f[i] ELSE h[i - 1] \o f[i]
      BY <2>3, <3>3
    <3>5. i # 1 /\ i - 1 \in 1..n /\ ~(i <= i - 1)
      BY <3>3, <3>4
    <3>6. h[i - 1] \in S
      BY <3>2, <3>5 DEF T
    <3>7. f[i] \in S
      BY <3>3
    <3> QED
      BY <3>3, <3>4, <3>5, <3>6, <3>7
  <2> QED
    BY <1>3, <2>3, <2>4
<1> QED
  BY <1>2, <1>3

----------------------------------------------------------------------------
Entries == [op : {"acquire", "release", "sched"}, lock : Locks]

\* The order of the locks: tickslock, agent_runtime_lock and wait_lock, then
\* the processes as they are in the table, then agent_global.lock.
Rank(l) == IF l[1] = "proc" THEN l[2] ELSE IF l[1] = "global" THEN NPROC + 1 ELSE 0

\* s releases l.
Frees(s, l) == \E k \in 1..Len(s) : s[k].op # "acquire" /\ s[k].lock = l

\* A lock that is held when s begins is behind all that s takes before it
\* releases it.
Under(s, l) ==
    \A i \in 1..Len(s) : s[i].op = "acquire" =>
        \/ Rank(l) < Rank(s[i].lock)
        \/ \E k \in 1..(i - 1) : s[k].op # "acquire" /\ s[k].lock = l

\* So it is with every lock that s takes; and s releases them all.
Orderly(s) ==
    \A j \in 1..Len(s) : s[j].op = "acquire" =>
        /\ \E k \in (j + 1)..Len(s) : s[k].op # "acquire" /\ s[k].lock = s[j].lock
        /\ \A i \in (j + 1)..Len(s) : s[i].op = "acquire" =>
              \/ Rank(s[j].lock) < Rank(s[i].lock)
              \/ \E k \in (j + 1)..(i - 1) : s[k].op # "acquire" /\ s[k].lock = s[j].lock

\* s takes only locks above a rank.
Above(s, r) == \A i \in 1..Len(s) : s[i].op = "acquire" => r < Rank(s[i].lock)

OrderlySeqs == {s \in Seq(Entries) : Orderly(s)}
OrderlyAbove == {s \in OrderlySeqs : Above(s, 0)}

LEMMA LocksAre ==
    /\ \A p \in ProcIds : P(p) \in Locks /\ Rank(P(p)) = p
    /\ Ticks \in Locks /\ Rank(Ticks) = 0
    /\ WaitLock \in Locks /\ Rank(WaitLock) = 0
    /\ Runtime \in Locks /\ Rank(Runtime) = 0
    /\ Global \in Locks /\ Rank(Global) = NPROC + 1
    /\ \A l \in Locks : Rank(l) \in 0..(NPROC + 1)
BY LocksAssumption DEF Locks, P, Ticks, WaitLock, Runtime, Global, Rank, ProcIds

LEMMA JoinOrderly ==
    ASSUME NEW s \in Seq(Entries), NEW t \in Seq(Entries), Orderly(s), Orderly(t)
    PROVE  Orderly(s \o t)
<1> DEFINE u == s \o t
<1>1. /\ Len(s) \in Nat /\ Len(t) \in Nat /\ Len(u) = Len(s) + Len(t)
      /\ \A i \in 1..Len(s) : u[i] = s[i] /\ i \in 1..Len(u)
      /\ \A i \in 1..Len(u) : ~(i <= Len(s)) => i - Len(s) \in 1..Len(t) /\ u[i] = t[i - Len(s)]
      /\ \A i \in 1..Len(t) : u[i + Len(s)] = t[i] /\ i + Len(s) \in 1..Len(u)
  OBVIOUS
<1> HIDE DEF u
<1> SUFFICES ASSUME NEW j \in 1..Len(u), u[j].op = "acquire"
             PROVE  /\ \E k \in (j + 1)..Len(u) : u[k].op # "acquire" /\ u[k].lock = u[j].lock
                    /\ \A i \in (j + 1)..Len(u) : u[i].op = "acquire" =>
                         \/ Rank(u[j].lock) < Rank(u[i].lock)
                         \/ \E k \in (j + 1)..(i - 1) : u[k].op # "acquire" /\ u[k].lock = u[j].lock
  BY DEF Orderly, u
<1>2. CASE j <= Len(s)
  <2>1. j \in 1..Len(s) /\ u[j] = s[j]
    BY <1>1, <1>2
  <2>2. PICK k \in (j + 1)..Len(s) : s[k].op # "acquire" /\ s[k].lock = s[j].lock
    BY <2>1 DEF Orderly
  <2>3. k \in (j + 1)..Len(u) /\ u[k] = s[k]
    BY <1>1, <2>1
  <2>4. ASSUME NEW i \in (j + 1)..Len(u), u[i].op = "acquire"
        PROVE  \/ Rank(u[j].lock) < Rank(u[i].lock)
               \/ \E h \in (j + 1)..(i - 1) : u[h].op # "acquire" /\ u[h].lock = u[j].lock
    <3>1. CASE i <= Len(s)
      <4>1. i \in (j + 1)..Len(s) /\ u[i] = s[i]
        BY <1>1, <2>1, <3>1
      <4>2. \/ Rank(s[j].lock) < Rank(s[i].lock)
            \/ \E h \in (j + 1)..(i - 1) : s[h].op # "acquire" /\ s[h].lock = s[j].lock
        BY <2>1, <2>4, <4>1 DEF Orderly
      <4>3. ASSUME NEW h \in (j + 1)..(i - 1) PROVE u[h] = s[h]
        <5>1. h \in 1..Len(s)
          BY <1>1, <2>1, <4>1
        <5> QED
          BY <1>1, <5>1
      <4> QED
        BY <2>1, <4>1, <4>2, <4>3
    <3>2. CASE ~(i <= Len(s))
      <4>1. k \in (j + 1)..(i - 1)
        BY <1>1, <2>1, <3>2
      <4> QED
        BY <2>1, <2>2, <2>3, <4>1
    <3> QED
      BY <3>1, <3>2
  <2> QED
    BY <2>1, <2>2, <2>3, <2>4
<1>3. CASE ~(j <= Len(s))
  <2> DEFINE n == Len(s)
             jj == j - n
  <2>1. jj \in 1..Len(t) /\ u[j] = t[jj] /\ jj + n = j
    BY <1>1, <1>3
  <2> HIDE DEF n, jj
  <2>n. n \in Nat /\ n = Len(s) /\ jj = j - n
    BY <1>1 DEF n, jj
  <2>2. PICK k \in (jj + 1)..Len(t) : t[k].op # "acquire" /\ t[k].lock = t[jj].lock
    BY <2>1 DEF Orderly
  <2>3. k + n \in (j + 1)..Len(u) /\ u[k + n] = t[k]
    BY <1>1, <2>1, <2>n, SMTT(30)
  <2>4. ASSUME NEW i \in (j + 1)..Len(u), u[i].op = "acquire"
        PROVE  \/ Rank(u[j].lock) < Rank(u[i].lock)
               \/ \E h \in (j + 1)..(i - 1) : u[h].op # "acquire" /\ u[h].lock = u[j].lock
    <3>1. i - n \in (jj + 1)..Len(t) /\ u[i] = t[i - n]
      BY <1>1, <1>3, <2>1, <2>n
    <3>2. \/ Rank(t[jj].lock) < Rank(t[i - n].lock)
          \/ \E h \in (jj + 1)..(i - n - 1) : t[h].op # "acquire" /\ t[h].lock = t[jj].lock
      BY <2>1, <2>4, <3>1 DEF Orderly
    <3>3. ASSUME NEW h \in (jj + 1)..(i - n - 1)
          PROVE  h + n \in (j + 1)..(i - 1) /\ u[h + n] = t[h]
      <4>1. h \in 1..Len(t)
        BY <1>1, <2>1, <2>n, <3>1
      <4> QED
        BY <1>1, <2>1, <2>n, <4>1
    <3> QED
      BY <2>1, <3>1, <3>2, <3>3
  <2> QED
    BY <2>1, <2>2, <2>3, <2>4
<1> QED
  BY <1>2, <1>3

LEMMA JoinAbove ==
    ASSUME NEW s \in Seq(Entries), NEW t \in Seq(Entries), NEW r \in Int, Above(s, r), Above(t, r)
    PROVE  Above(s \o t, r)
BY DEF Above

LEMMA JoinFrees ==
    ASSUME NEW s \in Seq(Entries), NEW t \in Seq(Entries), NEW l, Frees(s, l) \/ Frees(t, l)
    PROVE  Frees(s \o t, l)
<1> DEFINE u == s \o t
<1>1. /\ Len(s) \in Nat /\ Len(t) \in Nat /\ Len(u) = Len(s) + Len(t)
      /\ \A i \in 1..Len(s) : u[i] = s[i] /\ i \in 1..Len(u)
      /\ \A i \in 1..Len(t) : u[i + Len(s)] = t[i] /\ i + Len(s) \in 1..Len(u)
  OBVIOUS
<1> HIDE DEF u
<1> QED
  BY <1>1 DEF Frees, u

----------------------------------------------------------------------------
LEMMA Steps ==
    ASSUME NEW l \in Locks
    PROVE  /\ Acq(l) \in Seq(Entries) /\ Len(Acq(l)) = 1
           /\ Acq(l)[1].op = "acquire" /\ Acq(l)[1].lock = l
           /\ Rel(l) \in Seq(Entries) /\ Len(Rel(l)) = 1
           /\ Rel(l)[1].op = "release" /\ Rel(l)[1].lock = l
BY DEF Acq, Rel, Entries

LEMMA FreeingStep ==
    ASSUME NEW s \in Seq(Entries), Len(s) = 1, s[1].op # "acquire"
    PROVE  /\ Orderly(s) /\ Frees(s, s[1].lock)
           /\ \A r \in Int : Above(s, r)
BY DEF Orderly, Frees, Above

LEMMA Releases ==
    /\ \A l \in Locks : /\ Rel(l) \in OrderlySeqs /\ Frees(Rel(l), l)
                        /\ \A r \in Int : Above(Rel(l), r)
    /\ \A p \in ProcIds : /\ Sched(p) \in OrderlySeqs /\ Frees(Sched(p), P(p))
                          /\ \A r \in Int : Above(Sched(p), r)
<1>1. ASSUME NEW l \in Locks
      PROVE  /\ Rel(l) \in OrderlySeqs /\ Frees(Rel(l), l)
             /\ \A r \in Int : Above(Rel(l), r)
  <2>1. /\ Rel(l) \in Seq(Entries) /\ Len(Rel(l)) = 1
        /\ Rel(l)[1].op # "acquire" /\ Rel(l)[1].lock = l
    BY Steps
  <2> QED
    BY <2>1, FreeingStep DEF OrderlySeqs
<1>2. ASSUME NEW p \in ProcIds
      PROVE  /\ Sched(p) \in OrderlySeqs /\ Frees(Sched(p), P(p))
             /\ \A r \in Int : Above(Sched(p), r)
  <2>1. /\ Sched(p) \in Seq(Entries) /\ Len(Sched(p)) = 1
        /\ Sched(p)[1].op # "acquire" /\ Sched(p)[1].lock = P(p)
    BY LocksAre DEF Sched, Entries
  <2> QED
    BY <2>1, FreeingStep DEF OrderlySeqs
<1> QED
  BY <1>1, <1>2

\* To take a lock first that is below all that s takes, and that s releases.
LEMMA TakeFirst ==
    ASSUME NEW l \in Locks, NEW s \in OrderlySeqs, Frees(s, l), Above(s, Rank(l))
    PROVE  Acq(l) \o s \in OrderlySeqs
<1> DEFINE a == Acq(l)
           u == a \o s
<1>1. s \in Seq(Entries) /\ Orderly(s)
  BY DEF OrderlySeqs
<1>2. a \in Seq(Entries) /\ Len(a) = 1 /\ a[1].op = "acquire" /\ a[1].lock = l
  BY Steps
<1> HIDE DEF a
<1>s. s \in Seq(Entries) /\ a \in Seq(Entries)
  BY <1>1, <1>2
<1>n. Len(a) = 1
  BY <1>2
<1>3. /\ u \in Seq(Entries) /\ Len(u) = Len(s) + 1 /\ Len(s) \in Nat
      /\ u[1] = a[1]
      /\ \A i \in 1..Len(u) : i # 1 => i - 1 \in 1..Len(s) /\ u[i] = s[i - 1]
      /\ \A i \in 1..Len(s) : u[i + 1] = s[i] /\ i + 1 \in 1..Len(u)
  <2> HIDE DEF u
  <2>1. u \in Seq(Entries) /\ Len(u) = Len(a) + Len(s)
    BY <1>s, ConcatProperties DEF u
  <2>2. \A i \in 1..(1 + Len(s)) : u[i] = IF i <= 1 THEN a[i] ELSE s[i - 1]
    <3>1. \A i \in 1..(Len(a) + Len(s)) : u[i] = IF i <= Len(a) THEN a[i] ELSE s[i - Len(a)]
      BY <1>s, ConcatProperties DEF u
    <3> QED
      BY <1>n, <3>1
  <2>3. Len(u) = Len(s) + 1 /\ Len(s) \in Nat
    BY <1>1, <1>2, <2>1
  <2>4. u[1] = a[1]
    BY <2>2, <2>3
  <2>5. \A i \in 1..Len(u) : i # 1 => i - 1 \in 1..Len(s) /\ u[i] = s[i - 1]
    BY <2>2, <2>3
  <2>6. ASSUME NEW i \in 1..Len(s) PROVE u[i + 1] = s[i] /\ i + 1 \in 1..Len(u)
    <3>1. i + 1 \in 1..(1 + Len(s)) /\ ~(i + 1 <= 1) /\ (i + 1) - 1 = i
      BY <2>3
    <3>2. u[i + 1] = s[(i + 1) - 1]
      BY <2>2, <3>1
    <3> QED
      BY <2>3, <3>1, <3>2
  <2> QED
    BY <2>1, <2>3, <2>4, <2>5, <2>6
<1> HIDE DEF u
<1> SUFFICES ASSUME NEW j \in 1..Len(u), u[j].op = "acquire"
             PROVE  /\ \E k \in (j + 1)..Len(u) : u[k].op # "acquire" /\ u[k].lock = u[j].lock
                    /\ \A i \in (j + 1)..Len(u) : u[i].op = "acquire" =>
                         \/ Rank(u[j].lock) < Rank(u[i].lock)
                         \/ \E k \in (j + 1)..(i - 1) : u[k].op # "acquire" /\ u[k].lock = u[j].lock
  BY <1>3 DEF Orderly, OrderlySeqs, u, a
<1>4. CASE j = 1
  <2>1. u[j].lock = l
    BY <1>2, <1>3, <1>4
  <2>2. PICK k \in 1..Len(s) : s[k].op # "acquire" /\ s[k].lock = l
    BY DEF Frees
  <2>3. k + 1 \in (j + 1)..Len(u) /\ u[k + 1] = s[k]
    BY <1>3, <1>4
  <2>4. ASSUME NEW i \in (j + 1)..Len(u), u[i].op = "acquire"
        PROVE  Rank(l) < Rank(u[i].lock)
    <3>1. i - 1 \in 1..Len(s) /\ u[i] = s[i - 1]
      BY <1>3, <1>4
    <3> QED
      BY <2>4, <3>1 DEF Above
  <2> QED
    BY <2>1, <2>2, <2>3, <2>4
<1>5. CASE j # 1
  <2>1. j - 1 \in 1..Len(s) /\ u[j] = s[j - 1]
    BY <1>3, <1>5
  <2>2. PICK k \in (j - 1 + 1)..Len(s) : s[k].op # "acquire" /\ s[k].lock = s[j - 1].lock
    BY <1>1, <2>1 DEF Orderly
  <2>3. k + 1 \in (j + 1)..Len(u) /\ u[k + 1] = s[k]
    BY <1>3, <2>1
  <2>4. ASSUME NEW i \in (j + 1)..Len(u), u[i].op = "acquire"
        PROVE  \/ Rank(u[j].lock) < Rank(u[i].lock)
               \/ \E h \in (j + 1)..(i - 1) : u[h].op # "acquire" /\ u[h].lock = u[j].lock
    <3>1. i - 1 \in (j - 1 + 1)..Len(s) /\ u[i] = s[i - 1]
      BY <1>3, <2>1
    <3>2. \/ Rank(s[j - 1].lock) < Rank(s[i - 1].lock)
          \/ \E h \in (j - 1 + 1)..(i - 1 - 1) : s[h].op # "acquire" /\ s[h].lock = s[j - 1].lock
      BY <1>1, <2>1, <2>4, <3>1 DEF Orderly
    <3>3. ASSUME NEW h \in (j - 1 + 1)..(i - 1 - 1)
          PROVE  h + 1 \in (j + 1)..(i - 1) /\ u[h + 1] = s[h]
      <4>1. h \in 1..Len(s)
        BY <1>3, <2>1, <3>1
      <4> QED
        BY <1>3, <2>1, <4>1
    <3> QED
      BY <2>1, <3>1, <3>2, <3>3
  <2> QED
    BY <2>1, <2>2, <2>3, <2>4
<1> QED
  BY <1>4, <1>5

LEMMA AcqAbove ==
    ASSUME NEW l \in Locks, NEW r \in Int, r < Rank(l)
    PROVE  Above(Acq(l), r)
BY Steps DEF Above

\* An orderly sequence is followed by another.
LEMMA Join ==
    ASSUME NEW s \in OrderlySeqs, NEW t \in OrderlySeqs
    PROVE  /\ s \o t \in OrderlySeqs
           /\ \A r \in Int : Above(s, r) /\ Above(t, r) => Above(s \o t, r)
           /\ \A l : Frees(s, l) \/ Frees(t, l) => Frees(s \o t, l)
<1>1. s \in Seq(Entries) /\ t \in Seq(Entries) /\ s \o t \in Seq(Entries)
  BY DEF OrderlySeqs
<1>2. Orderly(s \o t)
  BY <1>1, JoinOrderly DEF OrderlySeqs
<1>3. \A r \in Int : Above(s, r) /\ Above(t, r) => Above(s \o t, r)
  BY <1>1, JoinAbove
<1>4. \A l : Frees(s, l) \/ Frees(t, l) => Frees(s \o t, l)
  BY <1>1, JoinFrees
<1> QED
  BY <1>1, <1>2, <1>3, <1>4 DEF OrderlySeqs

----------------------------------------------------------------------------
\* A lock taken and released at once.
LEMMA RegionOrderly ==
    ASSUME NEW l \in Locks
    PROVE  /\ Region(l) \in OrderlySeqs
           /\ \A r \in Int : r < Rank(l) => Above(Region(l), r)
<1>1. /\ Rel(l) \in OrderlySeqs /\ Frees(Rel(l), l)
      /\ \A r \in Int : Above(Rel(l), r)
  BY Releases
<1>2. Rank(l) \in Int
  BY LocksAre
<1>3. Region(l) \in OrderlySeqs
  BY <1>1, <1>2, TakeFirst DEF Region
<1>4. \A r \in Int : r < Rank(l) => Above(Region(l), r)
  <2> SUFFICES ASSUME NEW r \in Int, r < Rank(l) PROVE Above(Region(l), r)
    OBVIOUS
  <2>1. Above(Acq(l), r) /\ Above(Rel(l), r)
    BY <1>1, AcqAbove
  <2>2. Acq(l) \in Seq(Entries) /\ Rel(l) \in Seq(Entries)
    BY Steps
  <2> QED
    BY <2>1, <2>2, JoinAbove DEF Region
<1> QED
  BY <1>3, <1>4

LEMMA NothingOrderly == <<>> \in OrderlyAbove
BY DEF OrderlyAbove, OrderlySeqs, Orderly, Above

\* The loops over the processes.
LEMMA LoopsOrderly ==
    /\ EachProc \in OrderlyAbove
    /\ \A p : WakeupCalls(p) \in OrderlyAbove
<1>1. \A a, b \in OrderlyAbove : a \o b \in OrderlyAbove
  BY Join DEF OrderlyAbove
<1>2. \A q \in ProcIds : Region(P(q)) \in OrderlyAbove
  <2> TAKE q \in ProcIds
  <2>1. P(q) \in Locks /\ 0 < Rank(P(q)) /\ 0 \in Int
    BY LocksAre DEF ProcIds
  <2> QED
    BY <2>1, RegionOrderly DEF OrderlyAbove
<1>3. NPROC \in Nat
  BY LocksAssumption
<1>4. EachProc \in OrderlyAbove
  <2> DEFINE f == [q \in ProcIds |-> Region(P(q))]
  <2>1. f \in [1..NPROC -> OrderlyAbove]
    BY <1>2 DEF ProcIds
  <2> HIDE DEF f
  <2>2. FlattenSeq(f) \in OrderlyAbove
    BY <1>1, <1>3, <2>1, NothingOrderly, FlattenIn
  <2> QED
    BY <2>2 DEF EachProc, f
<1>5. ASSUME NEW p PROVE WakeupCalls(p) \in OrderlyAbove
  <2> DEFINE f == [q \in ProcIds |-> IF q = p THEN <<>> ELSE Region(P(q))]
  <2>1. f \in [1..NPROC -> OrderlyAbove]
    BY <1>2, NothingOrderly DEF ProcIds
  <2> HIDE DEF f
  <2>2. FlattenSeq(f) \in OrderlyAbove
    BY <1>1, <1>3, <2>1, NothingOrderly, FlattenIn
  <2> QED
    BY <2>2 DEF WakeupCalls, f
<1> QED
  BY <1>4, <1>5

\* sleep(chan, lk), once lk is taken: it is the other way round that p->lock
\* is taken while lk is held.
LEMMA SleepOrderly ==
    ASSUME NEW p \in ProcIds, NEW l \in Locks
    PROVE  /\ Acq(P(p)) \o (Rel(l) \o Sched(p)) \in OrderlyAbove
           /\ Frees(Acq(P(p)) \o (Rel(l) \o Sched(p)), l)
<1> DEFINE s == Rel(l) \o Sched(p)
<1>1. /\ Rel(l) \in OrderlySeqs /\ Frees(Rel(l), l) /\ Sched(p) \in OrderlySeqs
      /\ Frees(Sched(p), P(p))
      /\ \A r \in Int : Above(Rel(l), r) /\ Above(Sched(p), r)
  BY Releases
<1>2. /\ P(p) \in Locks /\ Rank(P(p)) \in Int /\ 0 < Rank(P(p)) /\ 0 \in Int
  BY LocksAre DEF ProcIds
<1>3. /\ s \in OrderlySeqs /\ Frees(s, l) /\ Frees(s, P(p))
      /\ \A r \in Int : Above(s, r)
  BY <1>1, Join
<1> HIDE DEF s
<1>4. Acq(P(p)) \o s \in OrderlySeqs
  BY <1>2, <1>3, TakeFirst
<1>5. Acq(P(p)) \in Seq(Entries) /\ s \in Seq(Entries) /\ Above(Acq(P(p)), 0)
  BY <1>2, <1>3, Steps, AcqAbove DEF OrderlySeqs
<1>6. Above(Acq(P(p)) \o s, 0) /\ Frees(Acq(P(p)) \o s, l)
  BY <1>2, <1>3, <1>5, JoinAbove, JoinFrees
<1> QED
  BY <1>4, <1>6 DEF s, OrderlyAbove

----------------------------------------------------------------------------
\* Regrouping, as predicates of the sequences: the provers find the instance
\* they need by the name.
Regroups(s, t, u) == (s \o t) \o u = s \o (t \o u)
Regroups4(x, a, g, r) == (((x \o a) \o g) \o g) \o r = x \o (((a \o g) \o g) \o r)

LEMMA Closed ==
    \A s, t \in Seq(Entries) : s \o t \in Seq(Entries)
BY ConcatProperties

LEMMA Assoc ==
    \A s, t, u \in Seq(Entries) : Regroups(s, t, u)
BY ConcatAssociative DEF Regroups

LEMMA Regroup ==
    \A x, a, g, r \in Seq(Entries) : Regroups4(x, a, g, r)
<1> TAKE x, a, g, r \in Seq(Entries)
<1>1. PICK b \in Seq(Entries) : b = a \o g
  BY Closed
<1>2. (x \o a) \o g = x \o b
  <2>1. Regroups(x, a, g)
    BY Assoc, Zenon
  <2> QED
    BY <1>1, <2>1, Zenon DEF Regroups
<1>3. PICK d \in Seq(Entries) : d = b \o g
  BY Closed
<1>4. (x \o b) \o g = x \o d
  <2>1. Regroups(x, b, g)
    BY Assoc, Zenon
  <2> QED
    BY <1>3, <2>1, Zenon DEF Regroups
<1>5. Regroups(x, d, r)
  BY Assoc, Zenon
<1> QED
  BY <1>1, <1>2, <1>3, <1>4, <1>5, Zenon DEF Regroups, Regroups4

\* A lock around s, which t releases at last.
LEMMA Nest ==
    ASSUME NEW l \in Locks, NEW s \in OrderlySeqs, NEW t \in OrderlySeqs,
           Above(s, Rank(l)), Above(t, Rank(l)), Frees(t, l)
    PROVE  (Acq(l) \o s) \o t \in OrderlySeqs
<1>1. Acq(l) \in Seq(Entries) /\ s \in Seq(Entries) /\ t \in Seq(Entries)
  BY Steps DEF OrderlySeqs
<1>2. (Acq(l) \o s) \o t = Acq(l) \o (s \o t)
  <2>1. Regroups(Acq(l), s, t)
    BY <1>1, Assoc, Zenon
  <2> QED
    BY <2>1, Zenon DEF Regroups
<1>3. s \o t \in OrderlySeqs /\ Above(s \o t, Rank(l)) /\ Frees(s \o t, l)
  <2>1. Rank(l) \in Int
    BY LocksAre
  <2> QED
    BY <2>1, Join
<1> QED
  BY <1>2, <1>3, TakeFirst

LEMMA Nest2 ==
    ASSUME NEW l \in Locks, NEW s \in OrderlySeqs, NEW t \in OrderlySeqs, NEW u \in OrderlySeqs,
           Above(s, Rank(l)), Above(t, Rank(l)), Above(u, Rank(l)), Frees(u, l)
    PROVE  ((Acq(l) \o s) \o t) \o u \in OrderlySeqs
<1>1. /\ Acq(l) \in Seq(Entries) /\ s \in Seq(Entries) /\ t \in Seq(Entries)
      /\ u \in Seq(Entries)
  BY Steps DEF OrderlySeqs
<1>2. (Acq(l) \o s) \o t = Acq(l) \o (s \o t)
  <2>1. Regroups(Acq(l), s, t)
    BY <1>1, Assoc, Zenon
  <2> QED
    BY <2>1, Zenon DEF Regroups
<1>3. s \o t \in OrderlySeqs /\ Above(s \o t, Rank(l))
  <2>1. Rank(l) \in Int
    BY LocksAre
  <2> QED
    BY <2>1, Join
<1>4. (Acq(l) \o (s \o t)) \o u \in OrderlySeqs
  BY <1>3, Nest
<1> QED
  BY <1>2, <1>4

LEMMA SleepCallsOrderly ==
    ASSUME NEW p \in ProcIds, NEW l \in Locks
    PROVE  SleepCalls(p, l) \in OrderlyAbove /\ Frees(SleepCalls(p, l), l)
<1>1. P(p) \in Locks /\ Acq(P(p)) \in Seq(Entries) /\ Rel(l) \in Seq(Entries)
  BY LocksAre, Steps
<1>2. Sched(p) \in Seq(Entries)
  BY Releases DEF OrderlySeqs
<1>3. SleepCalls(p, l) = Acq(P(p)) \o (Rel(l) \o Sched(p))
  <2>1. Regroups(Acq(P(p)), Rel(l), Sched(p))
    BY <1>1, <1>2, Assoc, Zenon
  <2> QED
    BY <2>1 DEF SleepCalls, Regroups
<1> QED
  BY <1>3, SleepOrderly

LEMMA GlobalRegion ==
    /\ Region(Global) \in OrderlyAbove
    /\ \A q \in ProcIds : Above(Region(Global), Rank(P(q)))
    /\ \A q \in ProcIds : Region(P(q)) \in OrderlyAbove
<1>1. Global \in Locks /\ Rank(Global) = NPROC + 1 /\ NPROC \in Nat
  BY LocksAre, LocksAssumption
<1>2. 0 < Rank(Global) /\ \A q \in ProcIds : Rank(P(q)) \in Int /\ Rank(P(q)) < Rank(Global)
  BY <1>1, LocksAre DEF ProcIds
<1>3. \A q \in ProcIds : P(q) \in Locks /\ 0 < Rank(P(q)) /\ 0 \in Int
  BY LocksAre DEF ProcIds
<1> QED
  BY <1>1, <1>2, <1>3, RegionOrderly DEF OrderlyAbove

\* A process and, inside, agent_global.lock twice.
LEMMA ProcAndGlobal ==
    ASSUME NEW q \in ProcIds
    PROVE  ((Acq(P(q)) \o Region(Global)) \o Region(Global)) \o Rel(P(q)) \in OrderlySeqs
<1>1. Region(Global) \in OrderlySeqs /\ Above(Region(Global), Rank(P(q)))
  BY GlobalRegion DEF OrderlyAbove
<1>2. P(q) \in Locks /\ Rank(P(q)) \in Int
  BY LocksAre
<1>3. Rel(P(q)) \in OrderlySeqs /\ Above(Rel(P(q)), Rank(P(q))) /\ Frees(Rel(P(q)), P(q))
  BY <1>2, Releases
<1> QED
  BY <1>1, <1>2, <1>3, Nest2

LEMMA ForkOrderly ==
    ASSUME NEW q \in ProcIds
    PROVE  ForkPath(q) \in OrderlySeqs
<1>1. ((Acq(P(q)) \o Region(Global)) \o Region(Global)) \o Rel(P(q)) \in OrderlySeqs
  BY ProcAndGlobal
<1>2. Region(WaitLock) \in OrderlySeqs /\ Region(P(q)) \in OrderlySeqs
  BY LocksAre, RegionOrderly
<1> QED
  BY <1>1, <1>2, Join DEF ForkPath

LEMMA ExitOrderly ==
    ASSUME NEW p \in ProcIds
    PROVE  ExitPath(p) \in OrderlySeqs
<1> DEFINE w == WakeupCalls(p)
           t == Acq(P(p)) \o (Rel(WaitLock) \o Sched(p))
<1>1. WaitLock \in Locks /\ Rank(WaitLock) = 0
  BY LocksAre
<1>2. w \in OrderlySeqs /\ Above(w, 0) /\ t \in OrderlySeqs /\ Above(t, 0) /\ Frees(t, WaitLock)
  BY <1>1, LoopsOrderly, SleepOrderly DEF OrderlyAbove
<1>3. (Acq(WaitLock) \o w) \o t \in OrderlySeqs
  <2> HIDE DEF w, t
  <2> QED
    BY <1>1, <1>2, Nest
<1>4. ExitPath(p) = (Acq(WaitLock) \o w) \o t
  <2> DEFINE x == Acq(WaitLock) \o w
  <2>1. /\ x \in Seq(Entries) /\ Acq(P(p)) \in Seq(Entries) /\ Rel(WaitLock) \in Seq(Entries)
        /\ Sched(p) \in Seq(Entries)
    <3>1. Acq(WaitLock) \in Seq(Entries) /\ w \in Seq(Entries)
      BY <1>1, <1>2, LocksAre, Steps DEF OrderlySeqs
    <3>2. /\ Acq(P(p)) \in Seq(Entries) /\ Rel(WaitLock) \in Seq(Entries)
          /\ Sched(p) \in Seq(Entries)
      BY <1>1, LocksAre, Steps, Releases DEF OrderlySeqs
    <3> QED
      BY <3>1, <3>2, Closed, Zenon
  <2>2. ExitPath(p) = ((x \o Acq(P(p))) \o Rel(WaitLock)) \o Sched(p)
    BY DEF ExitPath
  <2> HIDE DEF x, w
  <2> DEFINE b == Acq(P(p)) \o Rel(WaitLock)
  <2>7. Regroups(x, Acq(P(p)), Rel(WaitLock)) /\ b \in Seq(Entries)
    BY <2>1, Assoc, Closed, Zenon
  <2>3. (x \o Acq(P(p))) \o Rel(WaitLock) = x \o b /\ b \in Seq(Entries)
    BY <2>7, Zenon DEF Regroups
  <2> HIDE DEF b
  <2> DEFINE c == Sched(p)
  <2>6. x \in Seq(Entries) /\ b \in Seq(Entries) /\ c \in Seq(Entries)
    BY <2>1, <2>3
  <2> HIDE DEF c
  <2>5. Regroups(x, b, c)
    BY <2>6, Assoc, Zenon
  <2>8. Regroups(Acq(P(p)), Rel(WaitLock), Sched(p))
    BY <2>1, Assoc, Zenon
  <2>4. (Acq(P(p)) \o Rel(WaitLock)) \o Sched(p) = t
    BY <2>8, Zenon DEF Regroups
  <2> QED
    BY <2>2, <2>3, <2>4, <2>5 DEF x, b, c, Regroups
<1> QED
  BY <1>3, <1>4

LEMMA ClockOrderly ==
    ASSUME NEW p, NEW q \in ProcIds
    PROVE  ClockPath(p, q) \in OrderlySeqs
<1> DEFINE w == WakeupCalls(p)
           g == Region(Global)
           x == ((((((Acq(Ticks) \o w) \o Rel(Ticks)) \o EachProc) \o g) \o g))
           a == Acq(P(q))
           r == Rel(P(q))
<1>1. Ticks \in Locks /\ Rank(Ticks) = 0 /\ P(q) \in Locks
  BY LocksAre
<1>2. /\ w \in OrderlySeqs /\ Above(w, 0) /\ EachProc \in OrderlySeqs
      /\ g \in OrderlySeqs /\ Rel(Ticks) \in OrderlySeqs /\ Above(Rel(Ticks), 0)
      /\ Frees(Rel(Ticks), Ticks)
  BY <1>1, LoopsOrderly, GlobalRegion, Releases DEF OrderlyAbove
<1>3. x \in OrderlySeqs
  <2> HIDE DEF w, g
  <2>1. (Acq(Ticks) \o w) \o Rel(Ticks) \in OrderlySeqs
    BY <1>1, <1>2, Nest
  <2>2. ((Acq(Ticks) \o w) \o Rel(Ticks)) \o EachProc \in OrderlySeqs
    BY <1>2, <2>1, Join
  <2>3. (((Acq(Ticks) \o w) \o Rel(Ticks)) \o EachProc) \o g \in OrderlySeqs
    BY <1>2, <2>2, Join
  <2> QED
    BY <1>2, <2>3, Join
<1>4. ((a \o g) \o g) \o r \in OrderlySeqs
  BY ProcAndGlobal
<1>5. /\ x \in Seq(Entries) /\ a \in Seq(Entries) /\ g \in Seq(Entries) /\ r \in Seq(Entries)
  <2>1. x \in Seq(Entries) /\ g \in Seq(Entries)
    BY <1>2, <1>3 DEF OrderlySeqs
  <2> QED
    BY <1>1, <2>1, Steps
<1>6. ClockPath(p, q) = ((((x \o a) \o g) \o g) \o r) \o EachProc
  BY DEF ClockPath
<1> HIDE DEF x, a, g, r
<1>7. Regroups4(x, a, g, r)
  BY <1>5, Regroup, Zenon
<1>8. (((x \o a) \o g) \o g) \o r = x \o (((a \o g) \o g) \o r)
  BY <1>7, Zenon DEF Regroups4
<1>9. x \o (((a \o g) \o g) \o r) \in OrderlySeqs
  BY <1>3, <1>4, Join
<1> QED
  <2>1. (x \o (((a \o g) \o g) \o r)) \o EachProc \in OrderlySeqs
    BY <1>2, <1>9, Join
  <2> QED
    BY <1>6, <1>8, <2>1

LEMMA PathsOrderly ==
    ASSUME NEW name \in Calls, NEW p \in ProcIds, NEW q \in ProcIds,
           Calls \cap {"agent_wait", "send_message", "cascade"} = {}
    PROVE  Path(name, p, q) \in OrderlySeqs
<1>1. /\ P(p) \in Locks /\ P(q) \in Locks /\ Rank(P(p)) \in Int
      /\ Ticks \in Locks /\ Runtime \in Locks /\ WaitLock \in Locks /\ Global \in Locks
      /\ Rank(Ticks) = 0 /\ Rank(Runtime) = 0 /\ Rank(WaitLock) = 0
  BY LocksAre
<1>2. /\ WakeupCalls(p) \in OrderlySeqs /\ Above(WakeupCalls(p), 0)
      /\ Region(P(p)) \in OrderlySeqs /\ Above(Region(P(p)), 0)
      /\ Region(P(q)) \in OrderlySeqs /\ Above(Region(P(q)), 0)
  BY LoopsOrderly, GlobalRegion DEF OrderlyAbove
<1>3. \A l \in Locks : /\ SleepCalls(p, l) \in OrderlySeqs
                       /\ Above(SleepCalls(p, l), 0) /\ Frees(SleepCalls(p, l), l)
  BY SleepCallsOrderly DEF OrderlyAbove
<1>4. Acq(P(p)) \o Sched(p) \in OrderlySeqs
  <2>1. Sched(p) \in OrderlySeqs /\ Frees(Sched(p), P(p)) /\ Above(Sched(p), Rank(P(p)))
    BY <1>1, Releases
  <2> QED
    BY <1>1, <2>1, TakeFirst
<1>5. Acq(Ticks) \o SleepCalls(p, Ticks) \in OrderlySeqs
  BY <1>1, <1>3, TakeFirst
<1>6. WaitPath(p, q) \in OrderlySeqs
  BY <1>1, <1>2, <1>3, Nest DEF WaitPath
<1>7. ToolCallPath(p) \in OrderlySeqs
  BY <1>1, <1>2, <1>3, Nest2 DEF ToolCallPath
<1>8. ToolReplyPath(p) \in OrderlySeqs
  <2>1. Rel(Runtime) \in OrderlySeqs /\ Above(Rel(Runtime), 0) /\ Frees(Rel(Runtime), Runtime)
    BY <1>1, Releases
  <2> QED
    BY <1>1, <1>2, <2>1, Nest DEF ToolReplyPath
<1>9. Region(Global) \in OrderlySeqs /\ ForkPath(q) \in OrderlySeqs /\ ExitPath(p) \in OrderlySeqs
  BY GlobalRegion, ForkOrderly, ExitOrderly DEF OrderlyAbove
<1>10. name \in CallNames /\ name \notin {"agent_wait", "send_message", "cascade"}
  BY LocksAssumption
<1> QED
  BY <1>4, <1>5, <1>6, <1>7, <1>8, <1>9, <1>10 DEF Path, CallNames

----------------------------------------------------------------------------
\* What is left of a path after its next call.
LEMMA TailOf ==
    ASSUME NEW s \in Seq(Entries), s # <<>>
    PROVE  /\ Tail(s) \in Seq(Entries) /\ Head(s) = s[1] /\ 1 \in 1..Len(s)
           /\ Len(Tail(s)) = Len(s) - 1 /\ Len(s) \in Nat
           /\ s[1] \in Entries
           /\ \A i \in 1..Len(Tail(s)) : Tail(s)[i] = s[i + 1] /\ i + 1 \in 1..Len(s)
OBVIOUS

LEMMA TailOrderly ==
    ASSUME NEW s \in Seq(Entries), s # <<>>, Orderly(s)
    PROVE  Orderly(Tail(s))
<1> DEFINE t == Tail(s)
<1>1. /\ Len(t) = Len(s) - 1 /\ Len(s) \in Nat
      /\ \A i \in 1..Len(t) : t[i] = s[i + 1] /\ i + 1 \in 1..Len(s)
  BY TailOf
<1> HIDE DEF t
<1>2. \A k \in 1..Len(s) : k # 1 => k - 1 \in 1..Len(t) /\ t[k - 1] = s[k]
  BY <1>1
<1> SUFFICES ASSUME NEW j \in 1..Len(t), t[j].op = "acquire"
             PROVE  /\ \E k \in (j + 1)..Len(t) : t[k].op # "acquire" /\ t[k].lock = t[j].lock
                    /\ \A i \in (j + 1)..Len(t) : t[i].op = "acquire" =>
                         \/ Rank(t[j].lock) < Rank(t[i].lock)
                         \/ \E k \in (j + 1)..(i - 1) : t[k].op # "acquire" /\ t[k].lock = t[j].lock
  BY DEF Orderly, t
<1>3. j + 1 \in 1..Len(s) /\ t[j] = s[j + 1]
  BY <1>1
<1>4. PICK k \in (j + 1 + 1)..Len(s) : s[k].op # "acquire" /\ s[k].lock = s[j + 1].lock
  BY <1>3 DEF Orderly
<1>5. k - 1 \in (j + 1)..Len(t) /\ t[k - 1] = s[k]
  <2>1. k \in 1..Len(s) /\ k # 1
    BY <1>1
  <2> QED
    BY <1>1, <1>2, <2>1
<1>6. ASSUME NEW i \in (j + 1)..Len(t), t[i].op = "acquire"
      PROVE  \/ Rank(t[j].lock) < Rank(t[i].lock)
             \/ \E h \in (j + 1)..(i - 1) : t[h].op # "acquire" /\ t[h].lock = t[j].lock
  <2>1. i + 1 \in (j + 1 + 1)..Len(s) /\ t[i] = s[i + 1]
    BY <1>1
  <2>2. \/ Rank(s[j + 1].lock) < Rank(s[i + 1].lock)
        \/ \E h \in (j + 1 + 1)..(i + 1 - 1) : s[h].op # "acquire" /\ s[h].lock = s[j + 1].lock
    <3>1. s[i + 1].op = "acquire" /\ s[j + 1].op = "acquire"
      BY <1>3, <1>6, <2>1
    <3> DEFINE a == j + 1
               b == i + 1
    <3>2. a \in 1..Len(s) /\ s[a].op = "acquire" /\ b \in (a + 1)..Len(s) /\ s[b].op = "acquire"
      BY <1>3, <2>1, <3>1
    <3> HIDE DEF a, b
    <3>3. \/ Rank(s[a].lock) < Rank(s[b].lock)
          \/ \E h \in (a + 1)..(b - 1) : s[h].op # "acquire" /\ s[h].lock = s[a].lock
      BY <3>2 DEF Orderly
    <3>4. a = j + 1 /\ b = i + 1
      BY DEF a, b
    <3> QED
      BY <3>3, <3>4, SMTT(30)
  <2>3. ASSUME NEW h \in (j + 1 + 1)..(i + 1 - 1)
        PROVE  h - 1 \in (j + 1)..(i - 1) /\ t[h - 1] = s[h]
    <3>1. h \in 1..Len(s) /\ h # 1
      BY <1>1
    <3> QED
      BY <1>1, <1>2, <3>1
  <2> QED
    BY <1>3, <2>1, <2>2, <2>3
<1> QED
  BY <1>3, <1>4, <1>5, <1>6

\* A lock that the next call does not release.
LEMMA TailKeeps ==
    ASSUME NEW s \in Seq(Entries), s # <<>>, NEW l, Frees(s, l), Under(s, l),
           s[1].op = "acquire" \/ s[1].lock # l
    PROVE  Frees(Tail(s), l) /\ Under(Tail(s), l)
<1> DEFINE t == Tail(s)
<1>1. /\ Len(t) = Len(s) - 1 /\ Len(s) \in Nat
      /\ \A i \in 1..Len(t) : t[i] = s[i + 1] /\ i + 1 \in 1..Len(s)
  BY TailOf
<1> HIDE DEF t
<1>2. \A k \in 1..Len(s) : k # 1 => k - 1 \in 1..Len(t) /\ t[k - 1] = s[k]
  BY <1>1
<1>3. Frees(t, l)
  <2>1. PICK k \in 1..Len(s) : s[k].op # "acquire" /\ s[k].lock = l
    BY DEF Frees
  <2>2. k # 1
    BY <2>1
  <2> QED
    BY <1>2, <2>1, <2>2 DEF Frees
<1>4. ASSUME NEW i \in 1..Len(t), t[i].op = "acquire"
      PROVE  \/ Rank(l) < Rank(t[i].lock)
             \/ \E k \in 1..(i - 1) : t[k].op # "acquire" /\ t[k].lock = l
  <2>1. i + 1 \in 1..Len(s) /\ t[i] = s[i + 1]
    BY <1>1
  <2>2. \/ Rank(l) < Rank(s[i + 1].lock)
        \/ \E k \in 1..(i + 1 - 1) : s[k].op # "acquire" /\ s[k].lock = l
    BY <1>4, <2>1 DEF Under
  <2>3. CASE \E k \in 1..(i + 1 - 1) : s[k].op # "acquire" /\ s[k].lock = l
    <3>1. PICK k \in 1..(i + 1 - 1) : s[k].op # "acquire" /\ s[k].lock = l
      BY <2>3
    <3>2. k # 1 /\ k \in 1..Len(s)
      BY <1>1, <3>1
    <3>3. t[k - 1] = s[k] /\ k - 1 \in 1..(i - 1)
      BY <1>1, <1>2, <3>2
    <3> QED
      BY <3>1, <3>3
  <2> QED
    BY <2>1, <2>2, <2>3
<1> QED
  BY <1>3, <1>4 DEF Under, t

\* The lock that the next call takes.
LEMMA TailTakes ==
    ASSUME NEW s \in Seq(Entries), s # <<>>, Orderly(s), s[1].op = "acquire"
    PROVE  Frees(Tail(s), s[1].lock) /\ Under(Tail(s), s[1].lock)
<1> DEFINE t == Tail(s)
           l == s[1].lock
<1>1. /\ Len(t) = Len(s) - 1 /\ Len(s) \in Nat /\ 1 \in 1..Len(s)
      /\ \A i \in 1..Len(t) : t[i] = s[i + 1] /\ i + 1 \in 1..Len(s)
  BY TailOf
<1> HIDE DEF t
<1>2. \A k \in 1..Len(s) : k # 1 => k - 1 \in 1..Len(t) /\ t[k - 1] = s[k]
  BY <1>1
<1>3. Frees(t, l)
  <2>1. PICK k \in 2..Len(s) : s[k].op # "acquire" /\ s[k].lock = l
    BY <1>1 DEF Orderly
  <2>2. k # 1 /\ k \in 1..Len(s)
    BY <1>1
  <2> QED
    BY <1>2, <2>1, <2>2 DEF Frees
<1>4. ASSUME NEW i \in 1..Len(t), t[i].op = "acquire"
      PROVE  \/ Rank(l) < Rank(t[i].lock)
             \/ \E k \in 1..(i - 1) : t[k].op # "acquire" /\ t[k].lock = l
  <2>1. i + 1 \in 2..Len(s) /\ t[i] = s[i + 1]
    BY <1>1
  <2>2. \/ Rank(l) < Rank(s[i + 1].lock)
        \/ \E k \in 2..(i + 1 - 1) : s[k].op # "acquire" /\ s[k].lock = l
    BY <1>1, <1>4, <2>1 DEF Orderly
  <2>3. CASE \E k \in 2..(i + 1 - 1) : s[k].op # "acquire" /\ s[k].lock = l
    <3>1. PICK k \in 2..(i + 1 - 1) : s[k].op # "acquire" /\ s[k].lock = l
      BY <2>3
    <3>2. k # 1 /\ k \in 1..Len(s)
      BY <1>1, <3>1
    <3>3. t[k - 1] = s[k] /\ k - 1 \in 1..(i - 1)
      BY <1>1, <1>2, <3>2
    <3> QED
      BY <3>1, <3>3
  <2> QED
    BY <2>1, <2>2, <2>3
<1> QED
  BY <1>3, <1>4 DEF Under, t

----------------------------------------------------------------------------
NoAcquire(s) == \A i \in 1..Len(s) : s[i].op # "acquire"

\* What a CPU holds, it releases before it takes a lock that is not behind;
\* but the lock of the best process stays held between two steps of the
\* scheduler, which takes nothing before it has looked further down the table.
Holds(s, b, l) == (Frees(s, l) /\ Under(s, l)) \/ (b # 0 /\ l = P(b))

Choosing(c) == best[c] # 0 => run[c] = 0 /\ best[c] < scan[c] /\ NoAcquire(todo[c])

LocksInv ==
    /\ run \in [CPUs -> 0..NPROC] /\ best \in [CPUs -> 0..NPROC]
    /\ scan \in [CPUs -> 0..(NPROC + 1)]
    /\ owner \in [Locks -> CPUs \cup {0}]
    /\ todo \in [CPUs -> OrderlySeqs]
    /\ \A c \in CPUs :
         /\ \A l \in Locks : owner[l] = c => Holds(todo[c], best[c], l)
         /\ Choosing(c)

LEMMA OneActs ==
    ASSUME LocksInv, NEW c \in CPUs, NEW r \in 0..NPROC, NEW b \in 0..NPROC,
           NEW k \in 0..(NPROC + 1), NEW s \in OrderlySeqs,
           run' = [run EXCEPT ![c] = r], best' = [best EXCEPT ![c] = b],
           scan' = [scan EXCEPT ![c] = k], todo' = [todo EXCEPT ![c] = s],
           owner' \in [Locks -> CPUs \cup {0}],
           \A l \in Locks : owner'[l] = owner[l] \/ owner'[l] = c \/ owner'[l] = 0,
           \A l \in Locks : owner'[l] = c => Holds(s, b, l),
           b # 0 => r = 0 /\ b < k /\ NoAcquire(s)
    PROVE  LocksInv'
<1>1. /\ run' \in [CPUs -> 0..NPROC] /\ best' \in [CPUs -> 0..NPROC]
      /\ scan' \in [CPUs -> 0..(NPROC + 1)] /\ todo' \in [CPUs -> OrderlySeqs]
  BY Zenon DEF LocksInv
<1>2. /\ run'[c] = r /\ best'[c] = b /\ scan'[c] = k /\ todo'[c] = s
      /\ \A d \in CPUs \ {c} : /\ run'[d] = run[d] /\ best'[d] = best[d]
                               /\ scan'[d] = scan[d] /\ todo'[d] = todo[d]
  BY Zenon DEF LocksInv
<1>3. ASSUME NEW d \in CPUs
      PROVE  /\ \A l \in Locks : owner'[l] = d => Holds(todo'[d], best'[d], l)
             /\ best'[d] # 0 => run'[d] = 0 /\ best'[d] < scan'[d] /\ NoAcquire(todo'[d])
  <2>1. CASE d = c
    BY <1>2, <2>1
  <2>2. CASE d # c
    <3>1. d # 0
      BY DEF CPUs
    <3>2. \A l \in Locks : owner'[l] = d => owner[l] = d
      BY <2>2, <3>1, Zenon
    <3>3. \A l \in Locks : owner[l] = d => Holds(todo[d], best[d], l)
      BY DEF LocksInv
    <3>4. best[d] # 0 => run[d] = 0 /\ best[d] < scan[d] /\ NoAcquire(todo[d])
      BY DEF LocksInv, Choosing
    <3>5. d \in CPUs \ {c}
      BY <2>2
    <3> QED
      BY <1>2, <3>2, <3>3, <3>4, <3>5, Zenon
  <2> QED
    BY <2>1, <2>2
<1>4. \A d \in CPUs : /\ \A l \in Locks : owner'[l] = d => Holds(todo'[d], best'[d], l)
                      /\ Choosing(d)'
  BY <1>3, Zenon DEF Choosing
<1> QED
  <2>1. \A d \in CPUs : \A l \in Locks : owner'[l] = d => Holds(todo[d], best[d], l)'
    BY <1>4, Zenon DEF Holds, P
  <2> QED
    BY <1>1, <1>4, <2>1, Zenon DEF LocksInv

LEMMA Same ==
    ASSUME LocksInv, NEW c \in CPUs
    PROVE  /\ run = [run EXCEPT ![c] = run[c]] /\ best = [best EXCEPT ![c] = best[c]]
           /\ scan = [scan EXCEPT ![c] = scan[c]]
           /\ run[c] \in 0..NPROC /\ best[c] \in 0..NPROC /\ scan[c] \in 0..(NPROC + 1)
           /\ todo[c] \in OrderlySeqs /\ todo[c] \in Seq(Entries) /\ Orderly(todo[c])
           /\ \A l \in Locks : owner[l] = c => Holds(todo[c], best[c], l)
           /\ best[c] # 0 => run[c] = 0 /\ best[c] < scan[c] /\ NoAcquire(todo[c])
           /\ owner \in [Locks -> CPUs \cup {0}] /\ c # 0
BY DEF LocksInv, Choosing, OrderlySeqs, CPUs

LEMMA NothingHeld ==
    ASSUME NEW l
    PROVE  ~ Frees(<<>>, l) /\ <<>> \in OrderlySeqs /\ NoAcquire(<<>>)
BY DEF Frees, OrderlySeqs, Orderly, NoAcquire

LEMMA Unhindered ==
    ASSUME NEW l \in Locks
    PROVE  /\ Rel(l) \in OrderlySeqs /\ NoAcquire(Rel(l))
           /\ Frees(Rel(l), l) /\ Under(Rel(l), l)
<1>1. Rel(l) \in OrderlySeqs /\ Frees(Rel(l), l)
  BY Releases
<1>2. /\ Rel(l) \in Seq(Entries) /\ Len(Rel(l)) = 1
      /\ Rel(l)[1].op = "release" /\ Rel(l)[1].lock = l
  BY Steps
<1>3. NoAcquire(Rel(l))
  BY <1>2 DEF NoAcquire
<1> QED
  BY <1>1, <1>3 DEF Under, NoAcquire

LEMMA DoHolds ==
    ASSUME LocksInv, NEW c \in CPUs, Do(c)
    PROVE  LocksInv'
<1> DEFINE s == todo[c]
<1>1. /\ run = [run EXCEPT ![c] = run[c]] /\ best = [best EXCEPT ![c] = best[c]]
      /\ scan = [scan EXCEPT ![c] = scan[c]]
      /\ run[c] \in 0..NPROC /\ best[c] \in 0..NPROC /\ scan[c] \in 0..(NPROC + 1)
      /\ s \in Seq(Entries) /\ Orderly(s)
      /\ \A l \in Locks : owner[l] = c => Holds(s, best[c], l)
      /\ best[c] # 0 => run[c] = 0 /\ best[c] < scan[c] /\ NoAcquire(s)
      /\ owner \in [Locks -> CPUs \cup {0}] /\ c # 0
  BY Same
<1>2. /\ s # <<>> /\ todo' = [todo EXCEPT ![c] = Tail(s)] /\ scan' = scan /\ best' = best
  BY Zenon DEF Do
<1> HIDE DEF s
<1> DEFINE m == s[1].lock
           o == s[1].op
<1>3. /\ Head(s) = s[1] /\ 1 \in 1..Len(s) /\ s[1] \in Entries
      /\ Len(Tail(s)) = Len(s) - 1 /\ Len(s) \in Nat /\ Tail(s) \in Seq(Entries)
      /\ \A i \in 1..Len(Tail(s)) : Tail(s)[i] = s[i + 1] /\ i + 1 \in 1..Len(s)
  BY <1>1, <1>2, TailOf
<1>4. m \in Locks /\ o \in {"acquire", "release", "sched"}
  BY <1>3 DEF Entries
<1>5. Tail(s) \in OrderlySeqs
  BY <1>1, <1>2, <1>3, TailOrderly DEF OrderlySeqs
<1>6. \A l \in Locks : /\ Frees(s, l) /\ Under(s, l) /\ (o = "acquire" \/ m # l)
                       => Frees(Tail(s), l) /\ Under(Tail(s), l)
  BY <1>1, <1>2, TailKeeps
<1>7. NoAcquire(s) => NoAcquire(Tail(s)) /\ o # "acquire"
  BY <1>3 DEF NoAcquire
<1>8. CASE o = "acquire" /\ owner' = [owner EXCEPT ![m] = c] /\ run' = run
  <2>1. best[c] = 0
    BY <1>1, <1>7, <1>8
  <2>2. Frees(Tail(s), m) /\ Under(Tail(s), m)
    BY <1>1, <1>2, <1>8, TailTakes
  <2> HIDE DEF m, o
  <2>3. owner' \in [Locks -> CPUs \cup {0}]
    BY <1>1, <1>4, <1>8, Zenon
  <2>4. \A l \in Locks : owner'[l] = IF l = m THEN c ELSE owner[l]
    BY <1>1, <1>4, <1>8, Zenon
  <2>5. ASSUME NEW l \in Locks, owner'[l] = c PROVE Holds(Tail(s), best[c], l)
    <3>1. CASE l = m
      BY <2>2, <3>1 DEF Holds
    <3>2. CASE l # m
      <4>1. Holds(s, best[c], l)
        BY <1>1, <2>4, <2>5, <3>2
      <4> QED
        BY <1>6, <1>8, <2>1, <4>1, Zenon DEF Holds
    <3> QED
      BY <3>1, <3>2
  <2>6. \A l \in Locks : owner'[l] = owner[l] \/ owner'[l] = c \/ owner'[l] = 0
    BY <2>4, Zenon
  <2> QED
    <3>1. run' = [run EXCEPT ![c] = run[c]] /\ best' = [best EXCEPT ![c] = best[c]]
          /\ scan' = [scan EXCEPT ![c] = scan[c]]
      BY <1>1, <1>2, <1>8, Zenon
    <3> QED
      BY <1>1, <1>2, <1>5, <2>1, <2>3, <2>5, <2>6, <3>1, OneActs
<1>9. ASSUME o # "acquire", owner' = [owner EXCEPT ![m] = 0], NEW r \in 0..NPROC,
             run' = [run EXCEPT ![c] = r], r = run[c] \/ r = 0
      PROVE  LocksInv'
  <2> HIDE DEF m, o
  <2>3. owner' \in [Locks -> CPUs \cup {0}]
    BY <1>1, <1>4, <1>9, Zenon
  <2>4. \A l \in Locks : owner'[l] = IF l = m THEN 0 ELSE owner[l]
    BY <1>1, <1>4, <1>9, Zenon
  <2>5. ASSUME NEW l \in Locks, owner'[l] = c PROVE Holds(Tail(s), best[c], l)
    <3>1. l # m /\ owner[l] = c
      BY <1>1, <2>4, <2>5, Zenon
    <3>2. Holds(s, best[c], l)
      BY <1>1, <3>1
    <3> QED
      BY <1>6, <3>1, <3>2, Zenon DEF Holds
  <2>6. \A l \in Locks : owner'[l] = owner[l] \/ owner'[l] = c \/ owner'[l] = 0
    BY <2>4, Zenon
  <2>7. best[c] # 0 => r = 0 /\ best[c] < scan[c] /\ NoAcquire(Tail(s))
    BY <1>1, <1>7, <1>9
  <2> QED
    BY <1>1, <1>2, <1>5, <1>9, <2>3, <2>5, <2>6, <2>7, OneActs, ZenonT(60)
<1>10. \/ o = "acquire" /\ owner' = [owner EXCEPT ![m] = c] /\ run' = run
       \/ o = "release" /\ owner' = [owner EXCEPT ![m] = 0] /\ run' = run
       \/ o = "sched" /\ owner' = [owner EXCEPT ![m] = 0] /\ run' = [run EXCEPT ![c] = 0]
  BY <1>3 DEF Do, s
<1>11. CASE o = "release" /\ owner' = [owner EXCEPT ![m] = 0] /\ run' = run
  <2>1. o # "acquire"
    BY <1>11
  <2>2. run' = [run EXCEPT ![c] = run[c]]
    BY <1>1, <1>11, Zenon
  <2> HIDE DEF o, m
  <2> QED
    BY <1>1, <1>9, <1>11, <2>1, <2>2
<1>12. CASE o = "sched" /\ owner' = [owner EXCEPT ![m] = 0] /\ run' = [run EXCEPT ![c] = 0]
  <2>1. o # "acquire"
    BY <1>12
  <2>2. 0 \in 0..NPROC
    BY LocksAssumption
  <2> HIDE DEF o, m
  <2> QED
    BY <1>9, <1>12, <2>1, <2>2
<1> QED
  BY <1>8, <1>10, <1>11, <1>12, Zenon

----------------------------------------------------------------------------
\* A step that begins something with nothing held.
LEMMA BeginHolds ==
    ASSUME LocksInv, NEW c \in CPUs, todo[c] = <<>>, best[c] = 0,
           NEW s \in OrderlySeqs, NEW k \in 0..(NPROC + 1),
           todo' = [todo EXCEPT ![c] = s], scan' = [scan EXCEPT ![c] = k],
           run' = run, owner' = owner, best' = best
    PROVE  LocksInv'
<1>1. /\ run' = [run EXCEPT ![c] = run[c]] /\ best' = [best EXCEPT ![c] = best[c]]
      /\ run[c] \in 0..NPROC /\ best[c] \in 0..NPROC
      /\ owner' \in [Locks -> CPUs \cup {0}]
  BY Same, Zenon
<1>2. \A l \in Locks : owner'[l] # c
  <2>1. \A l \in Locks : owner[l] = c => Holds(todo[c], best[c], l)
    BY Same
  <2>2. \A l \in Locks : ~ Holds(<<>>, best[c], l)
    BY NothingHeld DEF Holds
  <2> QED
    BY <2>1, <2>2
<1>3. \A l \in Locks : owner'[l] = owner[l]
  OBVIOUS
<1>4. run[c] \in 0..NPROC
  BY <1>1
<1> QED
  <2>1. best[c] # 0 => run[c] = 0 /\ best[c] < k /\ NoAcquire(s)
    OBVIOUS
  <2>2. \A l \in Locks : owner'[l] = c => Holds(s, best[c], l)
    BY <1>2
  <2>3. /\ \A l \in Locks : owner'[l] = owner[l] \/ owner'[l] = c \/ owner'[l] = 0
        /\ run' = [run EXCEPT ![c] = run[c]] /\ best' = [best EXCEPT ![c] = best[c]]
        /\ best[c] \in 0..NPROC /\ owner' \in [Locks -> CPUs \cup {0}]
    BY <1>1, <1>3
  <2> QED
    BY <1>4, <2>1, <2>2, <2>3, OneActs, ZenonT(60)

LEMMA EnterHolds ==
    ASSUME LocksInv, NEW c \in CPUs, NEW name \in Calls, NEW q \in ProcIds,
           Calls \cap {"agent_wait", "send_message", "cascade"} = {},
           Enter(c, name, q)
    PROVE  LocksInv'
<1>1. /\ run[c] # 0 /\ todo[c] = <<>>
      /\ todo' = [todo EXCEPT ![c] = Path(name, run[c], q)]
      /\ run' = run /\ owner' = owner /\ scan' = scan /\ best' = best
  BY Zenon DEF Enter
<1>2. run[c] \in 0..NPROC /\ scan[c] \in 0..(NPROC + 1) /\ scan = [scan EXCEPT ![c] = scan[c]]
  BY Same, Zenon
<1>3. best[c] = 0
  BY <1>1, Same, Zenon
<1>4. Path(name, run[c], q) \in OrderlySeqs
  <2>1. run[c] \in ProcIds
    BY <1>1, <1>2, LocksAssumption DEF ProcIds
  <2> QED
    BY <2>1, PathsOrderly
<1> QED
  <2>1. scan' = [scan EXCEPT ![c] = scan[c]]
    BY <1>1, <1>2, Zenon
  <2> QED
    BY <1>1, <1>2, <1>3, <1>4, <2>1, BeginHolds

LEMMA ClockHolds ==
    ASSUME LocksInv, NEW q \in ProcIds, Clock(q)
    PROVE  LocksInv'
<1>1. 1 \in CPUs
  BY LocksAssumption DEF CPUs
<1>2. /\ todo[1] = <<>> /\ best[1] = 0
      /\ todo' = [todo EXCEPT ![1] = ClockPath(run[1], q)]
      /\ run' = run /\ owner' = owner /\ scan' = scan /\ best' = best
  BY Zenon DEF Clock
<1>3. scan[1] \in 0..(NPROC + 1) /\ scan' = [scan EXCEPT ![1] = scan[1]]
  BY <1>1, <1>2, Same, Zenon
<1>4. ClockPath(run[1], q) \in OrderlySeqs
  BY ClockOrderly
<1> QED
  BY <1>1, <1>2, <1>3, <1>4, BeginHolds

LEMMA SchedStartHolds ==
    ASSUME LocksInv, NEW c \in CPUs, SchedStart(c)
    PROVE  LocksInv'
<1>1. /\ run[c] = 0 /\ todo[c] = <<>> /\ scan[c] = 0
      /\ todo' = [todo EXCEPT ![c] = Now] /\ scan' = [scan EXCEPT ![c] = 1]
      /\ run' = run /\ owner' = owner /\ best' = best
  BY Zenon DEF SchedStart
<1>2. best[c] = 0
  <2>1. best[c] # 0 => best[c] < scan[c]
    BY Same, Zenon
  <2>2. best[c] \in 0..NPROC /\ NPROC \in Nat
    BY Same, LocksAssumption, Zenon
  <2> QED
    BY <1>1, <2>1, <2>2
<1>3. Now \in OrderlySeqs
  BY LocksAre, RegionOrderly DEF Now
<1>4. 1 \in 0..(NPROC + 1)
  BY LocksAssumption
<1> QED
  BY <1>1, <1>2, <1>3, <1>4, BeginHolds

LEMMA SchedLookHolds ==
    ASSUME LocksInv, NEW c \in CPUs, SchedLook(c)
    PROVE  LocksInv'
<1> DEFINE p == scan[c]
           b == best[c]
<1>1. /\ run[c] = 0 /\ todo[c] = <<>> /\ p \in ProcIds
      /\ owner' = [owner EXCEPT ![P(p)] = c] /\ scan' = [scan EXCEPT ![c] = p + 1]
      /\ run' = run
      /\ \/ /\ best' = [best EXCEPT ![c] = p] /\ todo' = [todo EXCEPT ![c] = Dropped(c, p)]
         \/ best' = best /\ todo' = [todo EXCEPT ![c] = Rel(P(p))]
  BY Zenon DEF SchedLook
<1>2. /\ run = [run EXCEPT ![c] = run[c]] /\ best = [best EXCEPT ![c] = b]
      /\ run[c] \in 0..NPROC /\ b \in 0..NPROC
      /\ owner \in [Locks -> CPUs \cup {0}]
      /\ b # 0 => b < p
      /\ \A l \in Locks : owner[l] = c => Holds(todo[c], b, l)
  BY Same, Zenon
<1>3. NPROC \in Nat /\ p \in 1..NPROC
  BY <1>1, LocksAssumption DEF ProcIds
<1>4. P(p) \in Locks /\ (b # 0 => P(b) \in Locks)
  BY <1>2, <1>3, LocksAre DEF ProcIds
<1> HIDE DEF p, b
<1>5. \A l \in Locks : owner'[l] = IF l = P(p) THEN c ELSE owner[l]
  BY <1>1, <1>2, <1>4, Zenon
<1>6. /\ \A l \in Locks : owner'[l] = owner[l] \/ owner'[l] = c \/ owner'[l] = 0
      /\ owner' \in [Locks -> CPUs \cup {0}]
  BY <1>1, <1>2, <1>4, <1>5, Zenon
<1>7. \A l \in Locks : owner'[l] = c => l = P(p) \/ (b # 0 /\ l = P(b))
  BY <1>1, <1>2, <1>5, NothingHeld, Zenon DEF Holds
<1>8. p + 1 \in 0..(NPROC + 1) /\ p \in 0..NPROC /\ p < p + 1 /\ (b # 0 => b < p + 1)
      /\ p # 0 /\ run[c] = 0
  BY <1>1, <1>2, <1>3
<1>9. CASE best' = [best EXCEPT ![c] = p] /\ todo' = [todo EXCEPT ![c] = Dropped(c, p)]
  <2> DEFINE s == Dropped(c, p)
  <2>1. /\ s \in OrderlySeqs /\ NoAcquire(s)
        /\ b # 0 => Frees(s, P(b)) /\ Under(s, P(b))
    BY <1>4, NothingHeld, Unhindered, Zenon DEF Dropped, b
  <2> HIDE DEF s
  <2>2. \A l \in Locks : owner'[l] = c => Holds(s, p, l)
    BY <1>7, <1>8, <2>1, Zenon DEF Holds
  <2>3. run' = [run EXCEPT ![c] = run[c]] /\ todo' = [todo EXCEPT ![c] = s]
    BY <1>1, <1>2, <1>9, Zenon DEF s
  <2> QED
    <3>1. /\ p # 0 => run[c] = 0 /\ p < p + 1 /\ NoAcquire(s)
          /\ p \in 0..NPROC /\ p + 1 \in 0..(NPROC + 1) /\ run[c] \in 0..NPROC
      BY <1>2, <1>8, <2>1
    <3>2. best' = [best EXCEPT ![c] = p] /\ scan' = [scan EXCEPT ![c] = p + 1]
      BY <1>1, <1>9
    <3> QED
      BY <1>6, <2>1, <2>2, <2>3, <3>1, <3>2, OneActs, Zenon
<1>10. CASE best' = best /\ todo' = [todo EXCEPT ![c] = Rel(P(p))]
  <2> DEFINE s == Rel(P(p))
  <2>1. s \in OrderlySeqs /\ NoAcquire(s) /\ Frees(s, P(p)) /\ Under(s, P(p))
    BY <1>4, Unhindered
  <2> HIDE DEF s
  <2>2. \A l \in Locks : owner'[l] = c => Holds(s, b, l)
    BY <1>7, <2>1, Zenon DEF Holds
  <2>3. /\ run' = [run EXCEPT ![c] = run[c]] /\ todo' = [todo EXCEPT ![c] = s]
        /\ best' = [best EXCEPT ![c] = b]
    BY <1>1, <1>2, <1>10, Zenon DEF s
  <2> QED
    <3>1. /\ b # 0 => run[c] = 0 /\ b < p + 1 /\ NoAcquire(s)
          /\ b \in 0..NPROC /\ p + 1 \in 0..(NPROC + 1) /\ run[c] \in 0..NPROC
      BY <1>2, <1>8, <2>1
    <3>2. scan' = [scan EXCEPT ![c] = p + 1]
      BY <1>1
    <3> QED
      BY <1>6, <2>1, <2>2, <2>3, <3>1, <3>2, OneActs, Zenon
<1> QED
  BY <1>1, <1>9, <1>10

LEMMA SchedSwitchHolds ==
    ASSUME LocksInv, NEW c \in CPUs, SchedSwitch(c)
    PROVE  LocksInv'
<1> DEFINE b == best[c]
           s == IF b = 0 THEN <<>> ELSE Rel(P(b))
<1>1. /\ todo[c] = <<>> /\ run' = [run EXCEPT ![c] = b] /\ todo' = [todo EXCEPT ![c] = s]
      /\ scan' = [scan EXCEPT ![c] = 0] /\ best' = [best EXCEPT ![c] = 0] /\ owner' = owner
  BY Zenon DEF SchedSwitch
<1>2. /\ b \in 0..NPROC /\ owner \in [Locks -> CPUs \cup {0}]
      /\ \A l \in Locks : owner[l] = c => Holds(todo[c], b, l)
  BY Same, Zenon
<1>3. NPROC \in Nat /\ 0 \in 0..NPROC /\ 0 \in 0..(NPROC + 1)
  BY LocksAssumption
<1>4. b # 0 => P(b) \in Locks
  BY <1>2, <1>3, LocksAre DEF ProcIds
<1>5. s \in OrderlySeqs /\ (b # 0 => Frees(s, P(b)) /\ Under(s, P(b)))
  BY <1>4, NothingHeld, Unhindered, Zenon
<1> HIDE DEF s, b
<1>6. \A l \in Locks : owner'[l] = c => Holds(s, 0, l)
  BY <1>1, <1>2, <1>5, NothingHeld, Zenon DEF Holds
<1>7. \A l \in Locks : owner'[l] = owner[l]
  BY <1>1
<1> QED
  BY <1>1, <1>2, <1>3, <1>5, <1>6, <1>7, OneActs

LEMMA LocksInitHolds == LocksInit => LocksInv
<1> SUFFICES ASSUME LocksInit PROVE LocksInv
  OBVIOUS
<1>1. NPROC \in Nat /\ 0 \in 0..NPROC /\ 0 \in 0..(NPROC + 1)
  BY LocksAssumption
<1>2. <<>> \in OrderlySeqs
  BY NothingHeld
<1>3. /\ run \in [CPUs -> 0..NPROC] /\ best \in [CPUs -> 0..NPROC]
      /\ scan \in [CPUs -> 0..(NPROC + 1)]
      /\ owner \in [Locks -> CPUs \cup {0}] /\ todo \in [CPUs -> OrderlySeqs]
  BY <1>1, <1>2 DEF LocksInit
<1>4. \A c \in CPUs : best[c] = 0 /\ c # 0 /\ \A l \in Locks : owner[l] = 0
  BY DEF LocksInit, CPUs
<1> QED
  BY <1>3, <1>4, Zenon DEF LocksInv, Choosing

----------------------------------------------------------------------------
LEMMA LocksNextHolds ==
    ASSUME LocksInv, Calls \cap {"agent_wait", "send_message", "cascade"} = {},
           [LocksNext]_lockVars
    PROVE  LocksInv'
<1>1. CASE UNCHANGED lockVars
  BY <1>1 DEF LocksInv, Choosing, lockVars, Holds, P
<1>2. ASSUME NEW c \in CPUs, Do(c) \/ SchedStart(c) \/ SchedLook(c) \/ SchedSwitch(c)
      PROVE  LocksInv'
  BY <1>2, DoHolds, SchedStartHolds, SchedLookHolds, SchedSwitchHolds, Zenon
<1>3. ASSUME NEW c \in CPUs, NEW name \in Calls, NEW q \in ProcIds, Enter(c, name, q)
      PROVE  LocksInv'
  BY <1>3, EnterHolds, Zenon
<1>4. ASSUME NEW q \in ProcIds, Clock(q)
      PROVE  LocksInv'
  BY <1>4, ClockHolds, Zenon
<1> QED
  BY <1>1, <1>2, <1>3, <1>4, Zenon DEF LocksNext

\* Of the locks that are waited for and held in S, the last one is held by a
\* CPU of S that waits for one still behind it.
LEMMA OrderPreventsDeadlock ==
    ASSUME LocksInv
    PROVE  NoDeadlock
<1> SUFFICES ASSUME NEW S \in (SUBSET CPUs) \ {{}},
                    \A c \in S : \E l \in Wanted(c) : owner[l] \in S
             PROVE  FALSE
  BY Zenon DEF NoDeadlock
<1> DEFINE W == {l \in Locks : (\E c \in S : l \in Wanted(c)) /\ owner[l] \in S}
           T == {n \in Nat : \E l \in W : n = NPROC + 1 - Rank(l)}
<1>0. NPROC \in Nat /\ \A l \in Locks : Rank(l) \in 0..(NPROC + 1)
  BY LocksAre, LocksAssumption
<1>1. ASSUME NEW c \in S
      PROVE  Wanted(c) \subseteq Locks
  <2>1. todo[c] \in Seq(Entries) /\ c \in CPUs
    BY Same
  <2>2. CASE todo[c] # <<>>
    <3>1. Head(todo[c]).lock \in Locks
      BY <2>1, <2>2, TailOf DEF Entries
    <3> QED
      BY <2>2, <3>1, Zenon DEF Wanted
  <2>3. CASE todo[c] = <<>>
    BY <2>3, LocksAre DEF Wanted
  <2> QED
    BY <2>2, <2>3
<1>2. W # {}
  BY <1>1, Zenon
<1>3. T # {} /\ T \in SUBSET Nat
  <2>1. PICK l \in W : TRUE
    BY <1>2
  <2>2. NPROC + 1 - Rank(l) \in Nat
    BY <1>0, <2>1
  <2> QED
    BY <2>1, <2>2
<1>4. PICK n \in T : \A k \in T : n <= k
  <2> HIDE DEF T
  <2> QED
    BY <1>3, MinNat
<1>5. PICK l \in W : n = NPROC + 1 - Rank(l)
  BY Zenon
<1> DEFINE d == owner[l]
<1>6. l \in Locks /\ d \in S /\ d \in CPUs /\ d # 0
  <2>1. l \in Locks /\ d \in S
    BY Zenon
  <2>2. \A k \in CPUs : k # 0
    BY DEF CPUs
  <2> QED
    BY <2>1, <2>2, Zenon
<1>7. PICK m \in Wanted(d) : owner[m] \in S
  BY <1>6, Zenon
<1>8. m \in W
  BY <1>1, <1>6, <1>7, Zenon
<1>9. Rank(m) <= Rank(l)
  <2>1. Rank(m) \in 0..(NPROC + 1) /\ Rank(l) \in 0..(NPROC + 1)
    BY <1>0, <1>6, <1>8
  <2>2. NPROC + 1 - Rank(m) \in T
    BY <1>0, <1>8, <2>1
  <2>3. n <= NPROC + 1 - Rank(m)
    BY <1>4, <2>2
  <2> QED
    BY <1>0, <1>5, <2>1, <2>3
<1> HIDE DEF W, T
<1>10. /\ todo[d] \in Seq(Entries) /\ Holds(todo[d], best[d], l)
       /\ best[d] \in 0..NPROC /\ scan[d] \in 0..(NPROC + 1)
       /\ best[d] # 0 => run[d] = 0 /\ best[d] < scan[d] /\ NoAcquire(todo[d])
  BY <1>6, Same, Zenon
<1> HIDE DEF d
<1>11. CASE todo[d] # <<>>
  <2>1. /\ Head(todo[d]) = todo[d][1] /\ 1 \in 1..Len(todo[d])
    BY <1>10, <1>11, TailOf
  <2>2. todo[d][1].op = "acquire" /\ m = todo[d][1].lock
    BY <1>7, <1>11, <2>1 DEF Wanted
  <2>3. best[d] = 0
    BY <1>10, <2>1, <2>2 DEF NoAcquire
  <2>4. Under(todo[d], l)
    BY <1>10, <2>3 DEF Holds
  <2>5. Rank(l) < Rank(m)
    BY <2>1, <2>2, <2>4 DEF Under
  <2>6. Rank(m) \in Int /\ Rank(l) \in Int
    BY <1>0, <1>1, <1>6, <1>7
  <2> QED
    BY <1>9, <2>5, <2>6
<1>12. CASE todo[d] = <<>>
  <2>1. scan[d] \in ProcIds /\ m = P(scan[d])
    BY <1>7, <1>12, Zenon DEF Wanted
  <2>2. best[d] # 0 /\ l = P(best[d]) /\ best[d] < scan[d]
    BY <1>10, <1>12, NothingHeld DEF Holds
  <2>3. best[d] \in ProcIds
    BY <1>0, <1>10, <2>2 DEF ProcIds
  <2>4. Rank(l) = best[d] /\ Rank(m) = scan[d]
    BY <2>1, <2>2, <2>3, LocksAre
  <2> QED
    BY <1>9, <1>10, <2>2, <2>4
<1> QED
  BY <1>11, <1>12

\* No CPUs wait for each other's locks, on any number of CPUs and with any
\* number of processes, as long as no process takes one of the three paths that
\* read the clock under p->lock or agent_global.lock: the locks are taken in
\* one order, tickslock, agent_runtime_lock and wait_lock before the processes,
\* the processes as they stand in proc[], agent_global.lock last.
THEOREM LocksAreOrdered ==
    ASSUME Calls \cap {"agent_wait", "send_message", "cascade"} = {}
    PROVE  LocksSpec => []NoDeadlock
<1>1. LocksInv /\ [LocksNext]_lockVars => LocksInv'
  BY LocksNextHolds
<1>2. LocksInv => NoDeadlock
  BY OrderPreventsDeadlock
<1> QED
  BY <1>1, <1>2, LocksInitHolds, PTL DEF LocksSpec
=============================================================================
