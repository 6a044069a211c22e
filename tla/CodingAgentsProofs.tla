------------------------ MODULE CodingAgentsProofs ------------------------
(***************************************************************************)
(* Agents at work on files: the leases they edit under, and the CodeLab    *)
(* programs, which do without one.                                         *)
(*                                                                         *)
(* Leases are exclusive, for any table, any number of processes and any    *)
(* delay between the reading of the clock and the table's lock.  The       *)
(* argument: lease_begin drops what has expired and looks for the inode in *)
(* one region of agent_global.lock and with one value of the clock, so     *)
(* what it does not drop it finds; a lease that is dropped is gone for its *)
(* owner, whose id is never given again.                                   *)
(*                                                                         *)
(* The CodeLab programs do not stumble and their verdicts are true, for    *)
(* any size of the mailboxes, any agents that may be killed, and forks     *)
(* that fail or not.  The argument: the planner tells each worker its part *)
(* once, and only when the one before it has said that it is ready; until  *)
(* the last of them, the retriever, is told, nothing happens to the file;  *)
(* from there on each worker is started by the one before it in the chain  *)
(* retriever, patch, test, reviewer.  The request of the test is answered  *)
(* once, and the planner has heard the answer before the reviewer has.     *)
(***************************************************************************)
EXTENDS Leases, CodeLab, TLAPS

LeaseInv == TypeOK /\ CallInv /\ HolderIsLast /\ OneLease

\* The leases that are left when the expired ones are dropped.
LEMMA UnexpiredLeft ==
    ASSUME TypeOK, NEW t
    PROVE  /\ Unexpired(t) \in [Slots -> {Free} \cup Held]
           /\ \A i \in Slots : Unexpired(t)[i] \in {lease[i], Free}
           /\ \A i \in Slots : \/ Unexpired(t)[i] = lease[i]
                               \/ Used(i) /\ lease[i].expiry <= t
<1>1. ASSUME NEW i \in Slots
      PROVE  /\ Unexpired(t)[i] \in {lease[i], Free}
             /\ \/ Unexpired(t)[i] = lease[i]
                \/ Used(i) /\ lease[i].expiry <= t
  <2>1. Unexpired(t)[i] = IF Used(i) /\ lease[i].expiry <= t THEN Free ELSE lease[i]
    BY Zenon DEF Unexpired
  <2>2. CASE Used(i) /\ lease[i].expiry <= t
    BY <2>1, <2>2
  <2>3. CASE ~(Used(i) /\ lease[i].expiry <= t)
    BY <2>1, <2>3
  <2> QED
    BY <2>2, <2>3
<1>2. \A i \in Slots : lease[i] \in {Free} \cup Held
  BY DEF TypeOK
<1>3. Unexpired(t) = [i \in Slots |-> Unexpired(t)[i]]
  BY DEF Unexpired
<1> QED
  BY <1>1, <1>2, <1>3

\* The expiry of a lease is a tick.
LEMMA UsedExpiry ==
    ASSUME TypeOK, NEW i \in Slots, Used(i)
    PROVE  lease[i].expiry \in Nat
BY DEF TypeOK, Used, Free, Held

\* A table of leases some of which are freed is as good as before.
LEMMA Freed ==
    ASSUME LeaseInv, UNCHANGED granted,
           \A i \in Slots : lease'[i] \in {lease[i], Free}
    PROVE  HolderIsLast' /\ OneLease'
BY DEF LeaseInv, HolderIsLast, OneLease, Used, Free

\* lease_begin grants a lease.
LEMMA Granted ==
    ASSUME LeaseInv, TypeOK', NEW p \in Procs, BeginGrant(p)
    PROVE  HolderIsLast' /\ OneLease'
<1> DEFINE left == Unexpired(read[p])
<1>1. PICK i \in Slots : left[i].id = 0 /\ lease' = [left EXCEPT ![i] = NewLease(p)]
  BY DEF BeginGrant
<1>2. left \in [Slots -> {Free} \cup Held]
      /\ \A j \in Slots : left[j] \in {lease[j], Free}
  BY UnexpiredLeft DEF LeaseInv
<1>3. \A j \in Slots : ~(left[j].id # 0 /\ left[j].file = arg[p])
  BY DEF BeginGrant, Taken
<1>4. arg[p] \in Files
  BY DEF LeaseInv, CallInv, BeginGrant
<1> HIDE DEF left
<1>5. lease'[i] = NewLease(p) /\ \A j \in Slots \ {i} : lease'[j] = left[j]
  BY <1>1, <1>2
<1>6. NewLease(p).id = nextId + 1 /\ NewLease(p).file = arg[p]
  BY DEF NewLease
<1>7. granted' = [granted EXCEPT ![arg[p]] = nextId + 1]
  BY DEF BeginGrant
<1>8. \A j \in Slots \ {i} :
        lease'[j].id # 0 => /\ lease'[j] = lease[j] /\ lease'[j].file # arg[p]
                            /\ lease[j].file \in Files
  BY <1>2, <1>3, <1>5 DEF Free, Held, LeaseInv, TypeOK
<1>9. HolderIsLast'
  <2> SUFFICES ASSUME NEW j \in Slots, lease'[j].id # 0
               PROVE  granted'[lease'[j].file] = lease'[j].id
    BY DEF HolderIsLast, Used
  <2>1. CASE j = i
    BY <2>1, <1>4, <1>5, <1>6, <1>7 DEF LeaseInv, TypeOK
  <2>2. CASE j # i
    BY <2>2, <1>7, <1>8 DEF LeaseInv, TypeOK, HolderIsLast, Used
  <2> QED
    BY <2>1, <2>2
<1>10. OneLease'
  <2> SUFFICES ASSUME NEW j \in Slots, NEW k \in Slots, lease'[j].id # 0,
                      lease'[k].id # 0, lease'[j].file = lease'[k].file
               PROVE  j = k
    BY DEF OneLease, Used
  <2>1. CASE j = i \/ k = i
    BY <2>1, <1>5, <1>6, <1>8
  <2>2. CASE j # i /\ k # i
    BY <2>2, <1>8 DEF LeaseInv, OneLease, Used
  <2> QED
    BY <2>1, <2>2
<1> QED
  BY <1>9, <1>10

\* Every step keeps the types.
LEMMA TypeStep ==
    ASSUME TypeOK, CallInv, [Next]_vars
    PROVE  TypeOK'
<1> USE DEF TypeOK, clockVars, callVars, tableVars
<1>1. ASSUME NEW p \in Procs, NEW f \in Files, CallBegin(p, f)
      PROVE  TypeOK'
  BY <1>1 DEF CallBegin, Call
<1>2. ASSUME NEW p \in Procs, NEW f \in Files, Patch(p, f)
      PROVE  TypeOK'
  BY <1>2 DEF Patch
<1>3. ASSUME NEW p \in Procs, NEW id \in 1..MaxId, CallAbort(p, id)
      PROVE  TypeOK'
  BY <1>3, LeaseAssumption DEF CallAbort, Call
<1>4. ASSUME NEW p \in Procs, NEW id \in 1..MaxId, NEW e \in Expected, CallCommit(p, id, e)
      PROVE  TypeOK'
  BY <1>4, LeaseAssumption DEF CallCommit, Call
<1>5. ASSUME NEW p \in Procs, BeginGrant(p)
      PROVE  TypeOK'
  <2> DEFINE left == Unexpired(read[p])
  <2>1. left \in [Slots -> {Free} \cup Held]
    BY UnexpiredLeft
  <2>2. NewLease(p) \in Held
    BY <1>5, LeaseAssumption DEF NewLease, CallInv, BeginGrant, Held
  <2>3. \E i \in Slots : lease' = [left EXCEPT ![i] = NewLease(p)]
    BY <1>5 DEF BeginGrant
  <2> HIDE DEF left
  <2>4. lease' \in [Slots -> {Free} \cup Held]
    BY <2>1, <2>2, <2>3
  <2>5. granted' \in [Files -> Nat] /\ nextId' \in Nat
    BY <1>5 DEF BeginGrant, CallInv
  <2>6. /\ pc' \in [Procs -> {"user", "begin", "commit", "abort", "exit", "gone"}]
        /\ ret' \in [Procs -> {"NONE", "OK", "BUSY", "NO_SPACE", "PERMISSION",
                               "BAD_PARAM"}]
        /\ UNCHANGED <<ticks, reaping, version>>
    BY <1>5 DEF BeginGrant, Return
  <2>7. /\ arg' \in [Procs -> Nat \cup Files] /\ expected' \in [Procs -> Nat]
        /\ read' \in [Procs -> Nat]
    BY <1>5 DEF BeginGrant, Return
  <2> QED
    BY <2>4, <2>5, <2>6, <2>7
<1>6. ASSUME NEW p \in Procs, BeginFail(p)
      PROVE  TypeOK'
  BY <1>6, UnexpiredLeft DEF BeginFail, Return
<1>7. ASSUME NEW p \in Procs, Commit(p)
      PROVE  TypeOK'
  BY <1>7 DEF Commit, Return
<1>8. ASSUME NEW p \in Procs, Abort(p)
      PROVE  TypeOK'
  BY <1>8 DEF Abort, Return
<1>9. ASSUME NEW p \in Procs, Exit(p)
      PROVE  TypeOK'
  BY <1>9 DEF Exit
<1>10. ASSUME NEW p \in Procs, ReapPid(p)
      PROVE  TypeOK'
  BY <1>10 DEF ReapPid
<1>11. ASSUME Tick
      PROVE  TypeOK'
  BY <1>11 DEF Tick
<1>12. ASSUME ReapExpired
      PROVE  TypeOK'
  BY <1>12, UnexpiredLeft DEF ReapExpired
<1>13. ASSUME UNCHANGED vars
      PROVE  TypeOK'
  BY <1>13 DEF vars
<1> HIDE DEF TypeOK, clockVars, callVars, tableVars
<1> QED
  BY <1>1, <1>2, <1>3, <1>4, <1>5, <1>6, <1>7, <1>8, <1>9, <1>10, <1>11, <1>12, <1>13 DEF Next

\* Every step keeps what is known of the calls.
LEMMA CallStep ==
    ASSUME TypeOK, CallInv, [Next]_vars
    PROVE  CallInv'
<1> USE DEF TypeOK, CallInv, clockVars, callVars, tableVars
<1>1. ASSUME NEW p \in Procs, NEW f \in Files, CallBegin(p, f)
      PROVE  CallInv'
  BY <1>1 DEF CallBegin, Call
<1>2. ASSUME NEW p \in Procs, NEW f \in Files, Patch(p, f)
      PROVE  CallInv'
  BY <1>2 DEF Patch
<1>3. ASSUME NEW p \in Procs, NEW id \in 1..MaxId, CallAbort(p, id)
      PROVE  CallInv'
  BY <1>3 DEF CallAbort, Call
<1>4. ASSUME NEW p \in Procs, NEW id \in 1..MaxId, NEW e \in Expected, CallCommit(p, id, e)
      PROVE  CallInv'
  BY <1>4 DEF CallCommit, Call
<1>5. ASSUME NEW p \in Procs, BeginGrant(p)
      PROVE  CallInv'
  BY <1>5 DEF BeginGrant, Return
<1>6. ASSUME NEW p \in Procs, BeginFail(p)
      PROVE  CallInv'
  BY <1>6 DEF BeginFail, Return
<1>7. ASSUME NEW p \in Procs, Commit(p)
      PROVE  CallInv'
  BY <1>7 DEF Commit, Return
<1>8. ASSUME NEW p \in Procs, Abort(p)
      PROVE  CallInv'
  BY <1>8 DEF Abort, Return
<1>9. ASSUME NEW p \in Procs, Exit(p)
      PROVE  CallInv'
  BY <1>9 DEF Exit
<1>10. ASSUME NEW p \in Procs, ReapPid(p)
      PROVE  CallInv'
  BY <1>10 DEF ReapPid
<1>11. ASSUME Tick
      PROVE  CallInv'
  BY <1>11 DEF Tick
<1>12. ASSUME ReapExpired
      PROVE  CallInv'
  BY <1>12 DEF ReapExpired
<1>13. ASSUME UNCHANGED vars
      PROVE  CallInv'
  BY <1>13 DEF vars
<1> HIDE DEF TypeOK, CallInv, clockVars, callVars, tableVars
<1> QED
  BY <1>1, <1>2, <1>3, <1>4, <1>5, <1>6, <1>7, <1>8, <1>9, <1>10, <1>11, <1>12, <1>13 DEF Next

\* Every step keeps leases exclusive.
LEMMA HolderStep ==
    ASSUME LeaseInv, TypeOK', [Next]_vars
    PROVE  HolderIsLast' /\ OneLease'
<1> USE DEF clockVars, callVars, tableVars
<1>1. ASSUME NEW p \in Procs, NEW f \in Files, CallBegin(p, f)
      PROVE  HolderIsLast' /\ OneLease'
  <2>1. UNCHANGED <<lease, granted>>
    BY <1>1 DEF CallBegin, Call
  <2> QED
    BY <2>1 DEF LeaseInv, HolderIsLast, OneLease, Used
<1>2. ASSUME NEW p \in Procs, NEW f \in Files, Patch(p, f)
      PROVE  HolderIsLast' /\ OneLease'
  <2>1. UNCHANGED <<lease, granted>>
    BY <1>2 DEF Patch
  <2> QED
    BY <2>1 DEF LeaseInv, HolderIsLast, OneLease, Used
<1>3. ASSUME NEW p \in Procs, NEW id \in 1..MaxId, CallAbort(p, id)
      PROVE  HolderIsLast' /\ OneLease'
  <2>1. UNCHANGED <<lease, granted>>
    BY <1>3 DEF CallAbort, Call
  <2> QED
    BY <2>1 DEF LeaseInv, HolderIsLast, OneLease, Used
<1>4. ASSUME NEW p \in Procs, NEW id \in 1..MaxId, NEW e \in Expected, CallCommit(p, id, e)
      PROVE  HolderIsLast' /\ OneLease'
  <2>1. UNCHANGED <<lease, granted>>
    BY <1>4 DEF CallCommit, Call
  <2> QED
    BY <2>1 DEF LeaseInv, HolderIsLast, OneLease, Used
<1>5. ASSUME NEW p \in Procs, BeginGrant(p)
      PROVE  HolderIsLast' /\ OneLease'
  BY <1>5, Granted
<1>6. ASSUME NEW p \in Procs, BeginFail(p)
      PROVE  HolderIsLast' /\ OneLease'
  <2>1. UNCHANGED granted /\ \A i \in Slots : lease'[i] \in {lease[i], Free}
    BY <1>6, UnexpiredLeft DEF BeginFail, Return, LeaseInv, TypeOK
  <2> QED
    BY <2>1, Freed
<1>7. ASSUME NEW p \in Procs, Commit(p)
      PROVE  HolderIsLast' /\ OneLease'
  <2>1. UNCHANGED granted /\ \A i \in Slots : lease'[i] \in {lease[i], Free}
    BY <1>7 DEF Commit, Return, LeaseInv, TypeOK
  <2> QED
    BY <2>1, Freed
<1>8. ASSUME NEW p \in Procs, Abort(p)
      PROVE  HolderIsLast' /\ OneLease'
  <2>1. UNCHANGED granted /\ \A i \in Slots : lease'[i] \in {lease[i], Free}
    BY <1>8 DEF Abort, Return, LeaseInv, TypeOK
  <2> QED
    BY <2>1, Freed
<1>9. ASSUME NEW p \in Procs, Exit(p)
      PROVE  HolderIsLast' /\ OneLease'
  <2>1. UNCHANGED <<lease, granted>>
    BY <1>9 DEF Exit
  <2> QED
    BY <2>1 DEF LeaseInv, HolderIsLast, OneLease, Used
<1>10. ASSUME NEW p \in Procs, ReapPid(p)
      PROVE  HolderIsLast' /\ OneLease'
  <2>1. UNCHANGED granted /\ \A i \in Slots : lease'[i] \in {lease[i], Free}
    BY <1>10 DEF ReapPid, LeaseInv, TypeOK
  <2> QED
    BY <2>1, Freed
<1>11. ASSUME Tick
      PROVE  HolderIsLast' /\ OneLease'
  <2>1. UNCHANGED <<lease, granted>>
    BY <1>11 DEF Tick
  <2> QED
    BY <2>1 DEF LeaseInv, HolderIsLast, OneLease, Used
<1>12. ASSUME ReapExpired
      PROVE  HolderIsLast' /\ OneLease'
  <2>1. UNCHANGED granted /\ \A i \in Slots : lease'[i] \in {lease[i], Free}
    BY <1>12, UnexpiredLeft DEF ReapExpired, LeaseInv, TypeOK
  <2> QED
    BY <2>1, Freed
<1>13. ASSUME UNCHANGED vars
      PROVE  HolderIsLast' /\ OneLease'
  BY <1>13 DEF vars, LeaseInv, HolderIsLast, OneLease, Used
<1> HIDE DEF clockVars, callVars, tableVars
<1> QED
  BY <1>1, <1>2, <1>3, <1>4, <1>5, <1>6, <1>7, <1>8, <1>9, <1>10, <1>11, <1>12, <1>13 DEF Next

\* A step ends a lease when its time is over or its owner says so.
LEMMA EndStep ==
    ASSUME LeaseInv, [Next]_vars
    PROVE  \A i \in Slots :
             Used(i) /\ lease'[i] # lease[i] =>
               \/ lease[i].expiry <= ticks
               \/ /\ pc[lease[i].owner] \in {"commit", "abort", "exit"}
                  /\ pc'[lease[i].owner] # pc[lease[i].owner]
<1> USE DEF Used, TypeOK, LeaseInv, clockVars, callVars, tableVars
<1>1. ASSUME NEW p \in Procs, NEW f \in Files, CallBegin(p, f)
      PROVE  \A i \in Slots :
             Used(i) /\ lease'[i] # lease[i] =>
               \/ lease[i].expiry <= ticks
               \/ /\ pc[lease[i].owner] \in {"commit", "abort", "exit"}
                  /\ pc'[lease[i].owner] # pc[lease[i].owner]
  BY <1>1 DEF CallBegin, Call
<1>2. ASSUME NEW p \in Procs, NEW f \in Files, Patch(p, f)
      PROVE  \A i \in Slots :
             Used(i) /\ lease'[i] # lease[i] =>
               \/ lease[i].expiry <= ticks
               \/ /\ pc[lease[i].owner] \in {"commit", "abort", "exit"}
                  /\ pc'[lease[i].owner] # pc[lease[i].owner]
  BY <1>2 DEF Patch
<1>3. ASSUME NEW p \in Procs, NEW id \in 1..MaxId, CallAbort(p, id)
      PROVE  \A i \in Slots :
             Used(i) /\ lease'[i] # lease[i] =>
               \/ lease[i].expiry <= ticks
               \/ /\ pc[lease[i].owner] \in {"commit", "abort", "exit"}
                  /\ pc'[lease[i].owner] # pc[lease[i].owner]
  BY <1>3 DEF CallAbort, Call
<1>4. ASSUME NEW p \in Procs, NEW id \in 1..MaxId, NEW e \in Expected, CallCommit(p, id, e)
      PROVE  \A i \in Slots :
             Used(i) /\ lease'[i] # lease[i] =>
               \/ lease[i].expiry <= ticks
               \/ /\ pc[lease[i].owner] \in {"commit", "abort", "exit"}
                  /\ pc'[lease[i].owner] # pc[lease[i].owner]
  BY <1>4 DEF CallCommit, Call
<1>5. ASSUME NEW p \in Procs, BeginGrant(p)
      PROVE  \A i \in Slots :
             Used(i) /\ lease'[i] # lease[i] =>
               \/ lease[i].expiry <= ticks
               \/ /\ pc[lease[i].owner] \in {"commit", "abort", "exit"}
                  /\ pc'[lease[i].owner] # pc[lease[i].owner]
  <2>1. PICK j \in Slots : /\ Unexpired(read[p])[j].id = 0
                           /\ lease' = [Unexpired(read[p]) EXCEPT ![j] = NewLease(p)]
    BY <1>5 DEF BeginGrant
  <2>2. read[p] <= ticks
    BY DEF CallInv
  <2>3. \A i \in Slots : Used(i) /\ lease'[i] # lease[i] => lease[i].expiry <= read[p]
    BY <2>1, UnexpiredLeft DEF Free
  <2> QED
    BY <2>2, <2>3, UsedExpiry
<1>6. ASSUME NEW p \in Procs, BeginFail(p)
      PROVE  \A i \in Slots :
             Used(i) /\ lease'[i] # lease[i] =>
               \/ lease[i].expiry <= ticks
               \/ /\ pc[lease[i].owner] \in {"commit", "abort", "exit"}
                  /\ pc'[lease[i].owner] # pc[lease[i].owner]
  <2>1. read[p] <= ticks
    BY DEF CallInv
  <2>2. \A i \in Slots : Used(i) /\ lease'[i] # lease[i] => lease[i].expiry <= read[p]
    BY <1>6, UnexpiredLeft DEF BeginFail
  <2> QED
    BY <2>1, <2>2, UsedExpiry
<1>7. ASSUME NEW p \in Procs, Commit(p)
      PROVE  \A i \in Slots :
             Used(i) /\ lease'[i] # lease[i] =>
               \/ lease[i].expiry <= ticks
               \/ /\ pc[lease[i].owner] \in {"commit", "abort", "exit"}
                  /\ pc'[lease[i].owner] # pc[lease[i].owner]
  BY <1>7 DEF Commit, Return, Owns
<1>8. ASSUME NEW p \in Procs, Abort(p)
      PROVE  \A i \in Slots :
             Used(i) /\ lease'[i] # lease[i] =>
               \/ lease[i].expiry <= ticks
               \/ /\ pc[lease[i].owner] \in {"commit", "abort", "exit"}
                  /\ pc'[lease[i].owner] # pc[lease[i].owner]
  BY <1>8 DEF Abort, Return, Owns
<1>9. ASSUME NEW p \in Procs, Exit(p)
      PROVE  \A i \in Slots :
             Used(i) /\ lease'[i] # lease[i] =>
               \/ lease[i].expiry <= ticks
               \/ /\ pc[lease[i].owner] \in {"commit", "abort", "exit"}
                  /\ pc'[lease[i].owner] # pc[lease[i].owner]
  BY <1>9 DEF Exit
<1>10. ASSUME NEW p \in Procs, ReapPid(p)
      PROVE  \A i \in Slots :
             Used(i) /\ lease'[i] # lease[i] =>
               \/ lease[i].expiry <= ticks
               \/ /\ pc[lease[i].owner] \in {"commit", "abort", "exit"}
                  /\ pc'[lease[i].owner] # pc[lease[i].owner]
  BY <1>10 DEF ReapPid
<1>11. ASSUME Tick
      PROVE  \A i \in Slots :
             Used(i) /\ lease'[i] # lease[i] =>
               \/ lease[i].expiry <= ticks
               \/ /\ pc[lease[i].owner] \in {"commit", "abort", "exit"}
                  /\ pc'[lease[i].owner] # pc[lease[i].owner]
  BY <1>11 DEF Tick
<1>12. ASSUME ReapExpired
      PROVE  \A i \in Slots :
             Used(i) /\ lease'[i] # lease[i] =>
               \/ lease[i].expiry <= ticks
               \/ /\ pc[lease[i].owner] \in {"commit", "abort", "exit"}
                  /\ pc'[lease[i].owner] # pc[lease[i].owner]
  BY <1>12, UnexpiredLeft DEF ReapExpired
<1>13. ASSUME UNCHANGED vars
      PROVE  \A i \in Slots :
             Used(i) /\ lease'[i] # lease[i] =>
               \/ lease[i].expiry <= ticks
               \/ /\ pc[lease[i].owner] \in {"commit", "abort", "exit"}
                  /\ pc'[lease[i].owner] # pc[lease[i].owner]
  BY <1>13 DEF vars
<1> HIDE DEF Used, TypeOK, LeaseInv, clockVars, callVars, tableVars
<1> QED
  BY <1>1, <1>2, <1>3, <1>4, <1>5, <1>6, <1>7, <1>8, <1>9, <1>10, <1>11, <1>12, <1>13 DEF Next

-----------------------------------------------------------------------------
(* The theorems.                                                           *)

\* The invariant holds in every reachable state.
LEMMA LeaseInductive == Spec => []LeaseInv
<1>1. Init => LeaseInv
  <2>1. Init => TypeOK
    <3> SUFFICES ASSUME Init
                 PROVE  TypeOK
      OBVIOUS
    <3>1. lease \in [Slots -> {Free} \cup Held]
      BY DEF Init
    <3>2. version \in [Files -> Nat] /\ granted \in [Files -> Nat]
      BY DEF Init
    <3> QED
      BY <3>1, <3>2 DEF Init, TypeOK
  <2>2. Init => CallInv
    BY DEF Init, CallInv
  <2>3. Init => HolderIsLast /\ OneLease
    BY DEF Init, HolderIsLast, OneLease, Used, Free
  <2> QED
    BY <2>1, <2>2, <2>3 DEF LeaseInv
<1>2. LeaseInv /\ [Next]_vars => LeaseInv'
  BY TypeStep, CallStep, HolderStep DEF LeaseInv
<1> QED
  BY <1>1, <1>2, PTL DEF Spec

\* Types of the lease table and of the calls.
THEOREM LeaseTypes == Spec => []TypeOK
BY LeaseInductive, PTL DEF LeaseInv

\* Two agents never hold leases for the same file.
THEOREM LeasesExclusive == Spec => []OneLease
BY LeaseInductive, PTL DEF LeaseInv

\* While a lease lasts nobody else has been granted the file.
THEOREM HolderUndisturbed == Spec => []HolderIsLast
BY LeaseInductive, PTL DEF LeaseInv

\* agent_proc_lease_commit and abort end leases of the caller only.
THEOREM OnlyOwnersEnd == Spec => OwnerEnds
BY LeaseInductive, EndStep, PTL DEF Spec, OwnerEnds

----------------------------------------------------------------------------
(* The CodeLab programs: the inductive invariant.                             *)

(* The letters that lie in a mailbox, their order left out. *)
In(m, a) == \E i \in 1 .. Len(mail[a]) : mail[a][i] = m

Letters == {"assignment", "replace", "validate_context", "file patched", "note", "cache_probe",
            "tool ready", "patch ready", "test ready", "watching", "context valid",
            "passed", "gone", "approve", "reject"}

LabTypes ==
    /\ DOMAIN doing = Agents
    /\ mail \in [Agents -> Seq(Letters)]
    /\ killed \subseteq Agents
    /\ forks \in [tried : 0 .. Len(Crew), ok : BOOLEAN]
    /\ file \in [original : {"bug", "fixed"}, content : {"bug", "fixed"}, version : Nat]
    /\ watch \in [on : BOOLEAN, filemod : BOOLEAN]
    /\ service \in {"none", "up", "down"}
    /\ request \in {"none", "queued", "passed", "gone"}
    /\ tested \in {"nothing", "bug", "fixed"}
    /\ seen \in Nat
    /\ has \subseteq {"file", "test", "passed"}
    /\ got \subseteq {"valid", "found", "passed", "review", "approve"}
    /\ verdict \in {"none", "PASS", "FAIL"}

Early == {"unborn", "boot", "assignment"}
Gone == {"exited", "failed", "reaped"}

\* Where the planner is before it has told a worker its part.
ToPatch == {"heartbeat", "spawn", "tool?", "to patch"}
ToTest == ToPatch \cup {"patch?", "to test"}
ToReviewer == ToTest \cup {"test?", "to reviewer"}
Dispatching == ToReviewer \cup {"reviewer?", "to retriever"}
Collecting == {"collect", "children"}
\* Who was born, and who may still act.
CrewInv ==
    /\ \A i \in 1 .. Len(Crew) : i > forks.tried => doing[Crew[i]] = "unborn"
    /\ doing["planner"] = "heartbeat" => forks.tried = 0
    /\ doing["planner"] \in Over =>
         \A w \in Workers : Living(w) => w \in killed
    /\ doing["planner"] \in Dispatching \cup Collecting \cup Over

\* Each worker is told its part once, and by nobody else.
Once(m, a) ==
    \A i, j \in 1 .. Len(mail[a]) : mail[a][i] = m /\ mail[a][j] = m => i = j
Part(w, before) ==
    /\ doing["planner"] \in before => ~ In("assignment", w) /\ doing[w] \in Early \cup {"failed"}
    /\ doing[w] \notin Early \cup Gone => ~ In("assignment", w)
    /\ doing[w] \in Early => Once("assignment", w)
PartInv ==
    /\ Part("patch", ToPatch) /\ Part("test", ToTest)
    /\ Part("reviewer", ToReviewer) /\ Part("retriever", Dispatching)
\* The planner goes on when a worker has said that it is ready.
ReadyInv ==
    /\ In("patch ready", "planner") \/ doing["planner"] \in Dispatching \ (ToPatch \cup {"patch?"})
         \/ doing["planner"] \in Collecting => doing["patch"] \notin Early
    /\ In("test ready", "planner") \/ doing["planner"] \in Dispatching \ (ToTest \cup {"test?"})
         \/ doing["planner"] \in Collecting => doing["test"] \notin Early
    /\ In("watching", "planner") \/ doing["planner"] \in {"to retriever"} \cup Collecting
         => doing["reviewer"] \notin Early
    /\ In("tool ready", "planner") \/ doing["tool"] = "ready"
         \/ doing["planner"] \in (Dispatching \ {"heartbeat", "spawn", "tool?"}) \cup Collecting
         => service # "none"

\* Who gets what.
LetterInv ==
    /\ \A m : In(m, "patch") => m \in {"assignment", "replace"}
    /\ \A m : In(m, "test") => m \in {"assignment", "file patched"}
    /\ \A m : In(m, "retriever") => m \in {"assignment", "validate_context"}
    /\ \A m : In(m, "reviewer") => m \in {"assignment", "cache_probe", "passed", "gone"}
    /\ \A m : In(m, "reviewer") /\ m \in {"passed", "gone"} => m = request
    /\ \A m : ~ In(m, "tool")

\* Nothing happens to the file before the retriever is told its part.
QuietInv ==
    doing["planner"] \in Dispatching =>
      /\ \A m : ~ In(m, "retriever")
      /\ ~ In("replace", "patch") /\ doing["patch"] \in Early \cup {"ready", "request", "failed"}
      /\ ~ In("file patched", "test") /\ doing["test"] \in Early \cup {"ready", "wait", "failed"}
      /\ doing["tool"] \in {"unborn", "boot", "register", "ready", "recv", "failed"}
      /\ doing["reviewer"] \in Early \cup {"watch", "tell watching", "loop", "failed"}
      /\ \A m : In(m, "planner") => m \in {"tool ready", "patch ready", "test ready", "watching"}
      /\ ~ In("cache_probe", "reviewer")
      /\ request = "none" /\ has = {} /\ got = {} /\ ~ watch.filemod

\* The file is fixed once, the test runs after that.
TestInv ==
    /\ doing["patch"] \in {"changed", "notify", "tell retriever", "tell test", "tell planner"}
       \/ In("file patched", "test")
       \/ doing["test"] \in {"call", "answer", "tell reviewer"} \/ request # "none"
         => file.content = "fixed"
    /\ doing["test"] \in Early \cup {"ready", "wait", "call"} => request = "none"
    /\ doing["test"] = "tell reviewer" => request \in Answers
    /\ tested # "nothing" => tested = "fixed" /\ request = "passed"
    /\ request = "passed" => tested = "fixed"
    /\ request = "gone" => "tool" \in killed
    /\ service = "down" => "tool" \in killed \/ tested # "nothing"
    /\ doing["tool"] = "leave" => tested # "nothing"

\* The planner hears of the test before the reviewer does.
PassTold == "passed" \in got \/ In("passed", "planner")
PassedFirst ==
    \A j \in 1 .. Len(mail["planner"]) : mail["planner"][j] = "approve" =>
      "passed" \in got \/ \E i \in 1 .. (j - 1) : mail["planner"][i] = "passed"
ReviewInv ==
    /\ In("passed", "planner") \/ "passed" \in got => request = "passed"
    /\ (doing["test"] = "tell reviewer" /\ request = "passed")
       \/ In("passed", "reviewer") \/ "passed" \in has \/ doing["reviewer"] = "approve"
         => PassTold /\ request = "passed"
    /\ doing["reviewer"] = "diff" => "test" \in has
    /\ "test" \in has => request \in {"passed", "gone"} /\ (request = "passed" => "passed" \in has)
    /\ doing["reviewer"] = "reject" \/ In("reject", "planner") => request = "gone"
    /\ "review" \in got /\ "approve" \notin got => request = "gone"
    /\ In("approve", "planner") \/ "approve" \in got => request = "passed"
    /\ "passed" \in got \/ "approve" \notin got
    /\ PassedFirst
    /\ "valid" \in got => "found" \in got
    /\ doing["planner"] = "children" => {"review", "valid"} \subseteq got
    /\ verdict = "PASS" => request = "passed"
    /\ verdict = "FAIL" => request = "gone"

\* Undisturbed, the chain of the five workers.
Changed == {"tell retriever", "tell test", "tell planner", "exited", "reaped"}
Asked == {"tell found", "wait", "stale?", "tell stale", "read again", "refreshed", "tell valid",
          "exited", "reaped"}
Unfailed == \A w \in Workers : doing[w] # "failed"
FirstLetters ==
    \A w \in Workers : doing[w] \in Early => \A m : In(m, w) => m = "assignment"
Chain ==
    /\ In("replace", "patch") \/ doing["patch"] \notin Early \cup {"ready", "request"}
         => doing["retriever"] \in Asked
    /\ doing["patch"] \in Early \cup {"ready", "request", "patch_file"} => file.content = "bug"
    /\ doing["patch"] \in Changed => file.version = 2
    /\ doing["patch"] \notin Changed => file.version = 1
    /\ In("validate_context", "retriever")
       \/ doing["retriever"] \in Asked \ {"tell found", "wait"}
         => doing["patch"] \in Changed
    /\ doing["retriever"] \in {"captured", "ask", "tell found", "wait", "stale?"} => seen = 1
    /\ doing["retriever"] = "refreshed" => seen = 2
ChainInv == Undisturbed => Unfailed /\ FirstLetters /\ Chain

LabInv == /\ CrewInv /\ PartInv /\ ReadyInv /\ LetterInv /\ QuietInv
          /\ TestInv /\ ReviewInv /\ ChainInv

\* Mailboxes as sequences: one letter more, the oldest letter less.
LEMMA Appended ==
    ASSUME NEW S, NEW s \in Seq(S), NEW m \in S
    PROVE  /\ Append(s, m) \in Seq(S) /\ Len(s) \in Nat
           /\ Len(Append(s, m)) = Len(s) + 1
           /\ Append(s, m)[Len(s) + 1] = m
           /\ \A i \in 1 .. Len(s) : Append(s, m)[i] = s[i] /\ i \in 1 .. Len(s) + 1
           /\ \A i \in 1 .. Len(s) + 1 : i # Len(s) + 1 => i \in 1 .. Len(s)
OBVIOUS

LEMMA Tailed ==
    ASSUME NEW S, NEW s \in Seq(S), s # <<>>
    PROVE  /\ Tail(s) \in Seq(S) /\ Head(s) \in S /\ Head(s) = s[1] /\ 1 \in 1 .. Len(s)
           /\ Len(Tail(s)) \in Nat /\ Len(s) = Len(Tail(s)) + 1
           /\ \A i \in 1 .. Len(Tail(s)) : Tail(s)[i] = s[i + 1] /\ i + 1 \in 1 .. Len(s)
           /\ \A i \in 1 .. Len(s) : i # 1 => i - 1 \in 1 .. Len(Tail(s)) /\ (i - 1) + 1 = i
OBVIOUS

\* What a message does to a mailbox.
LEMMA SendIn ==
    ASSUME mail \in [Agents -> Seq(Letters)], NEW to \in Agents, NEW m \in Letters,
           mail' = [mail EXCEPT ![to] = Append(@, m)]
    PROVE  /\ mail' \in [Agents -> Seq(Letters)]
           /\ \A x : \A b \in Agents : In(x, b)' <=> In(x, b) \/ (b = to /\ x = m)
           /\ \A x : \A b \in Agents :
                Once(x, b) /\ (b = to /\ x = m => ~ In(x, b)) => Once(x, b)'
           /\ PassedFirst /\ (to = "planner" /\ m = "approve" => PassTold)
                /\ got \subseteq got' => PassedFirst'
<1> DEFINE s == mail[to]
           n == Len(mail[to])
<1>1. s \in Seq(Letters) /\ mail'[to] = Append(s, m) /\ mail' \in [Agents -> Seq(Letters)]
  <2>1. s \in Seq(Letters)
    OBVIOUS
  <2>2. Append(s, m) \in Seq(Letters)
    BY <2>1, Appended
  <2> QED
    BY <2>1, <2>2
<1>2. \A b \in Agents : b # to => mail'[b] = mail[b]
  OBVIOUS
<1>3. /\ n \in Nat /\ Len(mail'[to]) = n + 1 /\ mail'[to][n + 1] = m
      /\ \A i \in 1 .. n : mail'[to][i] = s[i] /\ i \in 1 .. n + 1
      /\ \A i \in 1 .. n + 1 : i # n + 1 => i \in 1 .. n
  <2>1. n = Len(s)
    OBVIOUS
  <2> HIDE DEF s, n
  <2>2. /\ Len(s) \in Nat /\ Len(mail'[to]) = Len(s) + 1 /\ mail'[to][Len(s) + 1] = m
        /\ \A i \in 1 .. Len(s) : mail'[to][i] = s[i] /\ i \in 1 .. Len(s) + 1
        /\ \A i \in 1 .. Len(s) + 1 : i # Len(s) + 1 => i \in 1 .. Len(s)
    <3> DEFINE o == Append(s, m)
    <3>1. /\ Len(s) \in Nat /\ Len(o) = Len(s) + 1 /\ o[Len(s) + 1] = m
          /\ \A i \in 1 .. Len(s) : o[i] = s[i] /\ i \in 1 .. Len(s) + 1
          /\ \A i \in 1 .. Len(s) + 1 : i # Len(s) + 1 => i \in 1 .. Len(s)
      BY <1>1, Appended
    <3>2. mail'[to] = o
      BY <1>1
    <3> HIDE DEF o
    <3> QED
      BY <3>1, <3>2, Zenon
  <2> QED
    BY <2>1, <2>2, Zenon
<1>n. n + 1 \in 1 .. n + 1 /\ n = Len(s)
  BY <1>3
<1> HIDE DEF n, s
<1>4. ASSUME NEW x, NEW b \in Agents
      PROVE  In(x, b)' <=> In(x, b) \/ (b = to /\ x = m)
  <2>1. CASE b # to
    BY <1>2, <2>1 DEF In
  <2>2. CASE b = to
    <3>1. In(x, to)' <=> \E i \in 1 .. n + 1 : mail'[to][i] = x
      BY <1>3, Zenon DEF In
    <3>2. In(x, to) <=> \E i \in 1 .. n : s[i] = x
      BY Zenon DEF In, n, s
    <3> QED
      BY <1>3, <1>n, <2>2, <3>1, <3>2, Zenon
  <2> QED
    BY <2>1, <2>2
<1>5. ASSUME NEW x, NEW b \in Agents, Once(x, b), b = to /\ x = m => ~ In(x, b)
      PROVE  Once(x, b)'
  <2>1. CASE b # to
    BY <1>2, <1>5, <2>1 DEF Once
  <2>2. CASE b = to
    <3> SUFFICES ASSUME NEW i \in 1 .. n + 1, NEW j \in 1 .. n + 1,
                        mail'[to][i] = x, mail'[to][j] = x
                 PROVE  i = j
      BY <1>3, <2>2, Zenon DEF Once
    <3>1. CASE x = m
      <4>1. \A k \in 1 .. n : s[k] # x
        BY <1>5, <2>2, <3>1, Zenon DEF In, n, s
      <4> QED
        BY <1>3, <4>1, Zenon
    <3>2. CASE x # m
      <4>1. i \in 1 .. n /\ j \in 1 .. n
        BY <1>3, <3>2, Zenon
      <4>2. s[i] = x /\ s[j] = x
        BY <1>3, <4>1, Zenon
      <4> QED
        BY <1>5, <2>2, <4>1, <4>2, Zenon DEF Once, n, s
    <3> QED
      BY <3>1, <3>2
  <2> QED
    BY <2>1, <2>2
<1>6. ASSUME PassedFirst, to = "planner" /\ m = "approve" => PassTold, got \subseteq got'
      PROVE  PassedFirst'
  <2> SUFFICES ASSUME NEW j \in 1 .. Len(mail'["planner"]), mail'["planner"][j] = "approve",
                      "passed" \notin got'
               PROVE  \E i \in 1 .. (j - 1) : mail'["planner"][i] = "passed"
    BY DEF PassedFirst
  <2>0. "passed" \notin got /\ "planner" \in Agents
    BY <1>6 DEF Agents
  <2>1. CASE to # "planner"
    BY <1>2, <1>6, <2>0, <2>1 DEF PassedFirst
  <2>2. CASE to = "planner"
    <3>1. CASE j = n + 1
      <4>1. PICK i \in 1 .. n : s[i] = "passed"
        BY <1>3, <1>6, <2>0, <2>2, <3>1, Zenon DEF PassTold, In, n, s
      <4>2. i \in 1 .. (j - 1)
        BY <1>3, <3>1
      <4> QED
        BY <1>3, <2>2, <4>1, <4>2, Zenon
    <3>2. CASE j # n + 1
      <4>1. j \in 1 .. n /\ s[j] = "approve"
        BY <1>3, <2>2, <3>2
      <4>2. PICK i \in 1 .. (j - 1) : s[i] = "passed"
        BY <1>6, <2>0, <2>2, <4>1, Zenon DEF PassedFirst, n, s
      <4>3. i \in 1 .. n
        BY <1>3, <4>1
      <4> QED
        BY <1>3, <2>2, <4>2, <4>3, Zenon
    <3> QED
      BY <3>1, <3>2
  <2> QED
    BY <2>1, <2>2
<1> QED
  BY <1>1, <1>4, <1>5, <1>6, Zenon

\* What the receipt of a message does to one.
LEMMA ReceiveIn ==
    ASSUME mail \in [Agents -> Seq(Letters)], NEW a \in Agents, Receive(a)
    PROVE  /\ mail' \in [Agents -> Seq(Letters)] /\ lost' = lost
           /\ Head(mail[a]) \in Letters /\ In(Head(mail[a]), a)
           /\ \A x : \A b \in Agents : In(x, b)' => In(x, b)
           /\ \A x : \A b \in Agents : In(x, b) /\ (b = a => x # Head(mail[a])) => In(x, b)'
           /\ \A x : \A b \in Agents : Once(x, b) => Once(x, b)'
           /\ \A x : x = Head(mail[a]) /\ Once(x, a) => ~ In(x, a)'
           /\ a # "planner" /\ PassedFirst /\ got \subseteq got' => PassedFirst'
           /\ /\ PassedFirst /\ got \subseteq got'
              /\ Head(mail["planner"]) = "passed" => "passed" \in got'
              => PassedFirst'
           /\ a = "planner" /\ PassedFirst /\ Head(mail["planner"]) = "approve" => "passed" \in got
<1> DEFINE s == mail[a]
           t == Tail(s)
           n == Len(t)
<1>1. s \in Seq(Letters) /\ s # <<>> /\ mail'[a] = t /\ lost' = lost
  BY DEF Receive
<1>2. \A b \in Agents : b # a => mail'[b] = mail[b]
  BY DEF Receive
<1>3. /\ t \in Seq(Letters) /\ Head(s) \in Letters /\ Head(s) = s[1] /\ 1 \in 1 .. Len(s)
      /\ n \in Nat /\ Len(s) = n + 1
      /\ \A i \in 1 .. n : t[i] = s[i + 1] /\ i + 1 \in 1 .. Len(s)
      /\ \A i \in 1 .. Len(s) : i # 1 => i - 1 \in 1 .. n /\ (i - 1) + 1 = i
  <2> HIDE DEF s
  <2> QED
    BY <1>1, Tailed
<1>4. mail' \in [Agents -> Seq(Letters)]
  BY <1>3 DEF Receive
<1>s. s = mail[a] /\ n = Len(t)
  OBVIOUS
<1> HIDE DEF s, t, n
<1>5. In(Head(s), a)
  BY <1>3, <1>s, Zenon DEF In
<1>6. ASSUME NEW x, NEW b \in Agents, In(x, b)'
      PROVE  In(x, b)
  <2>1. CASE b # a
    BY <1>2, <1>6, <2>1 DEF In
  <2>2. CASE b = a
    <3>1. PICK i \in 1 .. n : t[i] = x
      BY <1>1, <1>6, <1>s, <2>2, Zenon DEF In
    <3> QED
      BY <1>3, <1>s, <2>2, <3>1, Zenon DEF In
  <2> QED
    BY <2>1, <2>2
<1>7. ASSUME NEW x, NEW b \in Agents, In(x, b), b = a => x # Head(s)
      PROVE  In(x, b)'
  <2>1. CASE b # a
    BY <1>2, <1>7, <2>1 DEF In
  <2>2. CASE b = a
    <3>1. PICK i \in 1 .. Len(s) : s[i] = x
      BY <1>7, <1>s, <2>2, Zenon DEF In
    <3>2. i - 1 \in 1 .. n /\ t[i - 1] = x
      <4>1. i # 1
        BY <1>3, <1>7, <2>2, <3>1
      <4>2. i - 1 \in 1 .. n /\ (i - 1) + 1 = i
        BY <1>3, <4>1, Zenon
      <4>3. t[i - 1] = s[(i - 1) + 1]
        BY <1>3, <4>2, Zenon
      <4> QED
        BY <3>1, <4>2, <4>3, Zenon
    <3> QED
      BY <1>1, <1>s, <2>2, <3>2, Zenon DEF In
  <2> QED
    BY <2>1, <2>2
<1>8. ASSUME NEW x, NEW b \in Agents, Once(x, b)
      PROVE  Once(x, b)'
  <2>1. CASE b # a
    BY <1>2, <1>8, <2>1 DEF Once
  <2>2. CASE b = a
    <3> SUFFICES ASSUME NEW i \in 1 .. n, NEW j \in 1 .. n, t[i] = x, t[j] = x
                 PROVE  i = j
      BY <1>1, <1>s, <2>2, Zenon DEF Once
    <3>1. /\ i + 1 \in 1 .. Len(s) /\ s[i + 1] = x
          /\ j + 1 \in 1 .. Len(s) /\ s[j + 1] = x
      BY <1>3, Zenon
    <3>2. i + 1 = j + 1
      BY <1>8, <1>s, <2>2, <3>1, Zenon DEF Once
    <3> QED
      BY <3>2
  <2> QED
    BY <2>1, <2>2
<1>9. ASSUME NEW x, x = Head(s), Once(x, a) PROVE ~ In(x, a)'
  <2>1. ASSUME NEW i \in 1 .. n PROVE t[i] # x
    <3>1. i + 1 \in 1 .. Len(s) /\ t[i] = s[i + 1] /\ 1 \in 1 .. Len(s) /\ s[1] = x
      BY <1>3, <1>9, <2>1, Zenon
    <3>2. s[i + 1] = x => i + 1 = 1
      BY <1>9, <1>s, <3>1, Zenon DEF Once
    <3>3. i + 1 # 1
      BY <1>3, <2>1
    <3> QED
      BY <3>1, <3>2, <3>3, Zenon
  <2> QED
    BY <1>1, <1>s, <2>1, Zenon DEF In
<1>10. ASSUME a # "planner", PassedFirst, got \subseteq got' PROVE PassedFirst'
  <2>1. mail'["planner"] = mail["planner"]
    BY <1>2, <1>10 DEF Agents
  <2> QED
    BY <1>10, <2>1 DEF PassedFirst
<1>11. ASSUME a = "planner", PassedFirst, got \subseteq got',
              Head(s) = "passed" => "passed" \in got'
       PROVE  PassedFirst'
  <2> SUFFICES ASSUME NEW j \in 1 .. n, t[j] = "approve", "passed" \notin got'
               PROVE  \E i \in 1 .. (j - 1) : t[i] = "passed"
    BY <1>1, <1>11, <1>s, Zenon DEF PassedFirst
  <2>1. "passed" \notin got /\ s[1] # "passed"
    BY <1>3, <1>11, Zenon
  <2>2. j + 1 \in 1 .. Len(s) /\ s[j + 1] = "approve"
    BY <1>3, Zenon
  <2>3. PICK k \in 1 .. ((j + 1) - 1) : s[k] = "passed"
    BY <1>11, <1>s, <2>1, <2>2, Zenon DEF PassedFirst
  <2>4. k # 1 /\ k \in 1 .. Len(s)
    BY <1>3, <2>1, <2>3
  <2>5. k - 1 \in 1 .. n /\ (k - 1) + 1 = k
    BY <1>3, <2>4, Zenon
  <2>6. t[k - 1] = "passed" /\ k - 1 \in 1 .. (j - 1)
    <3>1. t[k - 1] = s[(k - 1) + 1]
      BY <1>3, <2>5, Zenon
    <3> QED
      BY <2>3, <2>5, <3>1
  <2> QED
    BY <2>6
<1>12. ASSUME a = "planner", PassedFirst, Head(s) = "approve" PROVE "passed" \in got
  <2>1. 1 \in 1 .. Len(s) /\ s[1] = "approve"
    BY <1>3, <1>12, Zenon
  <2>2. "passed" \in got \/ \E i \in 1 .. (1 - 1) : s[i] = "passed"
    BY <1>12, <1>s, <2>1, Zenon DEF PassedFirst
  <2> QED
    BY <2>2
<1>13. ASSUME PassedFirst, got \subseteq got', Head(mail["planner"]) = "passed" => "passed" \in got'
       PROVE  PassedFirst'
  BY <1>10, <1>11, <1>13, <1>s, Zenon
<1>14. /\ mail' \in [Agents -> Seq(Letters)] /\ lost' = lost
       /\ Head(mail[a]) \in Letters /\ In(Head(mail[a]), a)
  BY <1>1, <1>3, <1>4, <1>5, <1>s, Zenon
<1>15. /\ \A x : \A b \in Agents : In(x, b)' => In(x, b)
       /\ \A x : \A b \in Agents : In(x, b) /\ (b = a => x # Head(mail[a])) => In(x, b)'
  BY <1>6, <1>7, <1>s, Zenon
<1>16. /\ \A x : \A b \in Agents : Once(x, b) => Once(x, b)'
       /\ \A x : x = Head(mail[a]) /\ Once(x, a) => ~ In(x, a)'
  BY <1>8, <1>9, <1>s, Zenon
<1>17. a = "planner" /\ PassedFirst /\ Head(mail["planner"]) = "approve" => "passed" \in got
  BY <1>12, <1>s, Zenon
<1> QED
  BY <1>10, <1>13, <1>14, <1>15, <1>16, <1>17, Zenon

LEMMA Names ==
    /\ Agents = {"retriever", "patch", "test", "reviewer", "tool", "planner"}
    /\ Workers = {"retriever", "patch", "test", "reviewer", "tool"}
    /\ Len(Crew) = 5
    /\ Crew[1] = "retriever" /\ Crew[2] = "patch" /\ Crew[3] = "test"
    /\ Crew[4] = "reviewer" /\ Crew[5] = "tool"
<1>1. /\ Len(Crew) = 5 /\ Crew[1] = "retriever" /\ Crew[2] = "patch" /\ Crew[3] = "test"
      /\ Crew[4] = "reviewer" /\ Crew[5] = "tool"
  BY DEF Crew
<1>2. Workers = {"retriever", "patch", "test", "reviewer", "tool"}
  <2>1. \A i \in 1 .. Len(Crew) : i = 1 \/ i = 2 \/ i = 3 \/ i = 4 \/ i = 5
    BY <1>1
  <2>2. 1 \in 1 .. Len(Crew) /\ 2 \in 1 .. Len(Crew) /\ 3 \in 1 .. Len(Crew)
        /\ 4 \in 1 .. Len(Crew) /\ 5 \in 1 .. Len(Crew)
    BY <1>1
  <2> QED
    BY <1>1, <2>1, <2>2, Zenon DEF Workers
<1> QED
  BY <1>1, <1>2 DEF Agents

\* What a call leaves of the mailboxes: at most the letter m for to is new.
Sent(to, m) ==
    /\ \A x : \A b \in Agents : In(x, b)' => In(x, b) \/ (b = to /\ x = m)
    /\ \A x : \A b \in Agents : In(x, b) => In(x, b)'
    /\ \A x : \A b \in Agents : Once(x, b) /\ (b = to /\ x = m => ~ In(x, b)) => Once(x, b)'
    /\ PassedFirst /\ (to = "planner" /\ m = "approve" => PassTold) => PassedFirst'
    /\ Accepts(to) => In(m, to)' /\ lost' = lost
    /\ ~ Accepts(to) => lost' = lost \cup Vital(m)

LEMMA SendStep ==
    ASSUME mail \in [Agents -> Seq(Letters)], NEW to \in Agents, NEW m \in Letters,
           Send(to, m), got' = got
    PROVE  mail' \in [Agents -> Seq(Letters)] /\ Sent(to, m)
<1>1. CASE Accepts(to)
  <2>1. mail' = [mail EXCEPT ![to] = Append(@, m)] /\ lost' = lost
    BY <1>1 DEF Send
  <2> QED
    BY <1>1, <2>1, SendIn DEF Sent
<1>2. CASE ~ Accepts(to)
  <2>1. mail' = mail /\ lost' = lost \cup Vital(m)
    BY <1>2 DEF Send
  <2>2. /\ \A x : \A b \in Agents : In(x, b)' <=> In(x, b)
        /\ \A x : \A b \in Agents : Once(x, b)' <=> Once(x, b)
        /\ PassedFirst' <=> PassedFirst
    BY <2>1 DEF In, Once, PassedFirst
  <2> QED
    BY <1>2, <2>1, <2>2 DEF Sent
<1> QED
  BY <1>1, <1>2

\* The variables of which a call says that they stay.
LEMMA Kept ==
    /\ crew' = crew => killed' = killed /\ forks' = forks
    /\ talk' = talk => mail' = mail /\ lost' = lost
    /\ world' = world => file' = file /\ watch' = watch
    /\ tool' = tool => service' = service /\ request' = request /\ tested' = tested
    /\ minds' = minds => seen' = seen /\ has' = has /\ got' = got /\ verdict' = verdict
BY DEF crew, talk, world, tool, minds

\* Nothing moves but where an agent is, and the messages.
OnlyTalks ==
    /\ killed' = killed /\ forks' = forks
    /\ file' = file /\ watch' = watch
    /\ service' = service /\ request' = request /\ tested' = tested
    /\ has' = has /\ got' = got /\ verdict' = verdict
Moves(a, at, next) ==
    /\ a \notin killed /\ doing[a] = at /\ doing'[a] = next
    /\ \A b \in Agents : b # a => doing'[b] = doing[b]

LEMMA TalkTypes ==
    ASSUME LabTypes, OnlyTalks, DOMAIN doing' = Agents, mail' \in [Agents -> Seq(Letters)],
           seen' \in Nat
    PROVE  LabTypes'
BY Zenon DEF LabTypes, OnlyTalks

LEMMA Going ==
    ASSUME DOMAIN doing = Agents, NEW a \in Agents, NEW at, NEW next,
           At(a, at), Goto(a, next)
    PROVE  DOMAIN doing' = Agents /\ Moves(a, at, next)
BY DEF Moves, At, Goto

LEMMA TellStep ==
    ASSUME LabTypes, NEW a \in Agents, NEW at, NEW to \in Agents, NEW m \in Letters,
           NEW next, Tell(a, at, to, m, next)
    PROVE  LabTypes' /\ Sent(to, m) /\ Moves(a, at, next) /\ OnlyTalks /\ seen' = seen
<1>1. OnlyTalks /\ seen' = seen /\ seen' \in Nat
  BY Kept, Zenon DEF Tell, OnlyTalks, LabTypes
<1>2. mail' \in [Agents -> Seq(Letters)] /\ Sent(to, m)
  BY <1>1, SendStep DEF Tell, OnlyTalks, LabTypes
<1>3. DOMAIN doing' = Agents /\ Moves(a, at, next)
  BY Going DEF Tell, LabTypes
<1> QED
  BY <1>1, <1>2, <1>3, TalkTypes

LEMMA MustTellStep ==
    ASSUME LabTypes, NEW a \in Agents, NEW at, NEW to \in Agents, NEW m \in Letters,
           NEW next, MustTell(a, at, to, m, next)
    PROVE  /\ LabTypes' /\ Sent(to, m) /\ OnlyTalks /\ seen' = seen
           /\ Moves(a, at, IF Accepts(to) THEN next ELSE "failed")
<1>1. OnlyTalks /\ seen' = seen /\ seen' \in Nat
  BY Kept, Zenon DEF MustTell, OnlyTalks, LabTypes
<1>2. mail' \in [Agents -> Seq(Letters)] /\ Sent(to, m)
  BY <1>1, SendStep DEF MustTell, OnlyTalks, LabTypes
<1>4. DOMAIN doing' = Agents /\ Moves(a, at, IF Accepts(to) THEN next ELSE "failed")
  BY Going, Zenon DEF MustTell, LabTypes
<1> QED
  BY <1>1, <1>2, <1>4, TalkTypes

\* What is received is gone; the rest stays.
Took(a, m) ==
    /\ In(m, a) /\ m \in Letters /\ lost' = lost
    /\ \A x : \A b \in Agents : In(x, b)' => In(x, b)
    /\ \A x : \A b \in Agents : In(x, b) /\ (b = a => x # m) => In(x, b)'
    /\ \A x : \A b \in Agents : Once(x, b) => Once(x, b)'
    /\ Once(m, a) => ~ In(m, a)'

LEMMA ReceiveStep ==
    ASSUME LabTypes, NEW a \in Agents, Receive(a)
    PROVE  /\ mail' \in [Agents -> Seq(Letters)]
           /\ \E m \in Letters : m = Head(mail[a]) /\ Took(a, m)
<1>1. mail \in [Agents -> Seq(Letters)]
  BY DEF LabTypes
<1>2. PICK m \in Letters : m = Head(mail[a])
  BY <1>1, ReceiveIn
<1>3. /\ In(m, a) /\ m \in Letters /\ lost' = lost /\ mail' \in [Agents -> Seq(Letters)]
      /\ \A x : \A b \in Agents : In(x, b)' => In(x, b)
      /\ \A x : \A b \in Agents : In(x, b) /\ (b = a => x # m) => In(x, b)'
      /\ \A x : \A b \in Agents : Once(x, b) => Once(x, b)'
      /\ Once(m, a) => ~ In(m, a)'
  BY <1>1, <1>2, ReceiveIn
<1> QED
  BY <1>2, <1>3 DEF Took

LEMMA ExpectStep ==
    ASSUME LabTypes, NEW a \in Workers, NEW at, NEW m, NEW next,
           Expect(a, at, m, next)
    PROVE  /\ LabTypes' /\ OnlyTalks /\ seen' = seen
           /\ PassedFirst => PassedFirst'
           /\ \E x \in Letters : /\ Took(a, x)
                                 /\ Moves(a, at, IF x = m THEN next ELSE "failed")
<1>0. a \in Agents /\ a # "planner"
  BY Names
<1>1. OnlyTalks /\ seen' = seen /\ seen' \in Nat
  BY Kept, Zenon DEF Expect, OnlyTalks, LabTypes
<1>2. PICK x \in Letters : x = Head(mail[a]) /\ Took(a, x) /\ mail' \in [Agents -> Seq(Letters)]
  BY <1>0, ReceiveStep, Zenon DEF Expect
<1>4. DOMAIN doing' = Agents /\ Moves(a, at, IF x = m THEN next ELSE "failed")
  BY <1>0, <1>2, Going, Zenon DEF Expect, LabTypes
<1>5. PassedFirst => PassedFirst'
  BY <1>0, <1>1, ReceiveIn DEF OnlyTalks, Expect, LabTypes
<1> QED
  BY <1>1, <1>2, <1>4, <1>5, TalkTypes

\* A worker at work: the planner has not ended.
LEMMA WorkerMoves ==
    ASSUME CrewInv, NEW w \in Workers, NEW at, NEW q, Moves(w, at, q),
           at \notin Over \cup {"unborn", "reaped"}, killed' = killed, forks' = forks
    PROVE  /\ CrewInv' /\ doing'["planner"] = doing["planner"]
           /\ doing["planner"] \in Dispatching \cup Collecting
<1>1. "planner" \in Agents /\ w \in Agents /\ w # "planner" /\ Workers \subseteq Agents
  BY Names
<1>2. doing'["planner"] = doing["planner"]
  BY <1>1, Zenon DEF Moves
<1>3. doing["planner"] \notin Over
  BY <1>1, Zenon DEF Moves, CrewInv, Living
<1>4. ASSUME NEW i \in 1 .. Len(Crew), i > forks.tried
      PROVE  doing'[Crew[i]] = "unborn"
  <2>1. Crew[i] \in Workers /\ doing[Crew[i]] = "unborn"
    BY <1>4 DEF CrewInv, Workers
  <2>2. Crew[i] # w
    BY <2>1 DEF Moves
  <2> QED
    BY <1>1, <2>1, <2>2, Zenon DEF Moves
<1> QED
  BY <1>2, <1>3, <1>4 DEF CrewInv

----------------------------------------------------------------------------
(* What a step leaves alone it does not hurt.                                 *)
Stays(b) == doing'[b] = doing[b]
NoNew(m, b) == In(m, b)' => In(m, b)

LEMMA PartKept ==
    ASSUME NEW w, NEW before, Part(w, before), Stays("planner"), Stays(w),
           NoNew("assignment", w), Once("assignment", w) => Once("assignment", w)'
    PROVE  Part(w, before)'
BY DEF Part, Stays, NoNew

LEMMA ReadyKept ==
    ASSUME ReadyInv, Stays("planner"), service' = service,
           doing'["patch"] \in Early => doing["patch"] \in Early,
           doing'["test"] \in Early => doing["test"] \in Early,
           doing'["reviewer"] \in Early => doing["reviewer"] \in Early,
           doing'["tool"] = "ready" => doing["tool"] = "ready",
           NoNew("patch ready", "planner"), NoNew("test ready", "planner"),
           NoNew("watching", "planner"), NoNew("tool ready", "planner")
    PROVE  ReadyInv'
BY DEF ReadyInv, Stays, NoNew

LEMMA TestKept ==
    ASSUME TestInv, OnlyTalks, Stays("patch"), Stays("test"), Stays("tool"),
           NoNew("file patched", "test")
    PROVE  TestInv'
BY DEF TestInv, OnlyTalks, Stays, NoNew

LEMMA ReviewKept ==
    ASSUME ReviewInv, OnlyTalks, Stays("planner"), Stays("test"), Stays("reviewer"),
           NoNew("passed", "planner"), NoNew("approve", "planner"), NoNew("reject", "planner"),
           NoNew("passed", "reviewer"), PassTold => PassTold', PassedFirst'
    PROVE  ReviewInv'
BY DEF ReviewInv, OnlyTalks, Stays, NoNew

LEMMA ChainKept ==
    ASSUME Chain, file' = file, seen' = seen, Stays("patch"), Stays("retriever"),
           NoNew("replace", "patch"), NoNew("validate_context", "retriever")
    PROVE  Chain'
BY DEF Chain, Stays, NoNew

LEMMA LetterKept ==
    ASSUME LetterInv, request' = request, NEW to \in Agents, NEW m,
           \A x : \A b \in Agents : In(x, b)' => In(x, b) \/ (b = to /\ x = m),
           to = "patch" => m \in {"assignment", "replace"},
           to = "test" => m \in {"assignment", "file patched"},
           to = "retriever" => m \in {"assignment", "validate_context"},
           to = "reviewer" => \/ m \in {"assignment", "cache_probe"}
                              \/ m = request /\ m \in {"passed", "gone"},
           to # "tool"
    PROVE  LetterInv'
<1>1. /\ \A x : In(x, "patch")' => In(x, "patch") \/ (to = "patch" /\ x = m)
      /\ \A x : In(x, "test")' => In(x, "test") \/ (to = "test" /\ x = m)
      /\ \A x : In(x, "retriever")' => In(x, "retriever") \/ (to = "retriever" /\ x = m)
      /\ \A x : In(x, "reviewer")' => In(x, "reviewer") \/ (to = "reviewer" /\ x = m)
      /\ \A x : In(x, "tool")' => In(x, "tool") \/ (to = "tool" /\ x = m)
  BY Names
<1>2. \A x : In(x, "patch")' => x \in {"assignment", "replace"}
  BY <1>1 DEF LetterInv
<1>3. \A x : In(x, "test")' => x \in {"assignment", "file patched"}
  BY <1>1 DEF LetterInv
<1>4. \A x : In(x, "retriever")' => x \in {"assignment", "validate_context"}
  BY <1>1 DEF LetterInv
<1>5. \A x : In(x, "reviewer")' => x \in {"assignment", "cache_probe", "passed", "gone"}
  BY <1>1 DEF LetterInv
<1>6. \A x : In(x, "reviewer")' /\ x \in {"passed", "gone"} => x = request
  BY <1>1 DEF LetterInv
<1> QED
  BY <1>1, <1>2, <1>3, <1>4, <1>5, <1>6 DEF LetterInv

\* The letters a message leaves alone.
LEMMA SentLeaves ==
    ASSUME NEW to \in Agents, NEW m, Sent(to, m), got' = got
    PROVE  /\ \A x : \A b \in Agents : b # to \/ x # m => NoNew(x, b)
           /\ \A x : \A b \in Agents : b # to \/ x # m => (Once(x, b) => Once(x, b)')
           /\ PassTold => PassTold'
           /\ PassedFirst /\ (to # "planner" \/ m # "approve") => PassedFirst'
<1>1. PassTold => PassTold'
  BY Names DEF PassTold, Sent
<1> QED
  BY <1>1 DEF Sent, NoNew

LEMMA TookLeaves ==
    ASSUME NEW a \in Workers, NEW m, Took(a, m), got' = got
    PROVE  /\ \A x : \A b \in Agents : NoNew(x, b) /\ (Once(x, b) => Once(x, b)')
           /\ PassTold => PassTold'
<1>1. PassTold => PassTold'
  BY Names DEF PassTold, Took
<1> QED
  BY <1>1 DEF Took, NoNew

\* No mailbox is touched.
LEMMA NoMail ==
    ASSUME mail' = mail
    PROVE  /\ \A x, b : NoNew(x, b) /\ (In(x, b) => In(x, b)') /\ (Once(x, b) => Once(x, b)')
           /\ got \subseteq got' => (PassTold => PassTold') /\ (PassedFirst => PassedFirst')
BY DEF NoNew, In, Once, PassTold, PassedFirst

LEMMA ChainHolds ==
    ASSUME LabInv, Undisturbed' => Undisturbed,
           Undisturbed' /\ Unfailed /\ FirstLetters /\ Chain
             => Unfailed' /\ FirstLetters' /\ Chain'
    PROVE  ChainInv'
BY DEF LabInv, ChainInv

----------------------------------------------------------------------------
(* The retriever.                                                             *)
RetrieverTells(at, to, m, q) ==
    \/ at = "query" /\ to = "planner" /\ m = "note" /\ q = "probe"
    \/ at = "probe" /\ to = "reviewer" /\ m = "cache_probe" /\ q = "read"
    \/ at = "ask" /\ to = "patch" /\ m = "replace" /\ q \in {"tell found", "failed"}
    \/ at = "tell found" /\ to = "planner" /\ m = "note" /\ q = "wait"
    \/ at = "tell stale" /\ to = "planner" /\ m = "note" /\ q = "read again"
    \/ at = "tell valid" /\ to = "planner" /\ m = "context valid" /\ q = "exited"

\* Once it has its part, the planner collects, and patch and reviewer are ready.
LEMMA RetrieverWorks ==
    ASSUME LabInv, OnlyTalks, NEW at, NEW q, Moves("retriever", at, q),
           at \notin Early \cup Gone, q \notin Early
    PROVE  /\ CrewInv' /\ QuietInv'
           /\ doing["planner"] \in Collecting /\ doing["planner"] \notin Dispatching
           /\ doing["patch"] \notin Early /\ doing["reviewer"] \notin Early
           /\ ~ In("assignment", "retriever")
           /\ doing["retriever"] = at /\ doing'["retriever"] = q
           /\ Stays("planner") /\ Stays("patch") /\ Stays("test") /\ Stays("reviewer")
           /\ Stays("tool")
<1>1. /\ "retriever" \in Workers /\ Agents = Workers \cup {"planner"}
      /\ doing["retriever"] = at /\ doing'["retriever"] = q
      /\ Stays("planner") /\ Stays("patch") /\ Stays("test") /\ Stays("reviewer") /\ Stays("tool")
  BY Names DEF Moves, Stays
<1>2. CrewInv' /\ doing["planner"] \in Dispatching \cup Collecting
  BY <1>1, WorkerMoves DEF LabInv, OnlyTalks, Over, Early, Gone
<1>3. /\ doing["planner"] \in Collecting /\ doing["planner"] \notin Dispatching
      /\ ~ In("assignment", "retriever")
  BY <1>1, <1>2 DEF LabInv, Gone, PartInv, Part
<1>4. doing["patch"] \notin Early /\ doing["reviewer"] \notin Early
  BY <1>3 DEF LabInv, ReadyInv
<1>5. QuietInv'
  BY <1>1, <1>3 DEF QuietInv, Stays
<1> QED
  BY <1>1, <1>2, <1>3, <1>4, <1>5

LEMMA RetrieverTalks ==
    ASSUME LabTypes, LabInv, OnlyTalks, seen' = seen,
           NEW at, NEW to, NEW m, NEW q, RetrieverTells(at, to, m, q),
           Moves("retriever", at, q), Sent(to, m), q = "failed" => ~ Accepts(to)
    PROVE  LabInv'
<1>1. /\ at \notin Early \cup Gone \cup {"captured", "stale?", "refreshed", "wait"}
      /\ q \notin Early \cup {"captured", "ask", "stale?", "refreshed", "reaped"}
      /\ to \in {"planner", "reviewer", "patch"} /\ to \in Agents
      /\ m \notin {"assignment", "patch ready", "test ready", "watching", "tool ready",
                   "file patched", "passed", "approve", "reject", "validate_context"}
      /\ m = "replace" => at = "ask"
      /\ to = "patch" => m = "replace"
      /\ to = "reviewer" => m = "cache_probe"
  BY Names DEF RetrieverTells, Early, Gone
<1>2. /\ CrewInv' /\ QuietInv'
      /\ doing["planner"] \in Collecting /\ doing["planner"] \notin Dispatching
      /\ doing["patch"] \notin Early /\ doing["reviewer"] \notin Early
      /\ ~ In("assignment", "retriever")
      /\ doing["retriever"] = at /\ doing'["retriever"] = q
      /\ Stays("planner") /\ Stays("patch") /\ Stays("test") /\ Stays("reviewer")
      /\ Stays("tool")
  BY <1>1, RetrieverWorks
<1>3. got' = got /\ request' = request /\ service' = service /\ file' = file
  BY DEF OnlyTalks
<1>4. /\ \A x : \A b \in Agents : b # to \/ x # m => NoNew(x, b)
      /\ \A x : \A b \in Agents : b # to \/ x # m => (Once(x, b) => Once(x, b)')
      /\ PassTold => PassTold'
      /\ PassedFirst => PassedFirst'
  BY <1>1, <1>3, SentLeaves
<1>5. \A b \in Agents : NoNew("assignment", b) /\ (Once("assignment", b) => Once("assignment", b)')
  BY <1>1, <1>4
<1>6. PartInv'
  <2>1. Part("patch", ToPatch)' /\ Part("test", ToTest)' /\ Part("reviewer", ToReviewer)'
    BY <1>2, <1>5, PartKept, Names DEF LabInv, PartInv
  <2>2. Part("retriever", Dispatching)'
    BY <1>1, <1>2, <1>5, Names DEF Part, Stays, NoNew
  <2> QED
    BY <2>1, <2>2 DEF PartInv
<1>7. ReadyInv'
  BY <1>1, <1>2, <1>3, <1>4, ReadyKept, Names DEF LabInv, Stays
<1>8. LetterInv'
  <2>1. \A x : \A b \in Agents : In(x, b)' => In(x, b) \/ (b = to /\ x = m)
    BY DEF Sent
  <2>2. /\ to = "patch" => m \in {"assignment", "replace"}
        /\ to = "test" => m \in {"assignment", "file patched"}
        /\ to = "retriever" => m \in {"assignment", "validate_context"}
        /\ to = "reviewer" => \/ m \in {"assignment", "cache_probe"}
                              \/ m = request /\ m \in {"passed", "gone"}
        /\ to # "tool" /\ to \in Agents
    BY <1>1
  <2>3. LetterInv
    BY DEF LabInv
  <2> QED
    BY <1>3, <2>1, <2>2, <2>3, LetterKept, Zenon
<1>9. TestInv'
  BY <1>1, <1>2, <1>4, TestKept, Names DEF LabInv
<1>10. ReviewInv'
  BY <1>1, <1>2, <1>4, ReviewKept, Names DEF LabInv, ReviewInv
<1>11. ChainInv'
  <2>1. ASSUME Undisturbed' PROVE Undisturbed /\ q # "failed"
    BY <2>1 DEF Undisturbed, OnlyTalks, Sent, Vital, RetrieverTells
  <2> SUFFICES ASSUME Undisturbed', Unfailed, FirstLetters, Chain
               PROVE  Unfailed' /\ FirstLetters' /\ Chain'
    BY <2>1, ChainHolds
  <2>3. Unfailed'
    BY <1>2, <2>1, Names DEF Unfailed, Stays
  <2>4. FirstLetters'
    BY <1>1, <1>2, <1>4, Names DEF FirstLetters, NoNew, Stays
  <2>5. Chain'
    BY <1>1, <1>2, <1>3, <1>4, <2>1, Names DEF Chain, NoNew, Stays, Asked, RetrieverTells
  <2> QED
    BY <2>3, <2>4, <2>5
<1> QED
  BY <1>2, <1>6, <1>7, <1>8, <1>9, <1>10, <1>11 DEF LabInv

LEMMA RetrieverExpects ==
    ASSUME LabTypes, LabInv, OnlyTalks, seen' = seen,
           NEW at, NEW m, NEW next, NEW x, NEW q,
           \/ at = "assignment" /\ m = "assignment" /\ next = "query"
           \/ at = "wait" /\ m = "validate_context" /\ next = "stale?",
           q = IF x = m THEN next ELSE "failed",
           Moves("retriever", at, q), Took("retriever", x), PassedFirst => PassedFirst'
    PROVE  LabInv'
<1>1. /\ "retriever" \in Workers /\ Agents = Workers \cup {"planner"}
      /\ doing["retriever"] = at /\ doing'["retriever"] = q
      /\ Stays("planner") /\ Stays("patch") /\ Stays("test") /\ Stays("reviewer") /\ Stays("tool")
  BY Names DEF Moves, Stays
<1>2. CrewInv' /\ doing["planner"] \in Dispatching \cup Collecting
  BY <1>1, WorkerMoves DEF LabInv, OnlyTalks, Over
<1>3. /\ doing["planner"] \notin Dispatching /\ QuietInv'
      /\ x \in {"assignment", "validate_context"}
  BY <1>1 DEF LabInv, QuietInv, LetterInv, Took, Stays
<1>4. got' = got /\ request' = request /\ service' = service /\ file' = file
  BY DEF OnlyTalks
<1>5. /\ \A y : \A b \in Agents : NoNew(y, b) /\ (Once(y, b) => Once(y, b)')
      /\ PassTold => PassTold'
  BY <1>1, <1>4, TookLeaves
<1>6. PartInv'
  <2>1. Part("patch", ToPatch)' /\ Part("test", ToTest)' /\ Part("reviewer", ToReviewer)'
    BY <1>1, <1>5, PartKept, Names DEF LabInv, PartInv
  <2>2. Part("retriever", Dispatching)
    BY DEF LabInv, PartInv
  <2>3. q \notin Gone => ~ In("assignment", "retriever")'
    BY <1>1, <1>5, <2>2, Names DEF Part, Early, Gone, NoNew, Took
  <2>4. Part("retriever", Dispatching)'
    BY <1>1, <1>3, <2>3 DEF Part, Stays, Early, Gone
  <2> QED
    BY <2>1, <2>4 DEF PartInv
<1>7. ReadyInv'
  BY <1>1, <1>4, <1>5, ReadyKept, Names DEF LabInv, Stays
<1>8. LetterInv'
  BY <1>4, <1>5, LetterKept, Names DEF LabInv, NoNew
<1>9. TestInv'
  BY <1>1, <1>5, TestKept, Names DEF LabInv
<1>10. ReviewInv'
  BY <1>1, <1>5, ReviewKept, Names DEF LabInv, ReviewInv
<1>11. ChainInv'
  <2>1. Undisturbed' => Undisturbed
    BY DEF Undisturbed, OnlyTalks, Took
  <2> SUFFICES ASSUME Undisturbed', Unfailed, FirstLetters, Chain
               PROVE  Unfailed' /\ FirstLetters' /\ Chain'
    BY <2>1, ChainHolds
  <2>2. x = m /\ q = next
    BY <1>1, <1>3, Names DEF FirstLetters, Took, Early, Gone, LabInv, PartInv, Part
  <2>3. Unfailed'
    BY <1>1, <2>2, Names DEF Unfailed, Stays
  <2>4. FirstLetters'
    BY <1>1, <1>5, <2>2, Names DEF FirstLetters, NoNew, Stays, Early
  <2>5. Chain'
    BY <1>1, <1>4, <1>5, <2>2, Names DEF Chain, NoNew, Stays, Asked, Took
  <2> QED
    BY <2>3, <2>4, <2>5
<1> QED
  BY <1>2, <1>3, <1>6, <1>7, <1>8, <1>9, <1>10, <1>11 DEF LabInv

LEMMA OneTwo == 1 # 2
OBVIOUS

\* It reads the file, or has a reading validated.
LEMMA RetrieverLooks ==
    ASSUME LabTypes, LabInv, OnlyTalks, mail' = mail, lost' = lost,
           NEW at, NEW q, Moves("retriever", at, q),
           \/ at = "read" /\ q = "captured" /\ seen' = file.version
           \/ at = "read again" /\ q = "refreshed" /\ seen' = file.version
           \/ at = "captured" /\ seen' = seen
                /\ q = IF seen = file.version THEN "ask" ELSE "failed"
           \/ at = "stale?" /\ seen' = seen
                /\ q = IF seen # file.version THEN "tell stale" ELSE "failed"
           \/ at = "refreshed" /\ seen' = seen
                /\ q = IF seen = file.version THEN "tell valid" ELSE "failed"
    PROVE  LabInv'
<1>1. at \notin Early \cup Gone \cup {"ready"} /\ q \notin Early
  BY DEF Early, Gone
<1>2. /\ CrewInv' /\ QuietInv'
      /\ doing["planner"] \in Collecting /\ doing["planner"] \notin Dispatching
      /\ doing["patch"] \notin Early /\ doing["reviewer"] \notin Early
      /\ ~ In("assignment", "retriever")
      /\ doing["retriever"] = at /\ doing'["retriever"] = q
      /\ Stays("planner") /\ Stays("patch") /\ Stays("test") /\ Stays("reviewer")
      /\ Stays("tool")
  BY <1>1, RetrieverWorks
<1>3. got' = got /\ got \subseteq got' /\ request' = request /\ service' = service /\ file' = file
  BY DEF OnlyTalks
<1>4. /\ \A x, b : NoNew(x, b) /\ (In(x, b) => In(x, b)') /\ (Once(x, b) => Once(x, b)')
      /\ (PassTold => PassTold') /\ (PassedFirst => PassedFirst')
  BY <1>3, NoMail
<1>6. PartInv'
  <2>1. Part("patch", ToPatch)' /\ Part("test", ToTest)' /\ Part("reviewer", ToReviewer)'
    BY <1>2, <1>4, PartKept DEF LabInv, PartInv
  <2>2. Part("retriever", Dispatching)'
    BY <1>1, <1>2, <1>4 DEF Part, Stays, NoNew
  <2> QED
    BY <2>1, <2>2 DEF PartInv
<1>7. ReadyInv'
  BY <1>2, <1>3, <1>4, ReadyKept DEF LabInv, Stays
<1>8. LetterInv'
  BY <1>3, <1>4 DEF LabInv, LetterInv, NoNew
<1>9. TestInv'
  BY <1>2, <1>4, TestKept DEF LabInv
<1>10. ReviewInv'
  BY <1>2, <1>4, ReviewKept DEF LabInv, ReviewInv
<1>11. ChainInv'
  <2>1. Undisturbed' => Undisturbed
    BY DEF Undisturbed, OnlyTalks
  <2> SUFFICES ASSUME Undisturbed', Unfailed, FirstLetters, Chain
               PROVE  Unfailed' /\ FirstLetters' /\ Chain'
    BY <2>1, ChainHolds
  <2>2. /\ at \in {"read", "captured"} => doing["patch"] \notin Changed
        /\ at \in {"stale?", "read again", "refreshed"} => doing["patch"] \in Changed
    BY <1>2 DEF Chain, Asked, Changed, Early
  <2>7. q # "failed"
    <3>1. at = "captured" => seen = 1 /\ file.version = 1
      BY <1>2, <2>2 DEF Chain
    <3>2. at = "stale?" => seen = 1 /\ file.version = 2
      BY <1>2, <2>2 DEF Chain
    <3>3. at = "refreshed" => seen = 2 /\ file.version = 2
      BY <1>2, <2>2 DEF Chain
    <3>4. CASE at = "captured"
      BY <3>1, <3>4
    <3>5. CASE at = "stale?"
      <4>1. seen # file.version
        BY <3>2, <3>5, OneTwo, Zenon
      <4>2. q = IF seen # file.version THEN "tell stale" ELSE "failed"
        BY <3>5
      <4> QED
        BY <4>1, <4>2
    <3>6. CASE at = "refreshed"
      BY <3>3, <3>6
    <3>7. CASE at = "read"
      BY <3>7
    <3>8. CASE at = "read again"
      BY <3>8
    <3> QED
      BY <3>4, <3>5, <3>6, <3>7, <3>8
  <2>3. /\ q # "failed"
        /\ q \in {"captured", "ask"} => seen' = 1
        /\ q = "refreshed" => seen' = 2
        /\ q \notin {"tell found", "wait", "stale?"}
        /\ at \in Asked => q \in Asked
        /\ q \in Asked => at \in Asked \ {"tell found", "wait"}
    BY <1>2, <2>2, <2>7 DEF Chain, Asked
  <2>4. Unfailed'
    BY <1>2, <2>3, Names DEF Unfailed, Stays
  <2>5. FirstLetters'
    BY <1>1, <1>2, <1>4, Names DEF FirstLetters, NoNew, Stays
  <2>6. Chain'
    BY <1>2, <1>3, <1>4, <2>2, <2>3 DEF Chain, NoNew, Stays
  <2> QED
    BY <2>4, <2>5, <2>6
<1> QED
  BY <1>2, <1>6, <1>7, <1>8, <1>9, <1>10, <1>11 DEF LabInv

LEMMA LookTypes ==
    ASSUME LabTypes, OnlyTalks, DOMAIN doing' = Agents, mail' = mail,
           seen' \in {seen, file.version}
    PROVE  LabTypes'
<1>1. seen \in Nat /\ file.version \in Nat
  BY DEF LabTypes
<1> QED
  BY <1>1, TalkTypes DEF LabTypes

LEMMA ReadStep ==
    ASSUME LabTypes, NEW at, NEW next, Read(at, next)
    PROVE  /\ LabTypes' /\ OnlyTalks /\ mail' = mail /\ lost' = lost
           /\ seen' = file.version /\ Moves("retriever", at, next)
<1>1. OnlyTalks /\ mail' = mail /\ lost' = lost /\ seen' = file.version
  BY Kept DEF Read, OnlyTalks
<1>2. DOMAIN doing' = Agents /\ Moves("retriever", at, next)
  BY Going, Names DEF Read, LabTypes
<1> QED
  BY <1>1, <1>2, LookTypes

LEMMA ValidateStep ==
    ASSUME LabTypes, NEW at, NEW valid, NEW next, Validate(at, valid, next)
    PROVE  /\ LabTypes' /\ OnlyTalks /\ mail' = mail /\ lost' = lost /\ seen' = seen
           /\ Moves("retriever", at, IF (seen = file.version) = valid THEN next ELSE "failed")
<1>1. OnlyTalks /\ mail' = mail /\ lost' = lost /\ seen' = seen
  BY Kept, Zenon DEF Validate, OnlyTalks
<1>2. /\ DOMAIN doing' = Agents
      /\ Moves("retriever", at, IF (seen = file.version) = valid THEN next ELSE "failed")
  BY Going, Names, Zenon DEF Validate, LabTypes
<1> QED
  BY <1>1, <1>2, LookTypes

LEMMA RetrieverKeeps ==
    ASSUME LabTypes, LabInv, Retriever
    PROVE  LabTypes' /\ LabInv'
<1>0. /\ "retriever" \in Agents /\ "planner" \in Agents /\ "reviewer" \in Agents
      /\ "patch" \in Agents /\ "retriever" \in Workers
      /\ {"note", "cache_probe", "replace", "context valid"} \subseteq Letters
  BY Names DEF Letters
<1>1. ASSUME NEW at, NEW to, NEW m, NEW q, Tell("retriever", at, to, m, q),
             RetrieverTells(at, to, m, q), to \in Agents, m \in Letters, q # "failed"
      PROVE  LabTypes' /\ LabInv'
  <2>1. LabTypes' /\ Sent(to, m) /\ Moves("retriever", at, q) /\ OnlyTalks /\ seen' = seen
    BY <1>0, <1>1, TellStep
  <2> QED
    BY <1>1, <2>1, RetrieverTalks
<1>2. CASE MustTell("retriever", "ask", "patch", "replace", "tell found")
  <2> DEFINE q == IF Accepts("patch") THEN "tell found" ELSE "failed"
  <2>1. /\ LabTypes' /\ Sent("patch", "replace") /\ OnlyTalks /\ seen' = seen
        /\ Moves("retriever", "ask", q)
    BY <1>0, <1>2, MustTellStep
  <2>2. RetrieverTells("ask", "patch", "replace", q) /\ (q = "failed" => ~ Accepts("patch"))
    BY DEF RetrieverTells
  <2> HIDE DEF q
  <2> QED
    BY <2>1, <2>2, RetrieverTalks
<1>3. ASSUME NEW at, NEW m, NEW next, Expect("retriever", at, m, next),
             \/ at = "assignment" /\ m = "assignment" /\ next = "query"
             \/ at = "wait" /\ m = "validate_context" /\ next = "stale?"
      PROVE  LabTypes' /\ LabInv'
  <2>1. PICK x \in Letters : /\ LabTypes' /\ OnlyTalks /\ seen' = seen
                             /\ PassedFirst => PassedFirst'
                             /\ Took("retriever", x)
                             /\ Moves("retriever", at, IF x = m THEN next ELSE "failed")
    BY <1>0, <1>3, ExpectStep
  <2> DEFINE q == IF x = m THEN next ELSE "failed"
  <2>2. Moves("retriever", at, q) /\ q = IF x = m THEN next ELSE "failed"
    BY <2>1
  <2> HIDE DEF q
  <2> QED
    BY <1>3, <2>1, <2>2, RetrieverExpects
<1>4. ASSUME NEW at, NEW next, Read(at, next),
             \/ at = "read" /\ next = "captured"
             \/ at = "read again" /\ next = "refreshed"
      PROVE  LabTypes' /\ LabInv'
  BY <1>4, ReadStep, RetrieverLooks
<1>5. ASSUME NEW at, NEW valid, NEW next, Validate(at, valid, next),
             \/ at = "captured" /\ valid = TRUE /\ next = "ask"
             \/ at = "stale?" /\ valid = FALSE /\ next = "tell stale"
             \/ at = "refreshed" /\ valid = TRUE /\ next = "tell valid"
      PROVE  LabTypes' /\ LabInv'
  <2> DEFINE q == IF (seen = file.version) = valid THEN next ELSE "failed"
  <2>1. /\ LabTypes' /\ OnlyTalks /\ mail' = mail /\ lost' = lost /\ seen' = seen
        /\ Moves("retriever", at, q)
    BY <1>5, ValidateStep, Zenon
  <2>2. \/ at = "captured" /\ q = IF seen = file.version THEN "ask" ELSE "failed"
        \/ at = "stale?" /\ q = IF seen # file.version THEN "tell stale" ELSE "failed"
        \/ at = "refreshed" /\ q = IF seen = file.version THEN "tell valid" ELSE "failed"
    BY <1>5
  <2> HIDE DEF q
  <2> QED
    BY <2>1, <2>2, RetrieverLooks
<1>6. /\ RetrieverTells("query", "planner", "note", "probe")
      /\ RetrieverTells("probe", "reviewer", "cache_probe", "read")
      /\ RetrieverTells("tell found", "planner", "note", "wait")
      /\ RetrieverTells("tell stale", "planner", "note", "read again")
      /\ RetrieverTells("tell valid", "planner", "context valid", "exited")
  BY DEF RetrieverTells
<1>7. /\ "note" \in Letters /\ "cache_probe" \in Letters /\ "context valid" \in Letters
      /\ "probe" # "failed" /\ "read" # "failed" /\ "wait" # "failed"
      /\ "read again" # "failed" /\ "exited" # "failed"
  BY <1>0
<1>8. CASE Tell("retriever", "query", "planner", "note", "probe")
  BY <1>0, <1>1, <1>6, <1>7, <1>8, Zenon
<1>9. CASE Tell("retriever", "probe", "reviewer", "cache_probe", "read")
  BY <1>0, <1>1, <1>6, <1>7, <1>9, Zenon
<1>10. CASE Tell("retriever", "tell found", "planner", "note", "wait")
  BY <1>0, <1>1, <1>6, <1>7, <1>10, Zenon
<1>11. CASE Tell("retriever", "tell stale", "planner", "note", "read again")
  BY <1>0, <1>1, <1>6, <1>7, <1>11, Zenon
<1>12. CASE Tell("retriever", "tell valid", "planner", "context valid", "exited")
  BY <1>0, <1>1, <1>6, <1>7, <1>12, Zenon
<1> QED
  BY <1>2, <1>3, <1>4, <1>5, <1>8, <1>9, <1>10, <1>11, <1>12, Zenon DEF Retriever

----------------------------------------------------------------------------
(* The patch agent.                                                           *)
PatchTells(at, to, m, q) ==
    \/ at = "ready" /\ to = "planner" /\ m = "patch ready" /\ q = "request"
    \/ at = "tell retriever" /\ to = "retriever" /\ m = "validate_context"
         /\ q \in {"tell test", "failed"}
    \/ at = "tell test" /\ to = "test" /\ m = "file patched" /\ q \in {"tell planner", "failed"}
    \/ at = "tell planner" /\ to = "planner" /\ m = "note" /\ q = "exited"

LEMMA PatchMoves ==
    ASSUME LabInv, killed' = killed, forks' = forks, NEW at, NEW q, Moves("patch", at, q),
           at \notin Over \cup {"unborn", "reaped"}
    PROVE  /\ CrewInv' /\ doing["planner"] \in Dispatching \cup Collecting
           /\ doing["patch"] = at /\ doing'["patch"] = q
           /\ Stays("planner") /\ Stays("retriever") /\ Stays("test") /\ Stays("reviewer")
           /\ Stays("tool")
<1>1. /\ "patch" \in Workers /\ Agents = Workers \cup {"planner"}
      /\ doing["patch"] = at /\ doing'["patch"] = q
      /\ Stays("planner") /\ Stays("retriever") /\ Stays("test") /\ Stays("reviewer")
      /\ Stays("tool")
  BY Names DEF Moves, Stays
<1> QED
  BY <1>1, WorkerMoves DEF LabInv

LEMMA PatchTalks ==
    ASSUME LabTypes, LabInv, OnlyTalks, seen' = seen,
           NEW at, NEW to, NEW m, NEW q, PatchTells(at, to, m, q),
           Moves("patch", at, q), Sent(to, m), q = "failed" => ~ Accepts(to)
    PROVE  LabInv'
<1>1. /\ at \notin Early \cup Gone /\ q \notin Early \cup {"patch_file"}
      /\ to \in {"planner", "retriever", "test"} /\ to \in Agents
      /\ m \notin {"assignment", "test ready", "watching", "tool ready", "replace",
                   "passed", "approve", "reject"}
      /\ to = "test" => m = "file patched" /\ at = "tell test"
      /\ to = "retriever" => m = "validate_context" /\ at = "tell retriever"
  BY Names DEF PatchTells, Early, Gone
<1>2. /\ CrewInv' /\ doing["planner"] \in Dispatching \cup Collecting
      /\ doing["patch"] = at /\ doing'["patch"] = q
      /\ Stays("planner") /\ Stays("retriever") /\ Stays("test") /\ Stays("reviewer")
      /\ Stays("tool")
  BY <1>1, PatchMoves DEF OnlyTalks, Over, Early, Gone
<1>3. got' = got /\ request' = request /\ service' = service /\ file' = file
  BY DEF OnlyTalks
<1>4. /\ \A x : \A b \in Agents : b # to \/ x # m => NoNew(x, b)
      /\ \A x : \A b \in Agents : b # to \/ x # m => (Once(x, b) => Once(x, b)')
      /\ PassTold => PassTold'
      /\ PassedFirst => PassedFirst'
  BY <1>1, <1>3, SentLeaves
<1>5. \A b \in Agents : NoNew("assignment", b) /\ (Once("assignment", b) => Once("assignment", b)')
  BY <1>1, <1>4
<1>6. PartInv'
  <2>1. /\ Part("retriever", Dispatching)' /\ Part("test", ToTest)'
        /\ Part("reviewer", ToReviewer)'
    BY <1>2, <1>5, PartKept, Names DEF LabInv, PartInv
  <2>2. Part("patch", ToPatch)
    BY DEF LabInv, PartInv
  <2>3. doing["planner"] \notin ToPatch /\ ~ In("assignment", "patch")'
    BY <1>1, <1>2, <1>5, <2>2, Names DEF Part, NoNew, Gone
  <2>4. Part("patch", ToPatch)'
    BY <1>1, <1>2, <2>3 DEF Part, Stays
  <2> QED
    BY <2>1, <2>4 DEF PartInv
<1>7. ReadyInv'
  BY <1>1, <1>2, <1>3, <1>4, Names DEF LabInv, ReadyInv, Stays, NoNew
<1>8. LetterInv'
  <2>1. \A x : \A b \in Agents : In(x, b)' => In(x, b) \/ (b = to /\ x = m)
    BY DEF Sent
  <2>2. /\ to = "patch" => m \in {"assignment", "replace"}
        /\ to = "test" => m \in {"assignment", "file patched"}
        /\ to = "retriever" => m \in {"assignment", "validate_context"}
        /\ to = "reviewer" => \/ m \in {"assignment", "cache_probe"}
                              \/ m = request /\ m \in {"passed", "gone"}
        /\ to # "tool" /\ to \in Agents
    BY <1>1
  <2>3. LetterInv
    BY DEF LabInv
  <2> QED
    BY <1>3, <2>1, <2>2, <2>3, LetterKept, Zenon
<1>q. doing["planner"] \in Dispatching => at = "ready" /\ m = "patch ready" /\ to = "planner"
                                           /\ q = "request"
  BY <1>1, <1>2 DEF LabInv, QuietInv, PatchTells, Early
<1>9. QuietInv'
  <2> SUFFICES ASSUME doing["planner"] \in Dispatching PROVE QuietInv'
    BY <1>2 DEF QuietInv, Stays
  <2>1. \A x : \A b \in Agents : In(x, b)' => In(x, b) \/ (b = "planner" /\ x = "patch ready")
    BY <1>q DEF Sent
  <2>2. watch' = watch /\ has' = has
    BY DEF OnlyTalks
  <2>3. QuietInv
    BY DEF LabInv
  <2>4. /\ \A x : ~ In(x, "retriever")'
        /\ ~ In("replace", "patch")' /\ ~ In("file patched", "test")'
        /\ \A x : In(x, "planner")' => x \in {"tool ready", "patch ready", "test ready", "watching"}
        /\ ~ In("cache_probe", "reviewer")'
    BY <2>1, <2>3, Names DEF QuietInv
  <2> QED
    BY <1>2, <1>3, <1>q, <2>2, <2>3, <2>4 DEF QuietInv, Stays
<1>10. TestInv'
  <2>1. tested' = tested /\ killed' = killed
    BY DEF OnlyTalks
  <2>2. doing["patch"] = "ready" => m # "file patched"
    BY <1>2 DEF PatchTells
  <2> QED
    BY <1>1, <1>2, <1>3, <1>4, <2>1, <2>2, Names DEF LabInv, TestInv, Stays, NoNew, PatchTells
<1>11. ReviewInv'
  BY <1>1, <1>2, <1>4, ReviewKept, Names DEF LabInv, ReviewInv
<1>12. ChainInv'
  <2>1. ASSUME Undisturbed' PROVE Undisturbed /\ q # "failed"
    BY <2>1 DEF Undisturbed, OnlyTalks, Sent, Vital, PatchTells
  <2> SUFFICES ASSUME Undisturbed', Unfailed, FirstLetters, Chain
               PROVE  Unfailed' /\ FirstLetters' /\ Chain'
    BY <2>1, ChainHolds
  <2>2. at # "ready" => doing["retriever"] \in Asked /\ doing["retriever"] \notin Early
                          /\ doing["test"] \notin Early
    <3> SUFFICES ASSUME at # "ready" PROVE doing["retriever"] \in Asked
                   /\ doing["retriever"] \notin Early /\ doing["test"] \notin Early
      OBVIOUS
    <3>1. doing["planner"] \in Collecting
      BY <1>2, <1>q
    <3>2. doing["test"] \notin Early
      BY <3>1 DEF LabInv, ReadyInv
    <3>3. doing["retriever"] \in Asked
      BY <1>1, <1>2 DEF Chain, PatchTells
    <3> QED
      BY <3>2, <3>3 DEF Asked, Early
  <2>3. Unfailed'
    BY <1>2, <2>1, Names DEF Unfailed, Stays
  <2>4. FirstLetters'
    BY <1>1, <1>2, <1>4, <2>2, Names DEF FirstLetters, NoNew, Stays, PatchTells
  <2>5. at \in Changed \ {"exited", "reaped"} <=> at # "ready"
    BY DEF PatchTells, Changed
  <2>6. q \in Changed <=> at # "ready"
    BY <2>1 DEF PatchTells, Changed
  <2>7. Chain'
    BY <1>1, <1>2, <1>3, <1>4, <2>1, <2>2, <2>5, <2>6, Names
    DEF Chain, NoNew, Stays, PatchTells
  <2> QED
    BY <2>3, <2>4, <2>7
<1> QED
  BY <1>2, <1>6, <1>7, <1>8, <1>9, <1>10, <1>11, <1>12 DEF LabInv

LEMMA PatchExpects ==
    ASSUME LabTypes, LabInv, OnlyTalks, seen' = seen,
           NEW at, NEW m, NEW next, NEW x, NEW q,
           \/ at = "assignment" /\ m = "assignment" /\ next = "ready"
           \/ at = "request" /\ m = "replace" /\ next = "patch_file",
           q = IF x = m THEN next ELSE "failed",
           Moves("patch", at, q), Took("patch", x), PassedFirst => PassedFirst'
    PROVE  LabInv'
<1>1. at \notin Over \cup {"unborn", "reaped"} /\ q \notin Early /\ "patch" \in Workers
  BY Names DEF Over, Early
<1>2. /\ CrewInv' /\ doing["planner"] \in Dispatching \cup Collecting
      /\ doing["patch"] = at /\ doing'["patch"] = q
      /\ Stays("planner") /\ Stays("retriever") /\ Stays("test") /\ Stays("reviewer")
      /\ Stays("tool")
  BY <1>1, PatchMoves DEF OnlyTalks
<1>3. x \in {"assignment", "replace"}
  BY DEF LabInv, LetterInv, Took
<1>4. got' = got /\ request' = request /\ service' = service /\ file' = file
  BY DEF OnlyTalks
<1>5. /\ \A y : \A b \in Agents : NoNew(y, b) /\ (Once(y, b) => Once(y, b)')
      /\ PassTold => PassTold'
  BY <1>1, <1>4, TookLeaves
<1>6. Part("patch", ToPatch)
  BY DEF LabInv, PartInv
<1>q. QuietInv'
  <2> SUFFICES ASSUME doing["planner"] \in Dispatching PROVE QuietInv'
    BY <1>2 DEF QuietInv, Stays
  <2>1. QuietInv /\ watch' = watch /\ has' = has
    BY DEF LabInv, OnlyTalks
  <2>2. q \in {"ready", "failed"}
    BY <1>2, <1>3, <2>1 DEF QuietInv, Took
  <2> QED
    BY <1>2, <1>4, <1>5, <2>1, <2>2, Names DEF QuietInv, Stays, NoNew
<1>7. PartInv'
  <2>1. /\ Part("retriever", Dispatching)' /\ Part("test", ToTest)'
        /\ Part("reviewer", ToReviewer)'
    BY <1>2, <1>5, PartKept, Names DEF LabInv, PartInv
  <2>2. doing["planner"] \notin ToPatch
    <3> SUFFICES ASSUME doing["planner"] \in ToPatch PROVE FALSE
      OBVIOUS
    <3>1. doing["planner"] \in Dispatching
      BY DEF ToPatch, ToTest, ToReviewer, Dispatching
    <3>2. ~ In("replace", "patch") /\ ~ In("assignment", "patch")
      BY <1>6, <3>1 DEF LabInv, QuietInv, Part
    <3> QED
      BY <1>3, <3>2 DEF Took
  <2>3. q \notin Gone => ~ In("assignment", "patch")'
    BY <1>2, <1>5, <1>6, Names DEF Part, Early, Gone, NoNew, Took
  <2>4. Part("patch", ToPatch)'
    BY <1>1, <1>2, <2>2, <2>3 DEF Part, Stays
  <2> QED
    BY <2>1, <2>4 DEF PartInv
<1>8. ReadyInv'
  BY <1>1, <1>2, <1>4, <1>5, Names DEF LabInv, ReadyInv, Stays, NoNew
<1>9. LetterInv'
  BY <1>4, <1>5, LetterKept, Names DEF LabInv, NoNew
<1>10. TestInv'
  <2>1. tested' = tested /\ killed' = killed
    BY DEF OnlyTalks
  <2> QED
    BY <1>2, <1>4, <1>5, <2>1, Names DEF LabInv, TestInv, Stays, NoNew
<1>11. ReviewInv'
  BY <1>2, <1>5, ReviewKept, Names DEF LabInv, ReviewInv
<1>12. ChainInv'
  <2>1. Undisturbed' => Undisturbed
    BY DEF Undisturbed, OnlyTalks, Took
  <2> SUFFICES ASSUME Undisturbed', Unfailed, FirstLetters, Chain
               PROVE  Unfailed' /\ FirstLetters' /\ Chain'
    BY <2>1, ChainHolds
  <2>2. x = m /\ q = next
    BY <1>1, <1>2, <1>3, <1>6 DEF FirstLetters, Took, Early, Gone, Part
  <2>3. Unfailed'
    BY <1>1, <1>2, <2>2, Names DEF Unfailed, Stays
  <2>4. FirstLetters'
    BY <1>1, <1>2, <1>5, Names DEF FirstLetters, NoNew, Stays
  <2>5. at \in Early \cup {"ready", "request"} /\ at \notin Changed /\ q \notin Changed
    BY <2>2 DEF Early, Changed
  <2>6. q = "patch_file" => doing["retriever"] \in Asked
    BY <2>2 DEF Chain, Took
  <2>7. q # "patch_file" => q = "ready"
    BY <2>2
  <2>8. Chain'
    BY <1>1, <1>2, <1>4, <1>5, <2>5, <2>6, <2>7, Names DEF Chain, NoNew, Stays
  <2> QED
    BY <2>3, <2>4, <2>8
<1> QED
  BY <1>2, <1>q, <1>7, <1>8, <1>9, <1>10, <1>11, <1>12 DEF LabInv

----------------------------------------------------------------------------
(* Steps that touch no mailbox.                                               *)
LEMMA QuietMail ==
    ASSUME mail' = mail, got' = got
    PROVE  /\ \A x, b : NoNew(x, b) /\ (In(x, b) => In(x, b)') /\ (Once(x, b) => Once(x, b)')
           /\ (PassTold => PassTold') /\ (PassedFirst => PassedFirst')
BY NoMail

\* It changes the file.
PatchChanges(at, q) ==
    \/ /\ at = "patch_file"
       /\ file' = IF file.content = "bug" THEN [file EXCEPT !.content = "fixed"] ELSE file
       /\ q = IF file.content = "bug" THEN "changed" ELSE "failed"
       /\ watch' = watch
    \/ /\ at = "changed" /\ file' = file /\ q = "notify"
       /\ watch' = [watch EXCEPT !.filemod = @ \/ watch.on]
    \/ /\ at = "notify" /\ file' = [file EXCEPT !.version = @ + 1] /\ q = "tell retriever"
       /\ watch' = [watch EXCEPT !.filemod = @ \/ watch.on]

LEMMA PatchChangesTypes ==
    ASSUME LabTypes, NEW at, NEW q, PatchChanges(at, q), DOMAIN doing' = Agents,
           crew' = crew, talk' = talk, tool' = tool, minds' = minds
    PROVE  LabTypes'
<1>1. file' \in [original : {"bug", "fixed"}, content : {"bug", "fixed"}, version : Nat]
  <2>1. file \in [original : {"bug", "fixed"}, content : {"bug", "fixed"}, version : Nat]
    BY DEF LabTypes
  <2>2. CASE file' = [file EXCEPT !.content = "fixed"] \/ file' = file
    BY <2>1, <2>2
  <2>3. CASE file' = [file EXCEPT !.version = @ + 1]
    <3>1. file.version + 1 \in Nat
      BY <2>1
    <3> QED
      BY <2>1, <2>3, <3>1
  <2> QED
    BY <2>2, <2>3 DEF PatchChanges
<1>2. watch' \in [on : BOOLEAN, filemod : BOOLEAN]
  <2>1. watch \in [on : BOOLEAN, filemod : BOOLEAN] /\ (watch.filemod \/ watch.on) \in BOOLEAN
    BY Zenon DEF LabTypes
  <2> QED
    BY <2>1, Zenon DEF PatchChanges
<1> QED
  BY <1>1, <1>2, Kept, Zenon DEF LabTypes

LEMMA OneMore == 1 + 1 = 2
OBVIOUS

LEMMA PatchChangesKeeps ==
    ASSUME LabTypes, LabInv, NEW at, NEW q, PatchChanges(at, q), Moves("patch", at, q),
           crew' = crew, talk' = talk, tool' = tool, minds' = minds
    PROVE  LabInv'
<1>1. /\ at \notin Early \cup Gone \cup {"ready", "request"}
      /\ q \notin Early \cup {"ready", "request", "patch_file"}
      /\ at \notin Over \cup {"unborn", "reaped"}
  BY DEF PatchChanges, Early, Gone, Over
<1>2. /\ killed' = killed /\ forks' = forks /\ mail' = mail /\ lost' = lost
      /\ service' = service /\ request' = request /\ tested' = tested
      /\ seen' = seen /\ has' = has /\ got' = got /\ verdict' = verdict
  BY Kept
<1>3. /\ CrewInv' /\ doing["planner"] \in Dispatching \cup Collecting
      /\ doing["patch"] = at /\ doing'["patch"] = q
      /\ Stays("planner") /\ Stays("retriever") /\ Stays("test") /\ Stays("reviewer")
      /\ Stays("tool")
  BY <1>1, <1>2, PatchMoves
<1>4. /\ \A x, b : NoNew(x, b) /\ (In(x, b) => In(x, b)') /\ (Once(x, b) => Once(x, b)')
      /\ (PassTold => PassTold') /\ (PassedFirst => PassedFirst')
  BY <1>2, QuietMail
<1>5. doing["planner"] \notin Dispatching /\ doing["planner"] \in Collecting
  BY <1>1, <1>3 DEF LabInv, QuietInv, Gone
<1>6. QuietInv'
  BY <1>3, <1>5 DEF QuietInv, Stays
<1>7. PartInv'
  <2>1. /\ Part("retriever", Dispatching)' /\ Part("test", ToTest)'
        /\ Part("reviewer", ToReviewer)'
    BY <1>3, <1>4, PartKept DEF LabInv, PartInv
  <2>2. Part("patch", ToPatch) /\ ToPatch \subseteq Dispatching
    BY DEF LabInv, PartInv, ToPatch, ToTest, ToReviewer, Dispatching
  <2>3. Part("patch", ToPatch)'
    BY <1>1, <1>3, <1>4, <1>5, <2>2 DEF Part, Stays, NoNew
  <2> QED
    BY <2>1, <2>3 DEF PartInv
<1>8. ReadyInv'
  BY <1>1, <1>2, <1>3, <1>4 DEF LabInv, ReadyInv, Stays, NoNew
<1>9. LetterInv'
  BY <1>2, <1>4 DEF LabInv, LetterInv, NoNew
<1>f. /\ file'.original = file.original
      /\ file.content = "fixed" => file'.content = "fixed"
      /\ at = "patch_file" => file'.version = file.version
      /\ at = "patch_file" /\ file.content = "bug" => file'.content = "fixed" /\ q = "changed"
      /\ at = "patch_file" /\ file.content # "bug" => q = "failed"
      /\ at = "changed" => file'.version = file.version /\ q = "notify"
      /\ at = "notify" => file'.version = file.version + 1 /\ q = "tell retriever"
      /\ at # "patch_file" => file'.content = file.content
  BY DEF PatchChanges, LabTypes
<1>g. file'.content = "fixed"
  <2>1. file.content \in {"bug", "fixed"}
    BY DEF LabTypes
  <2>2. at \in {"changed", "notify"} => file.content = "fixed"
    BY <1>3 DEF LabInv, TestInv
  <2>3. at \in {"patch_file", "changed", "notify"}
    BY DEF PatchChanges
  <2> QED
    BY <1>f, <2>1, <2>2, <2>3
<1>10. TestInv'
  BY <1>2, <1>3, <1>4, <1>g DEF LabInv, TestInv, Stays, NoNew
<1>11. ReviewInv'
  BY <1>2, <1>3, <1>4 DEF LabInv, ReviewInv, Stays, NoNew
<1>12. ChainInv'
  <2>1. Undisturbed' => Undisturbed
    BY <1>2, <1>f DEF Undisturbed
  <2> SUFFICES ASSUME Undisturbed', Unfailed, FirstLetters, Chain
               PROVE  Unfailed' /\ FirstLetters' /\ Chain'
    BY <2>1, ChainHolds
  <2>2. at \in {"patch_file", "changed", "notify"}
    BY DEF PatchChanges
  <2>3. at = "patch_file" => file.content = "bug"
    BY <1>3 DEF Chain
  <2>4. q \in {"changed", "notify", "tell retriever"}
    BY <1>f, <2>2, <2>3
  <2>5. Unfailed'
    BY <1>3, <2>4, Names DEF Unfailed, Stays
  <2>6. FirstLetters'
    BY <1>1, <1>3, <1>4, Names DEF FirstLetters, NoNew, Stays
  <2>7. at \notin Changed /\ file.version = 1
    BY <1>3, <2>2 DEF Chain, Changed
  <2>8. /\ q \in Changed => file'.version = 2
        /\ q \notin Changed => file'.version = 1
    <3>1. CASE at = "patch_file"
      BY <1>f, <2>3, <2>7, <3>1 DEF Changed
    <3>2. CASE at = "changed"
      BY <1>f, <2>7, <3>2 DEF Changed
    <3>3. CASE at = "notify"
      <4>1. file'.version = 1 + 1 /\ q \in Changed
        BY <1>f, <2>7, <3>3, Zenon DEF Changed
      <4> QED
        BY <4>1, OneMore, Zenon
    <3> QED
      BY <2>2, <3>1, <3>2, <3>3
  <2>9. doing["retriever"] \in Asked
    BY <1>1, <1>3 DEF Chain
  <2>10. ~ In("validate_context", "retriever")
         /\ doing["retriever"] \notin Asked \ {"tell found", "wait"}
    BY <1>3, <2>7 DEF Chain
  <2>11. Chain'
    BY <1>1, <1>2, <1>3, <1>4, <2>8, <2>9, <2>10 DEF Chain, NoNew, Stays
  <2> QED
    BY <2>5, <2>6, <2>11
<1> QED
  BY <1>3, <1>6, <1>7, <1>8, <1>9, <1>10, <1>11, <1>12 DEF LabInv

LEMMA PatchKeeps ==
    ASSUME LabTypes, LabInv, PatchAgent
    PROVE  LabTypes' /\ LabInv'
<1>0. /\ "retriever" \in Agents /\ "planner" \in Agents /\ "test" \in Agents
      /\ "patch" \in Agents /\ "patch" \in Workers
      /\ "note" \in Letters /\ "patch ready" \in Letters /\ "validate_context" \in Letters
      /\ "file patched" \in Letters
  BY Names DEF Letters
<1>1. ASSUME NEW at, NEW to, NEW m, NEW q, Tell("patch", at, to, m, q),
             PatchTells(at, to, m, q), to \in Agents, m \in Letters, q # "failed"
      PROVE  LabTypes' /\ LabInv'
  <2>1. LabTypes' /\ Sent(to, m) /\ Moves("patch", at, q) /\ OnlyTalks /\ seen' = seen
    BY <1>0, <1>1, TellStep
  <2> QED
    BY <1>1, <2>1, PatchTalks
<1>2. ASSUME NEW at, NEW to, NEW m, NEW next, MustTell("patch", at, to, m, next),
             \A q \in {next, "failed"} : PatchTells(at, to, m, q), next # "failed",
             to \in Agents, m \in Letters
      PROVE  LabTypes' /\ LabInv'
  <2> DEFINE q == IF Accepts(to) THEN next ELSE "failed"
  <2>1. LabTypes' /\ Sent(to, m) /\ OnlyTalks /\ seen' = seen /\ Moves("patch", at, q)
    BY <1>0, <1>2, MustTellStep
  <2>2. PatchTells(at, to, m, q) /\ (q = "failed" => ~ Accepts(to))
    BY <1>2
  <2> HIDE DEF q
  <2> QED
    BY <2>1, <2>2, PatchTalks
<1>3. ASSUME NEW at, NEW m, NEW next, Expect("patch", at, m, next),
             \/ at = "assignment" /\ m = "assignment" /\ next = "ready"
             \/ at = "request" /\ m = "replace" /\ next = "patch_file"
      PROVE  LabTypes' /\ LabInv'
  <2>1. PICK x \in Letters : /\ LabTypes' /\ OnlyTalks /\ seen' = seen
                             /\ PassedFirst => PassedFirst'
                             /\ Took("patch", x)
                             /\ Moves("patch", at, IF x = m THEN next ELSE "failed")
    BY <1>0, <1>3, ExpectStep
  <2> DEFINE q == IF x = m THEN next ELSE "failed"
  <2>2. Moves("patch", at, q) /\ q = IF x = m THEN next ELSE "failed"
    BY <2>1
  <2> HIDE DEF q
  <2> QED
    BY <1>3, <2>1, <2>2, PatchExpects
<1>4. ASSUME NEW at, NEW q, At("patch", at), Goto("patch", q), PatchChanges(at, q),
             crew' = crew, talk' = talk, tool' = tool, minds' = minds
      PROVE  LabTypes' /\ LabInv'
  <2>1. DOMAIN doing' = Agents /\ Moves("patch", at, q)
    BY <1>0, <1>4, Going DEF LabTypes
  <2> QED
    BY <1>4, <2>1, PatchChangesTypes, PatchChangesKeeps
<1>5. CASE PatchFile
  <2> DEFINE q == IF file.content = "bug" THEN "changed" ELSE "failed"
  <2>1. /\ At("patch", "patch_file") /\ Goto("patch", q) /\ PatchChanges("patch_file", q)
        /\ crew' = crew /\ talk' = talk /\ tool' = tool /\ minds' = minds
    BY <1>5, Zenon DEF PatchFile, PatchChanges
  <2> HIDE DEF q
  <2> QED
    BY <1>4, <2>1
<1>6. CASE ContentChanged
  <2>1. PatchChanges("changed", "notify")
    BY <1>6, Zenon DEF ContentChanged, PatchChanges
  <2> QED
    BY <1>4, <1>6, <2>1, Zenon DEF ContentChanged
<1>7. CASE NotifyModified
  <2>1. PatchChanges("notify", "tell retriever")
    BY <1>7, Zenon DEF NotifyModified, PatchChanges
  <2> QED
    BY <1>4, <1>7, <2>1, Zenon DEF NotifyModified
<1>8. CASE Tell("patch", "ready", "planner", "patch ready", "request")
  BY <1>0, <1>1, <1>8 DEF PatchTells
<1>9. CASE Tell("patch", "tell planner", "planner", "note", "exited")
  BY <1>0, <1>1, <1>9 DEF PatchTells
<1>10. CASE MustTell("patch", "tell retriever", "retriever", "validate_context", "tell test")
  <2>1. \A q \in {"tell test", "failed"} :
          PatchTells("tell retriever", "retriever", "validate_context", q)
    BY DEF PatchTells
  <2> QED
    BY <1>0, <1>2, <1>10, <2>1
<1>11. CASE MustTell("patch", "tell test", "test", "file patched", "tell planner")
  <2>1. \A q \in {"tell planner", "failed"} : PatchTells("tell test", "test", "file patched", q)
    BY DEF PatchTells
  <2> QED
    BY <1>0, <1>2, <1>11, <2>1
<1> QED
  BY <1>3, <1>5, <1>6, <1>7, <1>8, <1>9, <1>10, <1>11, Zenon DEF PatchAgent

----------------------------------------------------------------------------
(* The test agent.                                                            *)
TestSends(at, to, m, q) ==
    \/ at = "ready" /\ to = "planner" /\ m = "test ready" /\ q = "wait"
    \/ at = "answer" /\ to = "planner" /\ m = request /\ m \in Answers
         /\ q \in {"tell reviewer", "failed"}
    \/ at = "tell reviewer" /\ to = "reviewer" /\ m = request /\ m \in Answers
         /\ q \in {"exited", "failed"}

LEMMA TestMoves ==
    ASSUME LabInv, killed' = killed, forks' = forks, NEW at, NEW q, Moves("test", at, q),
           at \notin Over \cup {"unborn", "reaped"}
    PROVE  /\ CrewInv' /\ doing["planner"] \in Dispatching \cup Collecting
           /\ doing["test"] = at /\ doing'["test"] = q
           /\ Stays("planner") /\ Stays("retriever") /\ Stays("patch") /\ Stays("reviewer")
           /\ Stays("tool")
<1>1. /\ "test" \in Workers /\ Agents = Workers \cup {"planner"}
      /\ doing["test"] = at /\ doing'["test"] = q
      /\ Stays("planner") /\ Stays("retriever") /\ Stays("patch") /\ Stays("reviewer")
      /\ Stays("tool")
  BY Names DEF Moves, Stays
<1> QED
  BY <1>1, WorkerMoves DEF LabInv

\* The chain, when neither the retriever nor the patch agent moves.
LEMMA ChainStays ==
    ASSUME LabInv, NEW w \in Workers, NEW at, NEW q, Moves(w, at, q),
           Undisturbed' => Undisturbed /\ q # "failed", q \notin Early, Chain => Chain',
           Undisturbed' => \A v \in Workers : doing[v] \in Early => \A x : NoNew(x, v)
    PROVE  ChainInv'
<1>1. w \in Agents /\ Workers \subseteq Agents /\ doing'[w] = q
      /\ \A v \in Workers : v # w => doing'[v] = doing[v]
  BY Names DEF Moves
<1>2. Undisturbed' /\ Unfailed => Unfailed'
  BY <1>1, Zenon DEF Unfailed
<1>3. Undisturbed' /\ FirstLetters => FirstLetters'
  <2> SUFFICES ASSUME Undisturbed', FirstLetters, NEW v \in Workers, doing'[v] \in Early,
                      NEW x, In(x, v)'
               PROVE  x = "assignment"
    BY DEF FirstLetters
  <2>1. v # w /\ doing[v] \in Early
    BY <1>1, Zenon
  <2> QED
    BY <2>1, Zenon DEF FirstLetters, NoNew
<1> QED
  BY <1>2, <1>3, ChainHolds

LEMMA TestTalks ==
    ASSUME LabTypes, LabInv, OnlyTalks, seen' = seen,
           NEW at, NEW to, NEW m, NEW q, TestSends(at, to, m, q),
           Moves("test", at, q), Sent(to, m), q = "failed" => ~ Accepts(to),
           q = "tell reviewer" => Accepts(to)
    PROVE  LabInv'
<1>1. /\ at \notin Early \cup Gone /\ q \notin Early /\ at \notin Over \cup {"unborn", "reaped"}
      /\ to \in {"planner", "reviewer"} /\ to \in Agents
      /\ m \notin {"assignment", "patch ready", "watching", "tool ready", "replace",
                   "validate_context", "file patched", "cache_probe", "approve", "reject"}
      /\ q \in {"wait", "tell reviewer", "exited", "failed"}
  BY Names DEF TestSends, Early, Gone, Answers, Over
<1>2. /\ CrewInv' /\ doing["planner"] \in Dispatching \cup Collecting
      /\ doing["test"] = at /\ doing'["test"] = q
      /\ Stays("planner") /\ Stays("retriever") /\ Stays("patch") /\ Stays("reviewer")
      /\ Stays("tool")
  BY <1>1, TestMoves DEF OnlyTalks
<1>3. /\ got' = got /\ request' = request /\ service' = service /\ file' = file
      /\ tested' = tested /\ killed' = killed /\ has' = has /\ watch' = watch
      /\ verdict' = verdict
  BY DEF OnlyTalks
<1>4. /\ \A x : \A b \in Agents : b # to \/ x # m => NoNew(x, b)
      /\ \A x : \A b \in Agents : b # to \/ x # m => (Once(x, b) => Once(x, b)')
      /\ PassTold => PassTold'
      /\ PassedFirst => PassedFirst'
  BY <1>1, <1>3, SentLeaves
<1>5. \A b \in Agents : NoNew("assignment", b) /\ (Once("assignment", b) => Once("assignment", b)')
  BY <1>1, <1>4
<1>6. PartInv'
  <2>1. /\ Part("retriever", Dispatching)' /\ Part("patch", ToPatch)'
        /\ Part("reviewer", ToReviewer)'
    BY <1>2, <1>5, PartKept, Names DEF LabInv, PartInv
  <2>2. Part("test", ToTest)
    BY DEF LabInv, PartInv
  <2>3. doing["planner"] \notin ToTest /\ ~ In("assignment", "test")'
    BY <1>1, <1>2, <1>5, <2>2, Names DEF Part, NoNew, Gone
  <2>4. Part("test", ToTest)'
    BY <1>1, <1>2, <2>3 DEF Part, Stays
  <2> QED
    BY <2>1, <2>4 DEF PartInv
<1>7. ReadyInv'
  BY <1>1, <1>2, <1>3, <1>4, Names DEF LabInv, ReadyInv, Stays, NoNew
<1>8. LetterInv'
  <2>1. \A x : \A b \in Agents : In(x, b)' => In(x, b) \/ (b = to /\ x = m)
    BY DEF Sent
  <2>2. /\ to = "patch" => m \in {"assignment", "replace"}
        /\ to = "test" => m \in {"assignment", "file patched"}
        /\ to = "retriever" => m \in {"assignment", "validate_context"}
        /\ to = "reviewer" => \/ m \in {"assignment", "cache_probe"}
                              \/ m = request /\ m \in {"passed", "gone"}
        /\ to # "tool" /\ to \in Agents
    BY <1>1 DEF TestSends, Answers
  <2>3. LetterInv
    BY DEF LabInv
  <2> QED
    BY <1>3, <2>1, <2>2, <2>3, LetterKept, Zenon
<1>q. doing["planner"] \in Dispatching => at = "ready" /\ m = "test ready" /\ to = "planner"
                                           /\ q = "wait"
  BY <1>1, <1>2 DEF LabInv, QuietInv, TestSends, Early
<1>9. QuietInv'
  <2> SUFFICES ASSUME doing["planner"] \in Dispatching PROVE QuietInv'
    BY <1>2 DEF QuietInv, Stays
  <2>1. \A x : \A b \in Agents : In(x, b)' => In(x, b) \/ (b = "planner" /\ x = "test ready")
    BY <1>q DEF Sent
  <2>3. QuietInv
    BY DEF LabInv
  <2>4. /\ \A x : ~ In(x, "retriever")'
        /\ ~ In("replace", "patch")' /\ ~ In("file patched", "test")'
        /\ \A x : In(x, "planner")' => x \in {"tool ready", "patch ready", "test ready", "watching"}
        /\ ~ In("cache_probe", "reviewer")'
    BY <2>1, <2>3, Names DEF QuietInv
  <2> QED
    BY <1>2, <1>3, <1>q, <2>3, <2>4 DEF QuietInv, Stays
<1>r. at # "ready" => m = request /\ doing["planner"] \notin Dispatching
                      /\ doing["planner"] \in Collecting
  <2>1. at # "ready" => m = request
    BY DEF TestSends
  <2> QED
    BY <1>2, <1>q, <2>1
<1>10. TestInv'
  <2>1. doing["test"] \in Early \cup {"ready", "wait", "call"} <=> at = "ready"
    BY <1>2 DEF TestSends, Early
  <2>2. request # "none" => file.content = "fixed"
    BY DEF LabInv, TestInv
  <2>3. q = "tell reviewer" => request # "none" /\ request \in Answers
    BY DEF TestSends, Answers
  <2>4. NoNew("file patched", "test")
    BY <1>1, <1>4, Names
  <2>5. q \in Early \cup {"ready", "wait", "call"} => at = "ready"
    BY <1>1 DEF TestSends
  <2>6. TestInv /\ q # "call" /\ q # "answer"
    BY <1>1 DEF LabInv
  <2>7. /\ q \in Early \cup {"ready", "wait", "call"} => request = "none"
        /\ q \in {"call", "answer", "tell reviewer"} => file.content = "fixed"
    BY <1>2, <2>1, <2>2, <2>3, <2>5, <2>6 DEF TestInv
  <2> HIDE <1>1
  <2> QED
    BY <1>2, <1>3, <2>2, <2>3, <2>4, <2>6, <2>7 DEF TestInv, Stays, NoNew
<1>11. ReviewInv'
  <2>1. /\ In("passed", "planner")' => In("passed", "planner") \/ request = "passed"
        /\ NoNew("approve", "planner") /\ NoNew("reject", "planner")
    BY <1>1, <1>4, <1>r, Names DEF Sent, TestSends
  <2>2. q = "tell reviewer" /\ request = "passed" => PassTold'
    <3> SUFFICES ASSUME q = "tell reviewer", request = "passed" PROVE PassTold'
      OBVIOUS
    <3>1. to = "planner" /\ m = "passed"
      BY DEF TestSends
    <3> QED
      BY <3>1 DEF PassTold, Sent
  <2>3. In("passed", "reviewer")' =>
           In("passed", "reviewer") \/ (at = "tell reviewer" /\ request = "passed")
    <3>1. NoNew("passed", "reviewer") \/ (to = "reviewer" /\ m = "passed")
      BY <1>4, Names
    <3>2. to = "reviewer" => at = "tell reviewer" /\ m = request
      BY DEF TestSends
    <3> QED
      BY <3>1, <3>2 DEF NoNew
  <2>4. (q = "tell reviewer" /\ request = "passed")
          \/ In("passed", "reviewer")' \/ "passed" \in has \/ doing["reviewer"] = "approve"
            => PassTold' /\ request = "passed"
    BY <1>2, <1>4, <2>2, <2>3 DEF LabInv, ReviewInv
  <2>5. ReviewInv
    BY DEF LabInv
  <2>6. PassedFirst'
    BY <1>4, <2>5 DEF ReviewInv
  <2> QED
    BY <1>2, <1>3, <2>1, <2>4, <2>5, <2>6 DEF ReviewInv, Stays, NoNew
<1>12. ChainInv'
  <2>1. ASSUME Undisturbed' PROVE Undisturbed /\ q # "failed"
    BY <2>1 DEF Undisturbed, OnlyTalks, Sent, Vital, TestSends, Answers
  <2>2. Chain => Chain'
    BY <1>1, <1>2, <1>3, <1>4, ChainKept, Names
  <2>3. \A v \in Workers : doing[v] \in Early => \A x : NoNew(x, v)
    <3>1. to = "reviewer" => doing["reviewer"] \notin Early
      BY <1>r DEF LabInv, ReadyInv, TestSends
    <3> QED
      BY <1>1, <1>4, <3>1, Names
  <2> QED
    BY <1>1, <2>1, <2>2, <2>3, ChainStays, Names
<1> QED
  BY <1>2, <1>6, <1>7, <1>8, <1>9, <1>10, <1>11, <1>12 DEF LabInv

LEMMA TestTakes ==
    ASSUME LabTypes, LabInv, OnlyTalks, seen' = seen,
           NEW at, NEW x, NEW q,
           \/ at = "assignment" /\ q = IF x = "assignment" THEN "ready" ELSE "failed"
           \/ at = "wait" /\ q = "call",
           Moves("test", at, q), Took("test", x), PassedFirst => PassedFirst'
    PROVE  LabInv'
<1>1. /\ at \notin Over \cup {"unborn", "reaped"} /\ q \notin Early /\ "test" \in Workers
      /\ at \in {"assignment", "wait"} /\ q \in {"ready", "call", "failed"}
      /\ at = "wait" => q = "call" /\ at \notin Early \cup Gone
      /\ at = "assignment" => q # "call"
  BY Names DEF Over, Early, Gone
<1>2. /\ CrewInv' /\ doing["planner"] \in Dispatching \cup Collecting
      /\ doing["test"] = at /\ doing'["test"] = q
      /\ Stays("planner") /\ Stays("retriever") /\ Stays("patch") /\ Stays("reviewer")
      /\ Stays("tool")
  BY <1>1, TestMoves DEF OnlyTalks
<1>3. x \in {"assignment", "file patched"}
  BY DEF LabInv, LetterInv, Took
<1>4. /\ got' = got /\ request' = request /\ service' = service /\ file' = file
      /\ tested' = tested /\ killed' = killed /\ has' = has /\ watch' = watch
      /\ verdict' = verdict
  BY DEF OnlyTalks
<1>5. /\ \A y : \A b \in Agents : NoNew(y, b) /\ (Once(y, b) => Once(y, b)')
      /\ PassTold => PassTold'
  BY <1>1, <1>4, TookLeaves
<1>6. Part("test", ToTest)
  BY DEF LabInv, PartInv
<1>w. at = "wait" => x = "file patched" /\ doing["planner"] \notin Dispatching
  <2>1. at = "wait" => x = "file patched"
    BY <1>1, <1>2, <1>3, <1>6 DEF Part, Took
  <2>2. In(x, "test")
    BY DEF Took
  <2> QED
    BY <2>1, <2>2 DEF LabInv, QuietInv
<1>q. QuietInv'
  <2> SUFFICES ASSUME doing["planner"] \in Dispatching PROVE QuietInv'
    BY <1>2 DEF QuietInv, Stays
  <2>1. QuietInv
    BY DEF LabInv
  <2>2. q \in {"ready", "failed"}
    BY <1>1, <1>w
  <2> QED
    BY <1>2, <1>4, <1>5, <2>1, <2>2, Names DEF QuietInv, Stays, NoNew
<1>7. PartInv'
  <2>1. /\ Part("retriever", Dispatching)' /\ Part("patch", ToPatch)'
        /\ Part("reviewer", ToReviewer)'
    BY <1>2, <1>5, PartKept, Names DEF LabInv, PartInv
  <2>2. doing["planner"] \notin ToTest
    <3> SUFFICES ASSUME doing["planner"] \in ToTest PROVE FALSE
      OBVIOUS
    <3>1. doing["planner"] \in Dispatching
      BY DEF ToTest, ToReviewer, Dispatching
    <3>2. ~ In("file patched", "test") /\ ~ In("assignment", "test")
      BY <1>6, <3>1 DEF LabInv, QuietInv, Part
    <3> QED
      BY <1>3, <3>2 DEF Took
  <2>3. q \notin Gone => ~ In("assignment", "test")'
    <3>1. CASE at = "wait"
      BY <1>1, <1>2, <1>5, <1>6, <3>1, Names DEF Part, NoNew
    <3>2. CASE at = "assignment"
      <4>1. Once("assignment", "test")
        BY <1>2, <1>6, <3>2 DEF Part, Early
      <4>2. q \notin Gone => x = "assignment"
        BY <3>2 DEF Gone
      <4> QED
        BY <4>1, <4>2 DEF Took
    <3> QED
      BY <1>1, <3>1, <3>2
  <2>4. Part("test", ToTest)'
    BY <1>1, <1>2, <2>2, <2>3 DEF Part, Stays
  <2> QED
    BY <2>1, <2>4 DEF PartInv
<1>8. ReadyInv'
  BY <1>1, <1>2, <1>4, <1>5, Names DEF LabInv, ReadyInv, Stays, NoNew
<1>9. LetterInv'
  BY <1>4, <1>5, LetterKept, Names DEF LabInv, NoNew
<1>10. TestInv'
  <2>1. TestInv
    BY DEF LabInv
  <2>2. at \in Early \cup {"ready", "wait", "call"}
    BY <1>1 DEF Early
  <2>3. q = "call" => In("file patched", "test")
    BY <1>1, <1>w DEF Took
  <2>4. q \notin {"answer", "tell reviewer"}
    BY <1>1
  <2>5. In("file patched", "test")' => In("file patched", "test")
    BY <1>5, Names DEF NoNew
  <2>6. request = "none"
    BY <1>2, <2>1, <2>2 DEF TestInv
  <2> QED
    BY <1>2, <1>4, <2>1, <2>3, <2>4, <2>5, <2>6 DEF TestInv, Stays
<1>11. ReviewInv'
  <2>1. ReviewInv
    BY DEF LabInv
  <2>2. q # "tell reviewer"
    BY <1>1
  <2> QED
    BY <1>2, <1>4, <1>5, <2>1, <2>2, Names DEF ReviewInv, Stays, NoNew
<1>12. ChainInv'
  <2>1. ASSUME Undisturbed' PROVE Undisturbed /\ q # "failed"
    <3>1. Undisturbed
      BY <2>1 DEF Undisturbed, OnlyTalks, Took
    <3>2. FirstLetters
      BY <3>1 DEF LabInv, ChainInv
    <3>3. at = "assignment" => x = "assignment"
      BY <1>1, <1>2, <3>2 DEF FirstLetters, Took, Early
    <3> QED
      BY <1>1, <3>1, <3>3
  <2>2. Chain => Chain'
    BY <1>2, <1>4, <1>5, ChainKept, Names
  <2>3. \A v \in Workers : \A y : NoNew(y, v)
    BY <1>5, Names
  <2> QED
    BY <1>1, <2>1, <2>2, <2>3, ChainStays
<1> QED
  BY <1>2, <1>q, <1>7, <1>8, <1>9, <1>10, <1>11, <1>12 DEF LabInv

LEMMA TestCallsKeeps ==
    ASSUME LabTypes, LabInv, TestCalls
    PROVE  LabTypes' /\ LabInv'
<1>1. /\ killed' = killed /\ forks' = forks /\ mail' = mail /\ lost' = lost
      /\ file' = file /\ watch' = watch /\ service' = service /\ tested' = tested
      /\ seen' = seen /\ has' = has /\ got' = got /\ verdict' = verdict
      /\ request' = IF service = "up" THEN "queued" ELSE "gone"
  BY Kept DEF TestCalls
<1>2. DOMAIN doing' = Agents /\ Moves("test", "call", "answer") /\ "test" \in Workers
  BY Going, Names DEF TestCalls, LabTypes
<1>3. LabTypes'
  <2>1. request' \in {"none", "queued", "passed", "gone"}
    BY <1>1
  <2> QED
    BY <1>1, <1>2, <2>1, Zenon DEF LabTypes
<1>4. /\ CrewInv' /\ doing["planner"] \in Dispatching \cup Collecting
      /\ doing["test"] = "call" /\ doing'["test"] = "answer"
      /\ Stays("planner") /\ Stays("retriever") /\ Stays("patch") /\ Stays("reviewer")
      /\ Stays("tool")
  BY <1>1, <1>2, TestMoves DEF Over
<1>5. /\ \A x, b : NoNew(x, b) /\ (In(x, b) => In(x, b)') /\ (Once(x, b) => Once(x, b)')
      /\ (PassTold => PassTold') /\ (PassedFirst => PassedFirst')
  BY <1>1, QuietMail
<1>6. doing["planner"] \notin Dispatching /\ doing["planner"] \in Collecting
  BY <1>4 DEF LabInv, QuietInv, Early
<1>7. QuietInv'
  BY <1>4, <1>6 DEF QuietInv, Stays
<1>8. PartInv'
  <2>1. /\ Part("retriever", Dispatching)' /\ Part("patch", ToPatch)'
        /\ Part("reviewer", ToReviewer)'
    BY <1>4, <1>5, PartKept DEF LabInv, PartInv
  <2>2. Part("test", ToTest) /\ ToTest \subseteq Dispatching
    BY DEF LabInv, PartInv, ToTest, ToReviewer, Dispatching
  <2>3. Part("test", ToTest)'
    BY <1>4, <1>5, <1>6, <2>2 DEF Part, Stays, NoNew, Early, Gone
  <2> QED
    BY <2>1, <2>3 DEF PartInv
<1>9. ReadyInv'
  BY <1>1, <1>4, <1>5 DEF LabInv, ReadyInv, Stays, NoNew, Early
<1>10. /\ request = "none" /\ file.content = "fixed" /\ tested = "nothing"
       /\ request' \in {"queued", "gone"}
       /\ request' = "gone" => "tool" \in killed
  <2>1. request = "none" /\ file.content = "fixed"
    BY <1>4 DEF LabInv, TestInv
  <2>2. tested = "nothing"
    BY <2>1 DEF LabInv, TestInv
  <2>3. service # "none"
    BY <1>6 DEF LabInv, ReadyInv
  <2>4. service = "down" => "tool" \in killed
    BY <2>2 DEF LabInv, TestInv
  <2>5. service \in {"none", "up", "down"}
    BY DEF LabTypes
  <2> QED
    BY <1>1, <2>1, <2>2, <2>3, <2>4, <2>5
<1>11. LetterInv'
  <2>1. LetterInv
    BY DEF LabInv
  <2> QED
    BY <1>1, <1>5, <1>10, <2>1 DEF LetterInv, NoNew
<1>12. TestInv'
  <2>1. TestInv
    BY DEF LabInv
  <2> QED
    BY <1>1, <1>4, <1>5, <1>10, <2>1 DEF TestInv, Stays, NoNew, Early
<1>13. ReviewInv'
  <2>1. ReviewInv
    BY DEF LabInv
  <2> QED
    BY <1>1, <1>4, <1>5, <1>10, <2>1 DEF ReviewInv, Stays, NoNew
<1>14. ChainInv'
  <2>1. Undisturbed' => Undisturbed
    BY <1>1 DEF Undisturbed
  <2>2. Chain => Chain'
    BY <1>1, <1>4, <1>5, ChainKept
  <2>3. "answer" # "failed" /\ "answer" \notin Early
    BY DEF Early
  <2> QED
    BY <1>2, <1>5, <2>1, <2>2, <2>3, ChainStays
<1> QED
  BY <1>3, <1>4, <1>7, <1>8, <1>9, <1>11, <1>12, <1>13, <1>14 DEF LabInv

LEMMA TestKeeps ==
    ASSUME LabTypes, LabInv, Test
    PROVE  LabTypes' /\ LabInv'
<1>0. /\ "planner" \in Agents /\ "test" \in Agents /\ "reviewer" \in Agents
      /\ "test" \in Workers /\ "test ready" \in Letters /\ Answers \subseteq Letters
  BY Names DEF Letters, Answers
<1>1. CASE Tell("test", "ready", "planner", "test ready", "wait")
  <2>1. /\ LabTypes' /\ Sent("planner", "test ready") /\ Moves("test", "ready", "wait")
        /\ OnlyTalks /\ seen' = seen
    BY <1>0, <1>1, TellStep
  <2>2. TestSends("ready", "planner", "test ready", "wait")
    BY DEF TestSends
  <2> QED
    BY <2>1, <2>2, TestTalks
<1>2. ASSUME NEW at, NEW to, NEW next, TestTells(at, to, next),
             \/ at = "answer" /\ to = "planner" /\ next = "tell reviewer"
             \/ at = "tell reviewer" /\ to = "reviewer" /\ next = "exited"
      PROVE  LabTypes' /\ LabInv'
  <2> DEFINE q == IF Accepts(to) THEN next ELSE "failed"
  <2>1. /\ LabTypes' /\ Sent(to, request) /\ OnlyTalks /\ seen' = seen /\ Moves("test", at, q)
        /\ request \in Answers
    BY <1>0, <1>2, MustTellStep DEF TestTells
  <2>2. TestSends(at, to, request, q)
    BY <1>2, <2>1 DEF TestSends
  <2>3. (q = "failed" => ~ Accepts(to)) /\ (q = "tell reviewer" => Accepts(to))
    BY <1>2
  <2> HIDE DEF q
  <2> QED
    BY <2>1, <2>2, <2>3, TestTalks
<1>3. CASE Expect("test", "assignment", "assignment", "ready")
  <2>1. PICK x \in Letters : /\ LabTypes' /\ OnlyTalks /\ seen' = seen
                             /\ PassedFirst => PassedFirst'
                             /\ Took("test", x)
                             /\ Moves("test", "assignment",
                                      IF x = "assignment" THEN "ready" ELSE "failed")
    BY <1>0, <1>3, ExpectStep
  <2> DEFINE q == IF x = "assignment" THEN "ready" ELSE "failed"
  <2>2. Moves("test", "assignment", q) /\ q = IF x = "assignment" THEN "ready" ELSE "failed"
    BY <2>1
  <2> HIDE DEF q
  <2> QED
    BY <2>1, <2>2, TestTakes
<1>4. CASE TestWaits
  <2>1. OnlyTalks /\ seen' = seen /\ seen' \in Nat
    BY <1>4, Kept, Zenon DEF TestWaits, OnlyTalks, LabTypes
  <2>2. PICK x \in Letters : Took("test", x) /\ mail' \in [Agents -> Seq(Letters)]
    BY <1>0, <1>4, ReceiveStep, Zenon DEF TestWaits
  <2>3. DOMAIN doing' = Agents /\ Moves("test", "wait", "call")
    BY <1>0, <1>4, Going, Zenon DEF TestWaits, LabTypes
  <2>4. PassedFirst => PassedFirst'
    BY <1>0, <1>4, <2>1, ReceiveIn DEF OnlyTalks, TestWaits, LabTypes
  <2>5. LabTypes'
    BY <2>1, <2>2, <2>3, TalkTypes
  <2> QED
    BY <2>1, <2>2, <2>3, <2>4, <2>5, TestTakes
<1>5. CASE TestTells("answer", "planner", "tell reviewer")
  BY <1>2, <1>5
<1>6. CASE TestTells("tell reviewer", "reviewer", "exited")
  BY <1>2, <1>6
<1> QED
  BY <1>1, <1>3, <1>4, <1>5, <1>6, TestCallsKeeps, Zenon DEF Test

----------------------------------------------------------------------------
(* The service of the dynamic tool.                                           *)
ToolWorks(at, q) ==
    \/ at = "register" /\ q = "ready" /\ service' = "up" /\ request' = request
         /\ tested' = tested
    \/ at = "recv" /\ q = "leave" /\ service' = service
         /\ request = "queued" /\ request' = "passed" /\ tested' = file.content
    \/ at = "leave" /\ q = "exited" /\ service' = "down" /\ request' = request
         /\ tested' = tested

LEMMA ToolMoves ==
    ASSUME LabInv, killed' = killed, forks' = forks, NEW at, NEW q, Moves("tool", at, q),
           at \notin Over \cup {"unborn", "reaped"}
    PROVE  /\ CrewInv' /\ doing["planner"] \in Dispatching \cup Collecting
           /\ doing["tool"] = at /\ doing'["tool"] = q
           /\ Stays("planner") /\ Stays("retriever") /\ Stays("patch") /\ Stays("reviewer")
           /\ Stays("test") /\ "tool" \in Workers
<1>1. /\ "tool" \in Workers /\ Agents = Workers \cup {"planner"}
      /\ doing["tool"] = at /\ doing'["tool"] = q
      /\ Stays("planner") /\ Stays("retriever") /\ Stays("patch") /\ Stays("reviewer")
      /\ Stays("test")
  BY Names DEF Moves, Stays
<1> QED
  BY <1>1, WorkerMoves DEF LabInv

LEMMA ToolWorksKeeps ==
    ASSUME LabTypes, LabInv, NEW at, NEW q, ToolWorks(at, q), Moves("tool", at, q),
           crew' = crew, talk' = talk, world' = world, minds' = minds
    PROVE  LabInv'
<1>1. /\ at \in {"register", "recv", "leave"} /\ q \in {"ready", "leave", "exited"}
      /\ at \notin Over \cup {"unborn", "reaped"} /\ q \notin Early /\ q # "failed"
  BY DEF ToolWorks, Over, Early
<1>2. /\ killed' = killed /\ forks' = forks /\ mail' = mail /\ lost' = lost
      /\ file' = file /\ watch' = watch
      /\ seen' = seen /\ has' = has /\ got' = got /\ verdict' = verdict
  BY Kept
<1>3. /\ CrewInv' /\ doing["planner"] \in Dispatching \cup Collecting
      /\ doing["tool"] = at /\ doing'["tool"] = q
      /\ Stays("planner") /\ Stays("retriever") /\ Stays("patch") /\ Stays("reviewer")
      /\ Stays("test") /\ "tool" \in Workers
  BY <1>1, <1>2, ToolMoves
<1>4. /\ \A x, b : NoNew(x, b) /\ (In(x, b) => In(x, b)') /\ (Once(x, b) => Once(x, b)')
      /\ (PassTold => PassTold') /\ (PassedFirst => PassedFirst')
  BY <1>2, QuietMail
<1>5. /\ TestInv /\ ReviewInv /\ LetterInv /\ QuietInv /\ ReadyInv /\ PartInv
  BY DEF LabInv
<1>6. PartInv'
  BY <1>3, <1>4, <1>5, PartKept DEF PartInv
<1>7. ReadyInv'
  <2>1. service' # "none" \/ service' = service
    BY DEF ToolWorks
  <2>2. q = "ready" => service' # "none"
    BY DEF ToolWorks
  <2> QED
    BY <1>3, <1>4, <1>5, <2>1, <2>2 DEF ReadyInv, Stays, NoNew
<1>8. /\ at = "recv" => request = "queued" /\ request' = "passed" /\ tested' = "fixed"
                        /\ service' = service /\ q = "leave"
      /\ at # "recv" => request' = request /\ tested' = tested
      /\ at = "register" => service' = "up" /\ q = "ready"
      /\ at = "leave" => service' = "down" /\ q = "exited" /\ tested # "nothing"
  BY <1>3, <1>5 DEF ToolWorks, TestInv
<1>9. QuietInv'
  <2> SUFFICES ASSUME doing["planner"] \in Dispatching PROVE QuietInv'
    BY <1>3 DEF QuietInv, Stays
  <2>1. at = "register"
    BY <1>1, <1>3, <1>5, <1>8 DEF QuietInv
  <2> QED
    BY <1>2, <1>3, <1>4, <1>5, <1>8, <2>1 DEF QuietInv, Stays, NoNew
<1>10. LetterInv'
  BY <1>4, <1>5, <1>8 DEF LetterInv, NoNew
<1>11. TestInv'
  <2>1. CASE at = "register"
    BY <1>2, <1>3, <1>4, <1>5, <1>8, <2>1 DEF TestInv, Stays, NoNew
  <2>2. CASE at = "recv"
    BY <1>2, <1>3, <1>4, <1>5, <1>8, <2>2 DEF TestInv, Stays, NoNew, Answers
  <2>3. CASE at = "leave"
    BY <1>2, <1>3, <1>4, <1>5, <1>8, <2>3 DEF TestInv, Stays, NoNew
  <2> QED
    BY <1>1, <2>1, <2>2, <2>3
<1>12. ReviewInv'
  <2>1. CASE at = "recv"
    <3>1. doing["test"] # "tell reviewer" /\ ~ In("passed", "reviewer")
      BY <1>5, <1>8, <2>1 DEF TestInv, LetterInv, Answers
    <3>2. doing["reviewer"] # "approve" /\ "passed" \notin has /\ "test" \notin has
      BY <1>5, <1>8, <2>1 DEF ReviewInv
    <3> QED
      BY <1>2, <1>3, <1>4, <1>5, <1>8, <2>1, <3>1, <3>2 DEF ReviewInv, Stays, NoNew
  <2>2. CASE at # "recv"
    BY <1>2, <1>3, <1>4, <1>5, <1>8, <2>2 DEF ReviewInv, Stays, NoNew
  <2> QED
    BY <2>1, <2>2
<1>13. ChainInv'
  <2>1. Undisturbed' => Undisturbed
    BY <1>2 DEF Undisturbed
  <2>2. Chain => Chain'
    BY <1>2, <1>3, <1>4, ChainKept
  <2> QED
    BY <1>1, <1>3, <1>4, <2>1, <2>2, ChainStays
<1> QED
  BY <1>3, <1>6, <1>7, <1>9, <1>10, <1>11, <1>12, <1>13 DEF LabInv

LEMMA ToolTalks ==
    ASSUME LabTypes, LabInv, OnlyTalks, seen' = seen,
           Moves("tool", "ready", "recv"), Sent("planner", "tool ready")
    PROVE  LabInv'
<1>1. "ready" \notin Over \cup {"unborn", "reaped"} /\ "recv" \notin Early /\ "recv" # "failed"
      /\ "planner" \in Agents
  BY Names DEF Over, Early
<1>2. /\ got' = got /\ request' = request /\ service' = service /\ file' = file
      /\ tested' = tested /\ killed' = killed /\ has' = has /\ watch' = watch
      /\ verdict' = verdict /\ forks' = forks
  BY DEF OnlyTalks
<1>3. /\ CrewInv' /\ doing["planner"] \in Dispatching \cup Collecting
      /\ doing["tool"] = "ready" /\ doing'["tool"] = "recv"
      /\ Stays("planner") /\ Stays("retriever") /\ Stays("patch") /\ Stays("reviewer")
      /\ Stays("test") /\ "tool" \in Workers
  BY <1>1, <1>2, ToolMoves
<1>4. /\ \A x : \A b \in Agents : b # "planner" \/ x # "tool ready" => NoNew(x, b)
      /\ \A x : \A b \in Agents : b # "planner" \/ x # "tool ready" => (Once(x, b) => Once(x, b)')
      /\ PassTold => PassTold'
      /\ PassedFirst => PassedFirst'
  <2>1. "planner" # "planner" \/ "tool ready" # "approve"
    OBVIOUS
  <2> QED
    BY <1>1, <1>2, <2>1, SentLeaves, Zenon
<1>5. /\ TestInv /\ ReviewInv /\ LetterInv /\ QuietInv /\ ReadyInv /\ PartInv
  BY DEF LabInv
<1>6. PartInv'
  BY <1>3, <1>4, <1>5, PartKept, Names DEF PartInv
<1>7. ReadyInv'
  BY <1>2, <1>3, <1>4, <1>5, Names DEF ReadyInv, Stays, NoNew
<1>8. LetterInv'
  <2>1. \A x : \A b \in Agents : In(x, b)' => In(x, b) \/ (b = "planner" /\ x = "tool ready")
    BY DEF Sent
  <2>2. \A b \in Workers : \A x : In(x, b)' => In(x, b)
    BY <2>1, Names
  <2> QED
    BY <1>2, <1>5, <2>2, Names DEF LetterInv
<1>9. QuietInv'
  <2> SUFFICES ASSUME doing["planner"] \in Dispatching PROVE QuietInv'
    BY <1>3 DEF QuietInv, Stays
  <2>1. \A x : \A b \in Agents : In(x, b)' => In(x, b) \/ (b = "planner" /\ x = "tool ready")
    BY DEF Sent
  <2>2. /\ \A x : ~ In(x, "retriever")'
        /\ ~ In("replace", "patch")' /\ ~ In("file patched", "test")'
        /\ \A x : In(x, "planner")' => x \in {"tool ready", "patch ready", "test ready", "watching"}
        /\ ~ In("cache_probe", "reviewer")'
    BY <1>5, <2>1, Names DEF QuietInv
  <2> QED
    BY <1>2, <1>3, <1>5, <2>2 DEF QuietInv, Stays
<1>10. TestInv'
  BY <1>2, <1>3, <1>4, <1>5, Names DEF TestInv, Stays, NoNew
<1>11. ReviewInv'
  BY <1>3, <1>4, <1>5, ReviewKept, Names DEF ReviewInv
<1>12. ChainInv'
  <2>1. Undisturbed' => Undisturbed
    BY DEF Undisturbed, OnlyTalks, Sent
  <2>2. Chain => Chain'
    BY <1>2, <1>3, <1>4, ChainKept, Names
  <2>3. \A v \in Workers : \A x : NoNew(x, v)
    BY <1>4, Names
  <2> QED
    BY <1>1, <1>3, <2>1, <2>2, <2>3, ChainStays
<1> QED
  BY <1>3, <1>6, <1>7, <1>8, <1>9, <1>10, <1>11, <1>12 DEF LabInv

LEMMA ToolKeeps ==
    ASSUME LabTypes, LabInv, ToolService
    PROVE  LabTypes' /\ LabInv'
<1>0. "tool" \in Agents /\ "planner" \in Agents /\ "tool ready" \in Letters
  BY Names DEF Letters
<1>1. ASSUME NEW at, NEW q, At("tool", at), Goto("tool", q), ToolWorks(at, q),
             crew' = crew, talk' = talk, world' = world, minds' = minds
      PROVE  LabTypes' /\ LabInv'
  <2>1. DOMAIN doing' = Agents /\ Moves("tool", at, q)
    BY <1>0, <1>1, Going DEF LabTypes
  <2>2. /\ service' \in {"none", "up", "down"}
        /\ request' \in {"none", "queued", "passed", "gone"}
        /\ tested' \in {"nothing", "bug", "fixed"}
    BY <1>1 DEF LabTypes, ToolWorks
  <2>3. LabTypes'
    BY <1>1, <2>1, <2>2, Kept, Zenon DEF LabTypes
  <2> QED
    BY <1>1, <2>1, <2>3, ToolWorksKeeps
<1>2. CASE Register
  <2>1. ToolWorks("register", "ready")
    BY <1>2 DEF Register, ToolWorks
  <2> QED
    BY <1>1, <1>2, <2>1 DEF Register
<1>3. CASE Serve
  <2>1. ToolWorks("recv", "leave")
    BY <1>3 DEF Serve, ToolWorks
  <2> QED
    BY <1>1, <1>3, <2>1 DEF Serve
<1>4. CASE ServiceLeaves
  <2>1. ToolWorks("leave", "exited")
    BY <1>4 DEF ServiceLeaves, ToolWorks
  <2> QED
    BY <1>1, <1>4, <2>1 DEF ServiceLeaves
<1>5. CASE Tell("tool", "ready", "planner", "tool ready", "recv")
  BY <1>0, <1>5, TellStep, ToolTalks
<1> QED
  BY <1>2, <1>3, <1>4, <1>5, Zenon DEF ToolService

----------------------------------------------------------------------------
(* The reviewer.                                                              *)
ReviewerTells(at, m, q) ==
    \/ at = "tell watching" /\ m = "watching" /\ q = "loop"
    \/ at = "tell cache" /\ m = "note" /\ q = "loop"
    \/ at = "tell modified" /\ m = "note" /\ q = Waiting
    \/ at = "approve" /\ m = "approve" /\ q = "exited"
    \/ at = "reject" /\ m = "reject" /\ q = "exited"

LEMMA ReviewerMoves ==
    ASSUME LabInv, killed' = killed, forks' = forks, NEW at, NEW q, Moves("reviewer", at, q),
           at \notin Over \cup {"unborn", "reaped"}
    PROVE  /\ CrewInv' /\ doing["planner"] \in Dispatching \cup Collecting
           /\ doing["reviewer"] = at /\ doing'["reviewer"] = q
           /\ Stays("planner") /\ Stays("retriever") /\ Stays("patch") /\ Stays("tool")
           /\ Stays("test") /\ "reviewer" \in Workers
<1>1. /\ "reviewer" \in Workers /\ Agents = Workers \cup {"planner"}
      /\ doing["reviewer"] = at /\ doing'["reviewer"] = q
      /\ Stays("planner") /\ Stays("retriever") /\ Stays("patch") /\ Stays("tool")
      /\ Stays("test")
  BY Names DEF Moves, Stays
<1> QED
  BY <1>1, WorkerMoves DEF LabInv

LEMMA ReviewerTalks ==
    ASSUME LabTypes, LabInv, OnlyTalks, seen' = seen,
           NEW at, NEW m, NEW q, ReviewerTells(at, m, q),
           Moves("reviewer", at, q), Sent("planner", m)
    PROVE  LabInv'
<1>0. "planner" \in Agents
  BY Names
<1>1. /\ at \notin Early \cup Gone /\ at \notin Over \cup {"unborn", "reaped"}
      /\ at \in {"tell watching", "tell cache", "tell modified", "approve", "reject"}
      /\ q \notin Early /\ q \in {"loop", "diff", "exited"}
      /\ m \in {"watching", "note", "approve", "reject"}
      /\ q = "diff" => "test" \in has
      /\ m = "approve" <=> at = "approve"
      /\ m = "reject" <=> at = "reject"
      /\ m = "watching" <=> at = "tell watching"
      /\ at = "tell watching" => q = "loop"
  BY DEF ReviewerTells, Early, Gone, Over, Waiting
<1>2. /\ got' = got /\ request' = request /\ service' = service /\ file' = file
      /\ tested' = tested /\ killed' = killed /\ has' = has /\ watch' = watch
      /\ verdict' = verdict /\ forks' = forks
  BY DEF OnlyTalks
<1>3. /\ CrewInv' /\ doing["planner"] \in Dispatching \cup Collecting
      /\ doing["reviewer"] = at /\ doing'["reviewer"] = q
      /\ Stays("planner") /\ Stays("retriever") /\ Stays("patch") /\ Stays("tool")
      /\ Stays("test") /\ "reviewer" \in Workers
  BY <1>1, <1>2, ReviewerMoves
<1>4. /\ \A x : \A b \in Agents : b # "planner" \/ x # m => NoNew(x, b)
      /\ \A x : \A b \in Agents : b # "planner" \/ x # m => (Once(x, b) => Once(x, b)')
      /\ PassTold => PassTold'
  BY <1>0, <1>2, SentLeaves, Zenon
<1>5. /\ TestInv /\ ReviewInv /\ LetterInv /\ QuietInv /\ ReadyInv /\ PartInv
  BY DEF LabInv
<1>a. \A b \in Agents : NoNew("assignment", b) /\ (Once("assignment", b) => Once("assignment", b)')
  BY <1>1, <1>4
<1>6. PartInv'
  <2>1. /\ Part("retriever", Dispatching)' /\ Part("patch", ToPatch)'
        /\ Part("test", ToTest)'
    BY <1>3, <1>5, <1>a, PartKept, Names DEF PartInv
  <2>2. Part("reviewer", ToReviewer)
    BY <1>5 DEF PartInv
  <2>3. doing["planner"] \notin ToReviewer /\ ~ In("assignment", "reviewer")'
    BY <1>1, <1>3, <1>a, <2>2, Names DEF Part, NoNew, Gone
  <2>4. Part("reviewer", ToReviewer)'
    BY <1>1, <1>3, <2>3 DEF Part, Stays
  <2> QED
    BY <2>1, <2>4 DEF PartInv
<1>7. ReadyInv'
  <2>1. NoNew("tool ready", "planner") /\ NoNew("patch ready", "planner")
        /\ NoNew("test ready", "planner")
    <3>1. m # "tool ready" /\ m # "patch ready" /\ m # "test ready"
      BY <1>1
    <3> QED
      BY <1>0, <1>4, <3>1, Zenon
  <2> QED
    BY <1>1, <1>2, <1>3, <1>5, <2>1 DEF ReadyInv, Stays, NoNew
<1>8. LetterInv'
  <2>2. \A b \in Workers : \A x : In(x, b)' => In(x, b)
    BY Names DEF Sent
  <2> QED
    BY <1>2, <1>5, <2>2, Names DEF LetterInv
<1>q. doing["planner"] \in Dispatching => m = "watching" /\ q = "loop"
  BY <1>1, <1>3, <1>5 DEF QuietInv
<1>9. QuietInv'
  <2> SUFFICES ASSUME doing["planner"] \in Dispatching PROVE QuietInv'
    BY <1>3 DEF QuietInv, Stays
  <2>1. \A x : \A b \in Agents : In(x, b)' => In(x, b) \/ (b = "planner" /\ x = "watching")
    BY <1>q DEF Sent
  <2>2. /\ \A x : ~ In(x, "retriever")'
        /\ ~ In("replace", "patch")' /\ ~ In("file patched", "test")'
        /\ \A x : In(x, "planner")' => x \in {"tool ready", "patch ready", "test ready", "watching"}
        /\ ~ In("cache_probe", "reviewer")'
    BY <1>5, <2>1, Names DEF QuietInv
  <2> QED
    BY <1>2, <1>3, <1>5, <1>q, <2>2 DEF QuietInv, Stays
<1>10. TestInv'
  BY <1>3, <1>4, <1>5, TestKept, Names
<1>11. ReviewInv'
  <2>1. NoNew("passed", "planner") /\ NoNew("passed", "reviewer")
    BY <1>0, <1>1, <1>4, Names
  <2>2. In("approve", "planner")' => In("approve", "planner") \/ at = "approve"
    BY <1>0, <1>1, <1>4 DEF NoNew
  <2>3. In("reject", "planner")' => In("reject", "planner") \/ at = "reject"
    BY <1>0, <1>1, <1>4 DEF NoNew
  <2>4. PassedFirst'
    <3>1. PassedFirst /\ (m = "approve" => PassTold)
      BY <1>1, <1>3, <1>5 DEF ReviewInv
    <3> QED
      BY <3>1 DEF Sent
  <2>5. q # "approve" /\ q # "reject"
    BY <1>1
  <2>6. at = "approve" => request = "passed"
    BY <1>3, <1>5 DEF ReviewInv
  <2>7. at = "reject" => request = "gone"
    BY <1>3, <1>5 DEF ReviewInv
  <2>8. q = "diff" => "test" \in has
    BY <1>1
  <2> HIDE <1>1
  <2> QED
    BY <1>2, <1>3, <1>4, <1>5, <2>1, <2>2, <2>3, <2>4, <2>5, <2>6, <2>7, <2>8
    DEF ReviewInv, Stays, NoNew
<1>12. ChainInv'
  <2>1. Undisturbed' => Undisturbed /\ q # "failed"
    BY <1>1 DEF Undisturbed, OnlyTalks, Sent, Vital
  <2>2. Chain => Chain'
    BY <1>2, <1>3, <1>4, ChainKept, Names
  <2>3. \A v \in Workers : \A x : NoNew(x, v)
    BY <1>4, Names
  <2> QED
    BY <1>1, <1>3, <2>1, <2>2, <2>3, ChainStays
<1> QED
  BY <1>3, <1>6, <1>7, <1>8, <1>9, <1>10, <1>11, <1>12 DEF LabInv

\* It watches the file, hears of it, and decides.
ReviewerThinks(at, q) ==
    \/ at = "watch" /\ q = "tell watching" /\ has' = has /\ watch'.filemod = watch.filemod
    \/ at = "loop" /\ q \in {"loop", "tell modified"} /\ has' = has \cup {"file"}
         /\ watch.filemod /\ watch'.filemod = FALSE
    \/ at = "diff" /\ has' = has /\ watch' = watch
         /\ q = IF "passed" \in has /\ file.content = "fixed" THEN "approve" ELSE "reject"

LEMMA ReviewerThinksKeeps ==
    ASSUME LabTypes, LabInv, NEW at, NEW q, ReviewerThinks(at, q), Moves("reviewer", at, q),
           crew' = crew, talk' = talk, tool' = tool,
           file' = file, seen' = seen, got' = got, verdict' = verdict
    PROVE  LabInv'
<1>1. /\ at \in {"watch", "loop", "diff"}
      /\ q \in {"tell watching", "loop", "tell modified", "approve", "reject"}
      /\ at \notin Over \cup {"unborn", "reaped"} /\ at \notin Early \cup Gone
      /\ q \notin Early /\ q # "failed" /\ q # "diff"
      /\ at = "watch" => q = "tell watching" /\ has' = has
      /\ at = "loop" => q \in {"loop", "tell modified"} /\ has' = has \cup {"file"}
      /\ at = "diff" => has' = has
      /\ at \notin {"watch", "loop"} => at = "diff"
  BY DEF ReviewerThinks, Over, Early, Gone
<1>2. /\ killed' = killed /\ forks' = forks /\ mail' = mail /\ lost' = lost
      /\ service' = service /\ request' = request /\ tested' = tested
  BY Kept
<1>3. /\ CrewInv' /\ doing["planner"] \in Dispatching \cup Collecting
      /\ doing["reviewer"] = at /\ doing'["reviewer"] = q
      /\ Stays("planner") /\ Stays("retriever") /\ Stays("patch") /\ Stays("tool")
      /\ Stays("test") /\ "reviewer" \in Workers
  BY <1>1, <1>2, ReviewerMoves
<1>4. /\ \A x, b : NoNew(x, b) /\ (In(x, b) => In(x, b)') /\ (Once(x, b) => Once(x, b)')
      /\ (PassTold => PassTold') /\ (PassedFirst => PassedFirst')
  BY <1>2, QuietMail
<1>5. /\ TestInv /\ ReviewInv /\ LetterInv /\ QuietInv /\ ReadyInv /\ PartInv
  BY DEF LabInv
<1>6. PartInv'
  <2>1. /\ Part("retriever", Dispatching)' /\ Part("patch", ToPatch)'
        /\ Part("test", ToTest)'
    BY <1>3, <1>4, <1>5, PartKept DEF PartInv
  <2>2. Part("reviewer", ToReviewer)
    BY <1>5 DEF PartInv
  <2>3. doing["planner"] \notin ToReviewer /\ ~ In("assignment", "reviewer")'
    BY <1>1, <1>3, <1>4, <2>2 DEF Part, NoNew, Gone
  <2>4. Part("reviewer", ToReviewer)'
    BY <1>1, <1>3, <2>3 DEF Part, Stays
  <2> QED
    BY <2>1, <2>4 DEF PartInv
<1>7. ReadyInv'
  BY <1>1, <1>2, <1>3, <1>4, <1>5 DEF ReadyInv, Stays, NoNew
<1>8. LetterInv'
  BY <1>2, <1>4, <1>5 DEF LetterInv, NoNew
<1>9. QuietInv'
  <2> SUFFICES ASSUME doing["planner"] \in Dispatching PROVE QuietInv'
    BY <1>3 DEF QuietInv, Stays
  <2>1. at # "diff"
    BY <1>3, <1>5 DEF QuietInv, Early
  <2>2. ~ watch.filemod
    BY <1>5 DEF QuietInv
  <2>3. at = "watch"
    BY <2>1, <2>2 DEF ReviewerThinks
  <2>4. q = "tell watching" /\ has' = has /\ watch'.filemod = watch.filemod
    BY <2>3 DEF ReviewerThinks
  <2>5. ~ watch'.filemod
    BY <2>2, <2>4
  <2> QED
    BY <1>2, <1>3, <1>4, <1>5, <2>4, <2>5 DEF QuietInv, Stays, NoNew
<1>10. TestInv'
  BY <1>2, <1>3, <1>4, <1>5 DEF TestInv, Stays, NoNew
<1>11. ReviewInv'
  <2>1. has \subseteq has' /\ (has' \subseteq has \cup {"file"})
    BY <1>1
  <2>2. ("passed" \in has' <=> "passed" \in has) /\ ("test" \in has' <=> "test" \in has)
    BY <2>1
  <2>3. q = "approve" => at = "diff" /\ "passed" \in has
    BY DEF ReviewerThinks
  <2>4. q = "reject" => request = "gone"
    <3> SUFFICES ASSUME q = "reject" PROVE request = "gone"
      OBVIOUS
    <3>1. at = "diff" /\ ~ ("passed" \in has /\ file.content = "fixed")
      BY DEF ReviewerThinks
    <3>2. request \in {"passed", "gone"} /\ (request = "passed" => "passed" \in has)
      BY <1>3, <1>5, <3>1 DEF ReviewInv
    <3>3. request # "none" => file.content = "fixed"
      BY <1>5 DEF TestInv
    <3> QED
      BY <3>1, <3>2, <3>3
  <2>5. q # "diff"
    BY <1>1
  <2> HIDE <1>1
  <2> QED
    BY <1>2, <1>3, <1>4, <1>5, <2>2, <2>3, <2>4, <2>5 DEF ReviewInv, Stays, NoNew
<1>12. ChainInv'
  <2>1. Undisturbed' => Undisturbed /\ q # "failed"
    BY <1>1, <1>2 DEF Undisturbed
  <2>2. Chain => Chain'
    BY <1>3, <1>4, ChainKept
  <2> QED
    BY <1>1, <1>3, <1>4, <2>1, <2>2, ChainStays
<1> QED
  BY <1>3, <1>6, <1>7, <1>8, <1>9, <1>10, <1>11, <1>12 DEF LabInv

\* It takes a message: its part, a probe of the cache or the result of the test.
ReviewerTakes(at, x, q) ==
    \/ at = "assignment" /\ has' = has /\ q = IF x = "assignment" THEN "watch" ELSE "failed"
    \/ at = "loop" /\ x = "cache_probe" /\ has' = has /\ q = "tell cache"
    \/ at = "loop" /\ x # "cache_probe" /\ has' = has \cup {"test"} \cup ({x} \cap {"passed"})
         /\ q \in {"diff", "loop"}

LEMMA ReviewerTakesKeeps ==
    ASSUME LabTypes, LabInv, NEW at, NEW x, NEW q, ReviewerTakes(at, x, q),
           Moves("reviewer", at, q), Took("reviewer", x), PassedFirst => PassedFirst',
           crew' = crew, world' = world, tool' = tool, seen' = seen, got' = got,
           verdict' = verdict
    PROVE  LabInv'
<1>1. /\ at \in {"assignment", "loop"} /\ q \in {"watch", "failed", "tell cache", "diff", "loop"}
      /\ at \notin Over \cup {"unborn", "reaped"} /\ q \notin Early
      /\ at = "loop" => q # "failed" /\ at \notin Early \cup Gone
      /\ at = "assignment" => has' = has /\ q \in {"watch", "failed"} /\ at \in Early
      /\ at = "assignment" /\ q \notin Gone => x = "assignment"
      /\ at = "assignment" /\ x = "assignment" => q # "failed"
      /\ at = "loop" /\ x = "cache_probe" => has' = has /\ q = "tell cache"
      /\ at = "loop" /\ x # "cache_probe" =>
           has' = has \cup {"test"} \cup ({x} \cap {"passed"}) /\ q \in {"diff", "loop"}
  BY DEF ReviewerTakes, Over, Early, Gone
<1>2. /\ killed' = killed /\ forks' = forks /\ lost' = lost /\ file' = file /\ watch' = watch
      /\ service' = service /\ request' = request /\ tested' = tested
  BY Kept DEF Took
<1>3. /\ CrewInv' /\ doing["planner"] \in Dispatching \cup Collecting
      /\ doing["reviewer"] = at /\ doing'["reviewer"] = q
      /\ Stays("planner") /\ Stays("retriever") /\ Stays("patch") /\ Stays("tool")
      /\ Stays("test") /\ "reviewer" \in Workers
  BY <1>1, <1>2, ReviewerMoves
<1>4. /\ \A y : \A b \in Agents : NoNew(y, b) /\ (Once(y, b) => Once(y, b)')
      /\ PassTold => PassTold'
  BY <1>3, TookLeaves
<1>5. /\ TestInv /\ ReviewInv /\ LetterInv /\ QuietInv /\ ReadyInv /\ PartInv
      /\ Part("reviewer", ToReviewer)
  BY DEF LabInv, PartInv
<1>6. /\ x \in {"assignment", "cache_probe", "passed", "gone"}
      /\ x \in {"passed", "gone"} => x = request
      /\ In(x, "reviewer")
  BY <1>5 DEF LetterInv, Took
<1>7. at = "loop" => x # "assignment" /\ doing["planner"] \notin Dispatching
  <2>1. at = "loop" => x # "assignment"
    BY <1>1, <1>3, <1>5, <1>6 DEF Part
  <2>2. at = "loop" /\ doing["planner"] \in Dispatching => FALSE
    BY <1>5, <1>6, <2>1 DEF QuietInv
  <2> QED
    BY <2>1, <2>2
<1>8. PartInv'
  <2>1. /\ Part("retriever", Dispatching)' /\ Part("patch", ToPatch)'
        /\ Part("test", ToTest)'
    BY <1>3, <1>4, <1>5, PartKept, Names DEF PartInv
  <2>2. doing["planner"] \notin ToReviewer
    <3> SUFFICES ASSUME doing["planner"] \in ToReviewer PROVE FALSE
      OBVIOUS
    <3>1. doing["planner"] \in Dispatching
      BY DEF Dispatching
    <3>2. ~ In("cache_probe", "reviewer") /\ ~ In("assignment", "reviewer") /\ request = "none"
      BY <1>5, <3>1 DEF QuietInv, Part
    <3> QED
      BY <1>6, <3>2
  <2>3. q \notin Gone => ~ In("assignment", "reviewer")'
    <3>1. CASE at = "loop"
      BY <1>1, <1>3, <1>4, <1>5, <3>1, Names DEF Part, NoNew
    <3>2. CASE at = "assignment"
      <4>1. Once("assignment", "reviewer")
        BY <1>3, <1>5, <3>2 DEF Part, Early
      <4> QED
        BY <1>1, <3>2, <4>1 DEF Took
    <3> QED
      BY <1>1, <3>1, <3>2
  <2>4. Part("reviewer", ToReviewer)'
    BY <1>1, <1>3, <2>2, <2>3 DEF Part, Stays
  <2> QED
    BY <2>1, <2>4 DEF PartInv
<1>9. ReadyInv'
  BY <1>1, <1>2, <1>3, <1>4, <1>5, Names DEF ReadyInv, Stays, NoNew
<1>10. LetterInv'
  BY <1>2, <1>4, <1>5, LetterKept, Names DEF NoNew
<1>11. QuietInv'
  <2> SUFFICES ASSUME doing["planner"] \in Dispatching PROVE QuietInv'
    BY <1>3 DEF QuietInv, Stays
  <2>1. has' = has /\ q \in {"watch", "failed"}
    BY <1>1, <1>7
  <2> QED
    BY <1>2, <1>3, <1>4, <1>5, <2>1, Names DEF QuietInv, Stays, NoNew
<1>12. TestInv'
  BY <1>2, <1>3, <1>4, <1>5, Names DEF TestInv, Stays, NoNew
<1>13. ReviewInv'
  <2>1. "passed" \in has' => "passed" \in has \/ x = "passed"
    <3>1. has' = has \/ has' = has \cup {"test"} \cup ({x} \cap {"passed"})
      BY DEF ReviewerTakes
    <3>2. "passed" \in ({x} \cap {"passed"}) => x = "passed"
      OBVIOUS
    <3>3. "passed" \notin {"test"}
      OBVIOUS
    <3> QED
      BY <3>1, <3>2, <3>3, Zenon
  <2>2. "test" \in has' => "test" \in has \/ x \in {"passed", "gone"}
    BY <1>1, <1>6, <1>7
  <2>3. "passed" \in has => "passed" \in has'
    BY <1>1
  <2>4. x = "passed" /\ "test" \in has' => "passed" \in has' \/ "test" \in has
    BY <1>1
  <2>5. x = "passed" => PassTold /\ request = "passed"
    BY <1>5, <1>6 DEF ReviewInv
  <2>6. q = "diff" => "test" \in has'
    BY <1>1
  <2>7. "passed" \in has' => PassTold' /\ request = "passed"
    BY <1>4, <1>5, <2>1, <2>5 DEF ReviewInv
  <2>8. "test" \in has' => request \in {"passed", "gone"}
                           /\ (request = "passed" => "passed" \in has')
    <3>1. CASE "test" \in has
      BY <1>5, <2>3, <3>1 DEF ReviewInv
    <3>2. CASE "test" \notin has
      BY <1>6, <2>2, <2>4, <3>2
    <3> QED
      BY <3>1, <3>2
  <2>9. q # "approve" /\ q # "reject"
    BY <1>1
  <2> HIDE <1>1
  <2>10. /\ NoNew("passed", "planner") /\ NoNew("approve", "planner")
         /\ NoNew("reject", "planner") /\ NoNew("passed", "reviewer")
    BY <1>4, Names
  <2> QED
    BY <1>2, <1>3, <1>4, <1>5, <2>6, <2>7, <2>8, <2>9, <2>10 DEF ReviewInv, Stays, NoNew
<1>14. ChainInv'
  <2>1. ASSUME Undisturbed' PROVE Undisturbed /\ q # "failed"
    <3>1. Undisturbed
      BY <1>2, <2>1 DEF Undisturbed
    <3>2. FirstLetters
      BY <3>1 DEF LabInv, ChainInv
    <3>3. at = "assignment" => x = "assignment"
      BY <1>1, <1>3, <1>6, <3>2 DEF FirstLetters
    <3> QED
      BY <1>1, <3>1, <3>3
  <2>2. Chain => Chain'
    BY <1>2, <1>3, <1>4, ChainKept, Names
  <2>3. \A v \in Workers : \A y : NoNew(y, v)
    BY <1>4, Names
  <2> QED
    BY <1>1, <1>3, <2>1, <2>2, <2>3, ChainStays
<1> QED
  BY <1>3, <1>8, <1>9, <1>10, <1>11, <1>12, <1>13, <1>14 DEF LabInv

LEMMA ReviewerKeeps ==
    ASSUME LabTypes, LabInv, Reviewer
    PROVE  LabTypes' /\ LabInv'
<1>0. /\ "planner" \in Agents /\ "reviewer" \in Agents /\ "reviewer" \in Workers
      /\ "watching" \in Letters /\ "note" \in Letters /\ "approve" \in Letters
      /\ "reject" \in Letters
  BY Names DEF Letters
<1>1. ASSUME NEW at, NEW m, NEW q, Tell("reviewer", at, "planner", m, q), m \in Letters,
             ReviewerTells(at, m, q)
      PROVE  LabTypes' /\ LabInv'
  <2>1. /\ LabTypes' /\ Sent("planner", m) /\ Moves("reviewer", at, q)
        /\ OnlyTalks /\ seen' = seen
    BY <1>0, <1>1, TellStep
  <2> QED
    BY <1>1, <2>1, ReviewerTalks
<1>2. CASE Expect("reviewer", "assignment", "assignment", "watch")
  <2>1. PICK x \in Letters : /\ LabTypes' /\ OnlyTalks /\ seen' = seen
                             /\ PassedFirst => PassedFirst'
                             /\ Took("reviewer", x)
                             /\ Moves("reviewer", "assignment",
                                      IF x = "assignment" THEN "watch" ELSE "failed")
    BY <1>0, <1>2, ExpectStep
  <2> DEFINE q == IF x = "assignment" THEN "watch" ELSE "failed"
  <2>2. Moves("reviewer", "assignment", q) /\ ReviewerTakes("assignment", x, q)
    BY <2>1 DEF ReviewerTakes, OnlyTalks
  <2>3. /\ crew' = crew /\ world' = world /\ tool' = tool /\ seen' = seen /\ got' = got
        /\ verdict' = verdict
    BY <1>2, Kept DEF Expect
  <2> HIDE DEF q
  <2> QED
    BY <2>1, <2>2, <2>3, ReviewerTakesKeeps
<1>3. CASE ReviewMessage
  <2>1. PICK x \in Letters : x = Head(mail["reviewer"]) /\ Took("reviewer", x)
                             /\ mail' \in [Agents -> Seq(Letters)]
    BY <1>0, <1>3, ReceiveStep, Zenon DEF ReviewMessage
  <2>2. PICK q : /\ q \in {"tell cache", "diff", "loop"} /\ Goto("reviewer", q)
                 /\ ReviewerTakes("loop", x, q)
    BY <1>3, <2>1 DEF ReviewMessage, ReviewerTakes, Waiting
  <2>3. DOMAIN doing' = Agents /\ Moves("reviewer", "loop", q)
    BY <1>0, <1>3, <2>2, Going DEF ReviewMessage, LabTypes
  <2>4. /\ crew' = crew /\ world' = world /\ tool' = tool /\ seen' = seen /\ got' = got
        /\ verdict' = verdict
    BY <1>3 DEF ReviewMessage
  <2>5. has' \subseteq {"file", "test", "passed"}
    BY <2>2 DEF ReviewerTakes, LabTypes
  <2>6. LabTypes'
    BY <2>1, <2>3, <2>4, <2>5, Kept, Zenon DEF LabTypes
  <2>7. PassedFirst => PassedFirst'
    <3>1. got \subseteq got' /\ "reviewer" # "planner" /\ mail \in [Agents -> Seq(Letters)]
      BY <2>4 DEF LabTypes
    <3> QED
      BY <1>0, <1>3, <3>1, ReceiveIn DEF ReviewMessage
  <2> QED
    BY <2>1, <2>2, <2>3, <2>4, <2>6, <2>7, ReviewerTakesKeeps
<1>4. ASSUME NEW at, NEW q, At("reviewer", at), Goto("reviewer", q), ReviewerThinks(at, q),
             watch' \in [on : BOOLEAN, filemod : BOOLEAN],
             crew' = crew, talk' = talk, tool' = tool,
             file' = file, seen' = seen, got' = got, verdict' = verdict
      PROVE  LabTypes' /\ LabInv'
  <2>1. DOMAIN doing' = Agents /\ Moves("reviewer", at, q)
    BY <1>0, <1>4, Going DEF LabTypes
  <2>2. has' \subseteq {"file", "test", "passed"}
    BY <1>4 DEF ReviewerThinks, LabTypes
  <2>3. LabTypes'
    BY <1>4, <2>1, <2>2, Kept, Zenon DEF LabTypes
  <2> QED
    BY <1>4, <2>1, <2>3, ReviewerThinksKeeps
<1>w. /\ watch \in [on : BOOLEAN, filemod : BOOLEAN]
      /\ [watch EXCEPT !.on = TRUE] \in [on : BOOLEAN, filemod : BOOLEAN]
      /\ [watch EXCEPT !.on = TRUE].filemod = watch.filemod
      /\ [watch EXCEPT !.filemod = FALSE] \in [on : BOOLEAN, filemod : BOOLEAN]
      /\ [watch EXCEPT !.filemod = FALSE].filemod = FALSE
  BY DEF LabTypes
<1>5. CASE WatchFile
  <2>1. ReviewerThinks("watch", "tell watching") /\ has' = has
        /\ watch' \in [on : BOOLEAN, filemod : BOOLEAN]
    BY <1>5, <1>w, Kept DEF WatchFile, ReviewerThinks
  <2> QED
    BY <1>4, <1>5, <2>1, Kept DEF WatchFile
<1>6. CASE ReviewFile
  <2>1. PICK q : q \in {"loop", "tell modified"} /\ Goto("reviewer", q)
    BY <1>6 DEF ReviewFile
  <2>2. ReviewerThinks("loop", q) /\ watch' \in [on : BOOLEAN, filemod : BOOLEAN]
    BY <1>6, <1>w, <2>1 DEF ReviewFile, ReviewerThinks
  <2> QED
    BY <1>4, <1>6, <2>1, <2>2, Kept DEF ReviewFile
<1>7. CASE Decide
  <2> DEFINE q == IF "passed" \in has /\ file.content = "fixed" THEN "approve" ELSE "reject"
  <2>1. ReviewerThinks("diff", q) /\ watch' \in [on : BOOLEAN, filemod : BOOLEAN]
    BY <1>7, <1>w, Kept DEF Decide, ReviewerThinks
  <2>2. At("reviewer", "diff") /\ Goto("reviewer", q) /\ file' = file /\ seen' = seen
        /\ got' = got /\ verdict' = verdict /\ crew' = crew /\ talk' = talk /\ tool' = tool
    BY <1>7, Kept DEF Decide
  <2> HIDE DEF q
  <2> QED
    BY <1>4, <2>1, <2>2
<1>8. CASE \/ Tell("reviewer", "tell watching", "planner", "watching", "loop")
           \/ Tell("reviewer", "tell cache", "planner", "note", "loop")
           \/ Tell("reviewer", "tell modified", "planner", "note", Waiting)
           \/ Tell("reviewer", "approve", "planner", "approve", "exited")
           \/ Tell("reviewer", "reject", "planner", "reject", "exited")
  <2>1. /\ ReviewerTells("tell watching", "watching", "loop")
        /\ ReviewerTells("tell cache", "note", "loop")
        /\ ReviewerTells("approve", "approve", "exited")
        /\ ReviewerTells("reject", "reject", "exited")
    BY DEF ReviewerTells
  <2>2. CASE Tell("reviewer", "tell modified", "planner", "note", Waiting)
    <3> DEFINE q == Waiting
    <3>1. Tell("reviewer", "tell modified", "planner", "note", q)
          /\ ReviewerTells("tell modified", "note", q)
      BY <2>2 DEF ReviewerTells
    <3>2. PICK p : p = q
      OBVIOUS
    <3>3. Tell("reviewer", "tell modified", "planner", "note", p)
          /\ ReviewerTells("tell modified", "note", p)
      BY <3>1, <3>2
    <3> QED
      BY <1>0, <1>1, <3>3
  <2> QED
    BY <1>0, <1>1, <1>8, <2>1, <2>2, Zenon
<1> QED
  BY <1>2, <1>3, <1>5, <1>6, <1>7, <1>8, Zenon DEF Reviewer

----------------------------------------------------------------------------
(* The planner.                                                               *)

\* A step of the planner towards its end is a step out of these places.
Forward(at, q) ==
    /\ q \in ToPatch => at \in ToPatch
    /\ q \in ToTest => at \in ToTest
    /\ q \in ToReviewer => at \in ToReviewer
    /\ q \in Dispatching => at \in Dispatching

LEMMA PlannerMoves ==
    ASSUME NEW at, NEW q, Moves("planner", at, q)
    PROVE  /\ doing["planner"] = at /\ doing'["planner"] = q
           /\ Stays("retriever") /\ Stays("patch") /\ Stays("tool")
           /\ Stays("test") /\ Stays("reviewer") /\ "planner" \in Agents
           /\ \A w \in Workers : Stays(w)
BY Names DEF Moves, Stays

LEMMA PartForward ==
    ASSUME NEW w, NEW before, NEW at, NEW q, Part(w, before), Stays(w),
           doing["planner"] = at, doing'["planner"] = q, q \in before => at \in before,
           NoNew("assignment", w), Once("assignment", w) => Once("assignment", w)'
    PROVE  Part(w, before)'
BY DEF Part, Stays, NoNew

LEMMA PlannerCrew ==
    ASSUME CrewInv, killed' = killed, forks' = forks, NEW at, NEW q, Moves("planner", at, q),
           at \in Dispatching \cup Collecting, q \in Dispatching \cup Collecting,
           q # "heartbeat"
    PROVE  CrewInv'
<1>1. doing'["planner"] = q /\ \A w \in Workers : Stays(w)
  BY PlannerMoves
<1>2. \A i \in 1 .. Len(Crew) : Crew[i] \in Workers
  BY DEF Workers
<1>3. \A i \in 1 .. Len(Crew) : i > forks'.tried => doing'[Crew[i]] = "unborn"
  BY <1>1, <1>2, Zenon DEF CrewInv, Stays
<1>4. q \notin Over
  BY DEF Dispatching, ToReviewer, ToTest, ToPatch, Collecting, Over
<1> QED
  BY <1>1, <1>3, <1>4 DEF CrewInv

\* The chain, when the planner moves or nobody does.
LEMMA ChainRests ==
    ASSUME LabInv, \A w \in Workers : Stays(w), Undisturbed' => Undisturbed, Chain => Chain',
           \A v \in Workers : doing[v] \in Early =>
             \A x : In(x, v)' => In(x, v) \/ x = "assignment"
    PROVE  ChainInv'
<1>1. Unfailed => Unfailed'
  BY Zenon DEF Unfailed, Stays
<1>2. FirstLetters => FirstLetters'
  <2> SUFFICES ASSUME FirstLetters, NEW v \in Workers, doing'[v] \in Early,
                      NEW x, In(x, v)'
               PROVE  x = "assignment"
    BY DEF FirstLetters
  <2>1. doing[v] \in Early
    BY Zenon DEF Stays
  <2> QED
    BY <2>1, Zenon DEF FirstLetters
<1> QED
  BY <1>1, <1>2, ChainHolds

\* It tells a worker its part.
Assigns(at, to, q) ==
    \/ at = "to patch" /\ to = "patch" /\ q = "patch?"
    \/ at = "to test" /\ to = "test" /\ q = "test?"
    \/ at = "to reviewer" /\ to = "reviewer" /\ q = "reviewer?"
    \/ at = "to retriever" /\ to = "retriever" /\ q = "collect"

LEMMA PlannerAssigns ==
    ASSUME LabTypes, LabInv, OnlyTalks, seen' = seen,
           NEW at, NEW to, NEW q, Assigns(at, to, q),
           Moves("planner", at, q), Sent(to, "assignment")
    PROVE  LabInv'
<1>1. /\ at \in Dispatching /\ q \in Dispatching \cup Collecting /\ q # "heartbeat"
      /\ q # "children" /\ Forward(at, q)
      /\ to \in Agents /\ to # "planner" /\ to \in {"patch", "test", "reviewer", "retriever"}
      /\ to = "patch" => at \in ToPatch /\ q \notin ToPatch
      /\ to = "test" => at \in ToTest /\ q \notin ToTest
      /\ to = "reviewer" => at \in ToReviewer /\ q \notin ToReviewer
      /\ to = "retriever" => q \notin Dispatching
  BY Names DEF Assigns, Dispatching, ToReviewer, ToTest, ToPatch, Collecting, Forward
<1>2. /\ got' = got /\ request' = request /\ service' = service /\ file' = file
      /\ tested' = tested /\ killed' = killed /\ has' = has /\ watch' = watch
      /\ verdict' = verdict /\ forks' = forks
  BY DEF OnlyTalks
<1>3. /\ doing["planner"] = at /\ doing'["planner"] = q
      /\ Stays("retriever") /\ Stays("patch") /\ Stays("tool")
      /\ Stays("test") /\ Stays("reviewer") /\ "planner" \in Agents
      /\ \A w \in Workers : Stays(w)
  BY PlannerMoves
<1>4. /\ \A x : \A b \in Agents : b # to \/ x # "assignment" => NoNew(x, b)
      /\ \A x : \A b \in Agents : b # to \/ x # "assignment" => (Once(x, b) => Once(x, b)')
      /\ PassTold => PassTold'
      /\ PassedFirst => PassedFirst'
  BY <1>1, <1>2, SentLeaves
<1>5. /\ TestInv /\ ReviewInv /\ LetterInv /\ QuietInv /\ ReadyInv /\ PartInv /\ CrewInv
  BY DEF LabInv
<1>6. CrewInv'
  BY <1>1, <1>2, <1>5, PlannerCrew
<1>7. PartInv'
  <2>1. ASSUME NEW w \in Workers, NEW before, Part(w, before), q \in before => at \in before,
               to = w => at \in before /\ q \notin before
        PROVE  Part(w, before)'
    <3>1. CASE w # to
      <4>1. /\ NoNew("assignment", w)
            /\ Once("assignment", w) => Once("assignment", w)'
        BY <1>4, <3>1, Names
      <4> QED
        BY <1>3, <2>1, <4>1, PartForward
    <3>2. CASE w = to
      <4>1. ~ In("assignment", w) /\ doing[w] \in Early \cup {"failed"}
        BY <1>3, <2>1, <3>2 DEF Part
      <4>2. Once("assignment", w) => Once("assignment", w)'
        BY <1>1, <3>2, <4>1 DEF Sent
      <4>3. doing'[w] = doing[w]
        BY <1>3 DEF Stays
      <4> QED
        BY <1>3, <2>1, <3>2, <4>1, <4>2, <4>3 DEF Part, Gone
    <3> QED
      BY <3>1, <3>2
  <2> QED
    BY <1>1, <1>5, <2>1, Names DEF PartInv, Forward
<1>8. ReadyInv'
  <2>1. \A x : NoNew(x, "planner")
    BY <1>1, <1>3, <1>4
  <2>2. /\ q \in Dispatching \ (ToPatch \cup {"patch?"}) \/ q \in Collecting
             => at \in Dispatching \ (ToPatch \cup {"patch?"})
        /\ q \in Dispatching \ (ToTest \cup {"test?"}) \/ q \in Collecting
             => at \in Dispatching \ (ToTest \cup {"test?"})
        /\ q \in {"to retriever"} \cup Collecting => at = "to retriever"
        /\ at \in Dispatching \ {"heartbeat", "spawn", "tool?"}
    BY DEF Assigns, Dispatching, ToReviewer, ToTest, ToPatch, Collecting
  <2> QED
    BY <1>2, <1>3, <1>5, <2>1, <2>2 DEF ReadyInv, Stays, NoNew
<1>9. LetterInv'
  <2>1. /\ \A x : In(x, "patch")' => In(x, "patch") \/ x = "assignment"
        /\ \A x : In(x, "test")' => In(x, "test") \/ x = "assignment"
        /\ \A x : In(x, "retriever")' => In(x, "retriever") \/ x = "assignment"
        /\ \A x : In(x, "reviewer")' => In(x, "reviewer") \/ x = "assignment"
        /\ \A x : In(x, "tool")' => In(x, "tool")
    <3>1. \A x : \A b \in Agents : In(x, b)' => In(x, b) \/ (b = to /\ x = "assignment")
      BY DEF Sent
    <3>2. to # "tool"
      BY <1>1
    <3> QED
      BY <3>1, <3>2, Names
  <2> QED
    BY <1>2, <1>5, <2>1 DEF LetterInv
<1>10. QuietInv'
  <2> SUFFICES ASSUME q \in Dispatching PROVE QuietInv'
    BY <1>3 DEF QuietInv
  <2>1. /\ \A x : NoNew(x, "retriever") /\ NoNew(x, "planner")
        /\ NoNew("replace", "patch") /\ NoNew("file patched", "test")
        /\ NoNew("cache_probe", "reviewer")
    BY <1>1, <1>4, Names
  <2> QED
    BY <1>1, <1>2, <1>3, <1>5, <2>1 DEF QuietInv, Stays, NoNew
<1>11. TestInv'
  BY <1>3, <1>4, <1>5, TestKept, Names
<1>12. ReviewInv'
  <2>1. /\ NoNew("passed", "planner") /\ NoNew("approve", "planner")
        /\ NoNew("reject", "planner") /\ NoNew("passed", "reviewer")
    BY <1>1, <1>4, Names
  <2>2. q # "children"
    BY <1>1
  <2> HIDE <1>1
  <2> QED
    BY <1>2, <1>3, <1>4, <1>5, <2>1, <2>2 DEF ReviewInv, Stays, NoNew
<1>13. ChainInv'
  <2>1. Undisturbed' => Undisturbed
    BY DEF Undisturbed, OnlyTalks, Sent, Vital
  <2>2. Chain => Chain'
    BY <1>2, <1>3, <1>4, ChainKept, Names
  <2>3. \A v \in Workers : \A x : In(x, v)' => In(x, v) \/ x = "assignment"
    BY Names DEF Sent
  <2> QED
    BY <1>3, <2>1, <2>2, <2>3, ChainRests
<1> QED
  BY <1>6, <1>7, <1>8, <1>9, <1>10, <1>11, <1>12, <1>13 DEF LabInv

\* It waits for a worker to be ready.
Awaits(at, m, next) ==
    \/ at = "tool?" /\ m = "tool ready" /\ next = "to patch"
    \/ at = "patch?" /\ m = "patch ready" /\ next = "to test"
    \/ at = "test?" /\ m = "test ready" /\ next = "to reviewer"
    \/ at = "reviewer?" /\ m = "watching" /\ next = "to retriever"

LEMMA PlannerAwaits ==
    ASSUME LabTypes, LabInv, OnlyTalks, seen' = seen,
           NEW at, NEW m, NEW next, Awaits(at, m, next), NEW x, NEW q,
           q = IF x = m THEN next ELSE at,
           Moves("planner", at, q), Took("planner", x),
           PassedFirst /\ x # "passed" => PassedFirst'
    PROVE  LabInv'
<1>1. /\ at \in Dispatching /\ q \in Dispatching /\ q # "heartbeat" /\ Forward(at, q)
      /\ q = at \/ (q = next /\ x = m)
      /\ q # "children"
  BY DEF Awaits, Dispatching, ToReviewer, ToTest, ToPatch, Forward
<1>2. /\ got' = got /\ request' = request /\ service' = service /\ file' = file
      /\ tested' = tested /\ killed' = killed /\ has' = has /\ watch' = watch
      /\ verdict' = verdict /\ forks' = forks
  BY DEF OnlyTalks
<1>3. /\ doing["planner"] = at /\ doing'["planner"] = q
      /\ Stays("retriever") /\ Stays("patch") /\ Stays("tool")
      /\ Stays("test") /\ Stays("reviewer") /\ "planner" \in Agents
      /\ \A w \in Workers : Stays(w)
  BY PlannerMoves
<1>5. /\ TestInv /\ ReviewInv /\ LetterInv /\ QuietInv /\ ReadyInv /\ PartInv /\ CrewInv
  BY DEF LabInv
<1>4. /\ \A y : \A b \in Agents : NoNew(y, b) /\ (Once(y, b) => Once(y, b)')
      /\ x \in {"tool ready", "patch ready", "test ready", "watching"}
      /\ PassTold => PassTold'
      /\ PassedFirst => PassedFirst'
  <2>1. \A y : \A b \in Agents : NoNew(y, b) /\ (Once(y, b) => Once(y, b)')
    BY DEF Took, NoNew
  <2>2. x \in {"tool ready", "patch ready", "test ready", "watching"}
    BY <1>1, <1>3, <1>5 DEF QuietInv, Took
  <2>3. PassTold => PassTold'
    BY <1>2, <1>3, <2>2 DEF PassTold, Took
  <2> QED
    BY <2>1, <2>2, <2>3
<1>6. CrewInv'
  BY <1>1, <1>2, <1>5, PlannerCrew
<1>7. PartInv'
  BY <1>1, <1>3, <1>4, <1>5, PartForward, Names DEF PartInv, Forward
<1>8. ReadyInv'
  <2>1. \A y : NoNew(y, "planner")
    BY <1>3, <1>4
  <2>2. In(x, "planner")
    BY DEF Took
  <2>3. CASE q = at
    BY <1>2, <1>3, <1>5, <2>1, <2>3 DEF ReadyInv, Stays, NoNew
  <2>4. CASE q = next /\ x = m
    <3>1. /\ q \in Dispatching \ (ToPatch \cup {"patch?"}) \/ q \in Collecting
               => at \in Dispatching \ (ToPatch \cup {"patch?"}) \/ x = "patch ready"
          /\ q \in Dispatching \ (ToTest \cup {"test?"}) \/ q \in Collecting
               => at \in Dispatching \ (ToTest \cup {"test?"}) \/ x = "test ready"
          /\ q \in {"to retriever"} \cup Collecting => x = "watching"
          /\ at \in Dispatching \ {"heartbeat", "spawn", "tool?"} \/ x = "tool ready"
      BY <2>4 DEF Awaits, Dispatching, ToReviewer, ToTest, ToPatch, Collecting
    <3> QED
      BY <1>2, <1>3, <1>5, <2>1, <2>2, <3>1 DEF ReadyInv, Stays, NoNew
  <2> QED
    BY <1>1, <2>3, <2>4
<1>9. LetterInv'
  BY <1>2, <1>4, <1>5, Names DEF LetterInv, NoNew
<1>10. QuietInv'
  BY <1>1, <1>2, <1>3, <1>4, <1>5, Names DEF QuietInv, Stays, NoNew
<1>11. TestInv'
  BY <1>3, <1>4, <1>5, TestKept, Names
<1>12. ReviewInv'
  <2>1. /\ NoNew("passed", "planner") /\ NoNew("approve", "planner")
        /\ NoNew("reject", "planner") /\ NoNew("passed", "reviewer")
    BY <1>4, Names
  <2>2. q # "children"
    BY <1>1 DEF Dispatching, ToReviewer, ToTest, ToPatch
  <2> HIDE <1>1
  <2> QED
    BY <1>2, <1>3, <1>4, <1>5, <2>1, <2>2 DEF ReviewInv, Stays, NoNew
<1>13. ChainInv'
  <2>1. Undisturbed' => Undisturbed
    BY DEF Undisturbed, OnlyTalks, Took
  <2>2. Chain => Chain'
    BY <1>2, <1>3, <1>4, ChainKept, Names
  <2>3. \A v \in Workers : \A y : In(y, v)' => In(y, v) \/ y = "assignment"
    BY <1>4, Names DEF NoNew
  <2> QED
    BY <1>3, <2>1, <2>2, <2>3, ChainRests
<1> QED
  BY <1>6, <1>7, <1>8, <1>9, <1>10, <1>11, <1>12, <1>13 DEF LabInv

\* It collects what they have to say.
Collects(x, q) ==
    /\ got' = got \cup Learnt(x)
    /\ q = IF {"review", "valid"} \subseteq got' THEN "children" ELSE "collect"

LEMMA PlannerCollects ==
    ASSUME LabTypes, LabInv, NEW x, NEW q, Collects(x, q),
           Moves("planner", "collect", q), Took("planner", x),
           PassedFirst /\ (x = "passed" => "passed" \in got') => PassedFirst',
           PassedFirst /\ x = "approve" => "passed" \in got,
           crew' = crew, world' = world, tool' = tool, seen' = seen, has' = has,
           verdict' = verdict
    PROVE  LabInv'
<1>1. /\ q \in Collecting /\ q # "heartbeat" /\ "collect" \in Collecting
      /\ "collect" \notin Dispatching /\ q \notin Dispatching
      /\ q = "children" => {"review", "valid"} \subseteq got'
  BY DEF Collects, Collecting, Dispatching, ToReviewer, ToTest, ToPatch
<1>2. /\ killed' = killed /\ forks' = forks /\ lost' = lost /\ file' = file /\ watch' = watch
      /\ service' = service /\ request' = request /\ tested' = tested
  BY Kept DEF Took
<1>3. /\ doing["planner"] = "collect" /\ doing'["planner"] = q
      /\ Stays("retriever") /\ Stays("patch") /\ Stays("tool")
      /\ Stays("test") /\ Stays("reviewer") /\ "planner" \in Agents
      /\ \A w \in Workers : Stays(w)
  BY PlannerMoves
<1>5. /\ TestInv /\ ReviewInv /\ LetterInv /\ QuietInv /\ ReadyInv /\ PartInv /\ CrewInv
  BY DEF LabInv
<1>l. /\ "passed" \in got' <=> "passed" \in got \/ x = "passed"
      /\ "approve" \in got' <=> "approve" \in got \/ x = "approve"
      /\ "review" \in got' <=> "review" \in got \/ x \in {"approve", "reject"}
      /\ "valid" \in got' <=> "valid" \in got \/ x = "context valid"
      /\ "found" \in got' <=> "found" \in got \/ x = "context valid"
  BY DEF Collects, Learnt
<1>4. /\ \A y : \A b \in Agents : NoNew(y, b) /\ (Once(y, b) => Once(y, b)')
      /\ PassTold => PassTold'
      /\ PassedFirst'
  <2>1. \A y : \A b \in Agents : NoNew(y, b) /\ (Once(y, b) => Once(y, b)')
    BY DEF Took, NoNew
  <2>2. PassTold => PassTold'
    BY <1>3, <1>l DEF PassTold, Took
  <2>3. PassedFirst'
    BY <1>5, <1>l DEF ReviewInv
  <2> QED
    BY <2>1, <2>2, <2>3
<1>6. CrewInv'
  BY <1>1, <1>2, <1>5, PlannerCrew
<1>7. PartInv'
  <2>1. ToPatch \subseteq Dispatching /\ ToTest \subseteq Dispatching
        /\ ToReviewer \subseteq Dispatching
    BY DEF Dispatching, ToReviewer, ToTest, ToPatch
  <2> QED
    BY <1>1, <1>3, <1>4, <1>5, <2>1, PartForward, Names DEF PartInv
<1>8. ReadyInv'
  BY <1>1, <1>2, <1>3, <1>4, <1>5 DEF ReadyInv, Stays, NoNew
<1>9. LetterInv'
  BY <1>2, <1>4, <1>5, Names DEF LetterInv, NoNew
<1>10. QuietInv'
  BY <1>1, <1>3 DEF QuietInv
<1>11. TestInv'
  BY <1>2, <1>3, <1>4, <1>5, Names DEF TestInv, Stays, NoNew
<1>12. ReviewInv'
  <2>1. /\ NoNew("passed", "planner") /\ NoNew("approve", "planner")
        /\ NoNew("reject", "planner") /\ NoNew("passed", "reviewer")
    BY <1>4, Names
  <2>2. In(x, "planner")
    BY DEF Took
  <2>3. ReviewInv
    BY <1>5
  <2>4. In("passed", "planner")' \/ "passed" \in got' => request = "passed"
    BY <1>l, <2>1, <2>2, <2>3 DEF ReviewInv, NoNew
  <2>5. "review" \in got' /\ "approve" \notin got' => request = "gone"
    BY <1>l, <2>2, <2>3 DEF ReviewInv
  <2>6. In("approve", "planner")' \/ "approve" \in got' => request = "passed"
    BY <1>l, <2>1, <2>2, <2>3 DEF ReviewInv, NoNew
  <2>7. "passed" \in got' \/ "approve" \notin got'
    BY <1>l, <2>3 DEF ReviewInv
  <2>8. "valid" \in got' => "found" \in got'
    BY <1>l, <2>3 DEF ReviewInv
  <2>9. q = "children" => {"review", "valid"} \subseteq got'
    BY <1>1
  <2> HIDE <1>1
  <2> QED
    BY <1>2, <1>3, <1>4, <2>1, <2>3, <2>4, <2>5, <2>6, <2>7, <2>8, <2>9
    DEF ReviewInv, Stays, NoNew
<1>13. ChainInv'
  <2>1. Undisturbed' => Undisturbed
    BY <1>2 DEF Undisturbed
  <2>2. Chain => Chain'
    BY <1>2, <1>3, <1>4, ChainKept, Names
  <2>3. \A v \in Workers : \A y : In(y, v)' => In(y, v) \/ y = "assignment"
    BY <1>4, Names DEF NoNew
  <2> QED
    BY <1>3, <2>1, <2>2, <2>3, ChainRests
<1> QED
  BY <1>6, <1>7, <1>8, <1>9, <1>10, <1>11, <1>12, <1>13 DEF LabInv

\* It moves on, or ends, without a message.
LEMMA PlannerGoes ==
    ASSUME LabTypes, LabInv, NEW at, NEW q, CrewInv',
           doing["planner"] = at, doing'["planner"] = q, \A w \in Workers : Stays(w),
           Forward(at, q), q # "children",
           \/ q \in Over
           \/ at \in Dispatching /\ q \in {"spawn", "tool?"},
           killed \subseteq killed', Undisturbed' => Undisturbed,
           talk' = talk, world' = world, tool' = tool, seen' = seen, has' = has, got' = got,
           verdict' = "PASS" => request = "passed", verdict' = "FAIL" => request = "gone"
    PROVE  LabInv'
<1>1. q \notin Collecting /\ (q \in Dispatching => q \in {"spawn", "tool?"})
  BY DEF Over, Collecting, Dispatching, ToReviewer, ToTest, ToPatch
<1>2. /\ mail' = mail /\ lost' = lost /\ file' = file /\ watch' = watch
      /\ service' = service /\ request' = request /\ tested' = tested
  BY Kept
<1>3. /\ doing["planner"] = at /\ doing'["planner"] = q
      /\ Stays("retriever") /\ Stays("patch") /\ Stays("tool")
      /\ Stays("test") /\ Stays("reviewer") /\ "planner" \in Agents
      /\ \A w \in Workers : Stays(w)
  BY Names
<1>4. /\ \A x, b : NoNew(x, b) /\ (In(x, b) => In(x, b)') /\ (Once(x, b) => Once(x, b)')
      /\ (PassTold => PassTold') /\ (PassedFirst => PassedFirst')
  BY <1>2, QuietMail
<1>5. /\ TestInv /\ ReviewInv /\ LetterInv /\ QuietInv /\ ReadyInv /\ PartInv
  BY DEF LabInv
<1>6. PartInv'
  BY <1>3, <1>4, <1>5, PartForward DEF PartInv, Forward
<1>7. ReadyInv'
  <2>1. {"spawn", "tool?"} \subseteq ToPatch /\ "to retriever" \notin {"spawn", "tool?"}
        /\ "to retriever" \notin Over
    BY DEF ToPatch, Over
  <2>2. q # "to retriever"
    BY <2>1
  <2>3. q \in Dispatching => q \in ToPatch /\ q \in ToTest
    BY <1>1, <2>1 DEF ToTest
  <2> QED
    BY <1>1, <1>2, <1>3, <1>4, <1>5, <2>2, <2>3 DEF ReadyInv, Stays, NoNew
<1>8. LetterInv'
  BY <1>2, <1>4, <1>5 DEF LetterInv, NoNew
<1>9. QuietInv'
  <2> SUFFICES ASSUME q \in Dispatching PROVE QuietInv'
    BY <1>3 DEF QuietInv
  <2>1. at \in Dispatching
    BY DEF Forward
  <2> QED
    BY <1>2, <1>3, <1>4, <1>5, <2>1 DEF QuietInv, Stays, NoNew
<1>10. TestInv'
  BY <1>2, <1>3, <1>4, <1>5 DEF TestInv, Stays, NoNew
<1>11. ReviewInv'
  BY <1>2, <1>3, <1>4, <1>5 DEF ReviewInv, Stays, NoNew
<1>12. ChainInv'
  <2>1. Chain => Chain'
    BY <1>2, <1>3, <1>4, ChainKept
  <2> QED
    BY <1>3, <1>4, <2>1, ChainRests DEF NoNew
<1> QED
  BY <1>6, <1>7, <1>8, <1>9, <1>10, <1>11, <1>12 DEF LabInv

----------------------------------------------------------------------------
(* A worker is born, boots or is reaped.                                      *)
Turns(w, at, q) ==
    \/ at = "unborn" /\ q = "boot"
    \/ at = "boot" /\ (IF w = "tool" THEN q = "register" ELSE q = "assignment")
    \/ at \in Over /\ q = "reaped" /\ doing["planner"] = "children"

LEMMA WorkerTurns ==
    ASSUME LabTypes, LabInv, CrewInv', NEW w \in Workers, NEW at, NEW q, Turns(w, at, q),
           doing[w] = at, doing'[w] = q, \A b \in Agents : b # w => Stays(b),
           \A x : \A b \in Agents : NoNew(x, b) /\ (Once(x, b) => Once(x, b)'),
           PassTold => PassTold', PassedFirst => PassedFirst',
           killed' = killed, Undisturbed' => Undisturbed,
           world' = world, tool' = tool, minds' = minds
    PROVE  LabInv'
<1>0. /\ Workers \subseteq Agents /\ "planner" \in Agents /\ w # "planner"
      /\ "retriever" \in Agents /\ "patch" \in Agents /\ "test" \in Agents
      /\ "reviewer" \in Agents /\ "tool" \in Agents
  BY Names
<1>1. /\ file' = file /\ watch' = watch
      /\ service' = service /\ request' = request /\ tested' = tested
      /\ seen' = seen /\ has' = has /\ got' = got /\ verdict' = verdict
  BY Kept
<1>2. /\ q \in Early <=> at \in Early /\ (w # "tool" \/ at # "boot")
      /\ q \in Early \cup {"register", "reaped"}
      /\ q = "register" => w = "tool"
      /\ q = "reaped" <=> at \in Over
      /\ q = "reaped" => doing["planner"] = "children"
      /\ q # "failed" /\ at \in Early \cup Over
  BY DEF Turns, Early, Over
<1>3. "children" \notin Dispatching /\ "children" \in Collecting
  BY DEF Dispatching, ToReviewer, ToTest, ToPatch, Collecting
<1>p. Stays("planner")
  BY <1>0
<1>5. /\ TestInv /\ ReviewInv /\ LetterInv /\ QuietInv /\ ReadyInv /\ PartInv
  BY DEF LabInv
<1>6. PartInv'
  <2>1. ASSUME NEW v \in Workers \ {"tool"}, NEW before \in SUBSET Dispatching, Part(v, before)
        PROVE  Part(v, before)'
    <3>1. /\ NoNew("assignment", v)
          /\ Once("assignment", v) => Once("assignment", v)'
      BY <1>0
    <3>2. CASE v # w
      <4>1. Stays(v)
        BY <1>0, <3>2
      <4> QED
        BY <1>p, <2>1, <3>1, <4>1, PartKept
    <3>3. CASE v = w
      <4>1. doing["planner"] \in before => q \in Early
        BY <1>2, <1>3, <2>1, <3>3 DEF Gone, Over, Early
      <4>2. q \in Early => Once("assignment", v)'
        BY <1>2, <2>1, <3>1, <3>3 DEF Part
      <4>3. q \in Early \cup Gone
        BY <1>2, <3>3 DEF Gone
      <4> QED
        BY <1>p, <2>1, <3>1, <3>3, <4>1, <4>2, <4>3 DEF Part, Stays, NoNew
    <3> QED
      BY <3>2, <3>3
  <2>2. ToPatch \subseteq Dispatching /\ ToTest \subseteq Dispatching
        /\ ToReviewer \subseteq Dispatching
    BY DEF Dispatching, ToReviewer, ToTest, ToPatch
  <2> QED
    BY <1>5, <2>1, <2>2, Names DEF PartInv
\* What the others see of it.
<1>s. /\ \A v \in Workers : doing'[v] \in Early => doing[v] \in Early
      /\ \A v \in Workers \ {"tool"} : doing[v] \in Early => doing'[v] \in Early
      /\ \A v \in Workers : doing'[v] # doing[v] => doing'[v] \in Early \cup {"register", "reaped"}
  <2>1. \A v \in Workers : doing'[v] = doing[v] \/ v = w
    BY <1>0 DEF Stays
  <2> QED
    BY <1>2, <2>1
<1>7. ReadyInv'
  <2>1. doing'["tool"] = "ready" => doing["tool"] = "ready"
    BY <1>s, Names DEF Early
  <2>2. /\ doing'["patch"] \in Early => doing["patch"] \in Early
        /\ doing'["test"] \in Early => doing["test"] \in Early
        /\ doing'["reviewer"] \in Early => doing["reviewer"] \in Early
    BY <1>s, Names
  <2>3. \A x : NoNew(x, "planner")
    BY <1>0
  <2> QED
    BY <1>1, <1>5, <1>p, <2>1, <2>2, <2>3, ReadyKept
<1>n. \A x : /\ NoNew(x, "retriever") /\ NoNew(x, "patch") /\ NoNew(x, "test")
             /\ NoNew(x, "reviewer") /\ NoNew(x, "tool") /\ NoNew(x, "planner")
  BY <1>0
<1>8. LetterInv'
  BY <1>1, <1>5, <1>n DEF LetterInv, NoNew
<1>9. QuietInv'
  <2> SUFFICES ASSUME doing["planner"] \in Dispatching PROVE QuietInv'
    BY <1>p DEF QuietInv, Stays
  <2>1. q # "reaped"
    BY <1>2, <1>3
  <2>2. \A v \in Workers : doing'[v] = doing[v] \/ (doing'[v] \in Early \cup {"register"}
                             /\ (v # "tool" => doing'[v] \in Early))
    BY <1>0, <1>2, <2>1 DEF Stays
  <2>3. doing'["tool"] \in {"unborn", "boot", "register", "ready", "recv", "failed"}
    <3>1. w = "tool" => q \in {"boot", "register"}
      BY <2>1 DEF Turns
    <3> QED
      BY <1>0, <1>5, <3>1 DEF QuietInv, Stays
  <2> QED
    BY <1>1, <1>5, <1>n, <2>2, <2>3, Names DEF QuietInv, NoNew
<1>10. TestInv'
  <2>1. doing'["patch"] = doing["patch"] \/ doing'["patch"] \in Early \cup {"register", "reaped"}
    BY <1>s, Names
  <2>2. doing'["test"] = doing["test"] \/ doing'["test"] \in Early \cup {"register", "reaped"}
    BY <1>s, Names
  <2>3. doing'["tool"] = doing["tool"] \/ doing'["tool"] \in Early \cup {"register", "reaped"}
    BY <1>s, Names
  <2>4. doing'["test"] \in Early => doing["test"] \in Early
    BY <1>s, Names
  <2>5. Early = {"unborn", "boot", "assignment"}
    BY DEF Early
  <2>6. doing'["patch"] \in {"changed", "notify", "tell retriever", "tell test", "tell planner"}
          => doing["patch"] \in {"changed", "notify", "tell retriever", "tell test", "tell planner"}
    BY <2>1, <2>5
  <2>7. /\ doing'["test"] \in {"call", "answer", "tell reviewer"}
             => doing["test"] = doing'["test"]
        /\ doing'["tool"] = "leave" => doing["tool"] = "leave"
    BY <2>2, <2>3, <2>5
  <2>8. doing'["test"] \in {"ready", "wait", "call"} => doing["test"] = doing'["test"]
    BY <2>2, <2>5
  <2>9. NoNew("file patched", "test")
    BY <1>n
  <2> QED
    BY <1>1, <1>5, <2>4, <2>6, <2>7, <2>8, <2>9 DEF TestInv, NoNew
<1>11. ReviewInv'
  <2>2. doing'["test"] = doing["test"] \/ doing'["test"] # "tell reviewer"
    BY <1>s, Names DEF Early
  <2>3. doing'["reviewer"] = doing["reviewer"]
           \/ doing'["reviewer"] \notin {"approve", "reject", "diff"}
    BY <1>s, Names DEF Early
  <2> QED
    BY <1>1, <1>5, <1>n, <1>p, <2>2, <2>3 DEF ReviewInv, Stays, NoNew
<1>12. ChainInv'
  <2> SUFFICES ASSUME Undisturbed', Unfailed, FirstLetters, Chain
               PROVE  Unfailed' /\ FirstLetters' /\ Chain'
    BY ChainHolds
  <2>1. Unfailed'
    BY <1>0, <1>2, Zenon DEF Unfailed, Stays
  <2>2. FirstLetters'
    BY <1>0, <1>s DEF FirstLetters, NoNew
  <2>3. at # "failed"
    BY DEF Unfailed
  <2>4. \/ at \in Early /\ q \in Early \cup {"register"} /\ (q = "register" => w = "tool")
        \/ at = "exited" /\ q = "reaped"
    BY <1>2, <2>3 DEF Over, Turns, Early
  <2>5. \A v \in {"patch", "retriever"} :
           \/ doing'[v] = doing[v]
           \/ doing[v] \in Early /\ doing'[v] \in Early
           \/ doing[v] = "exited" /\ doing'[v] = "reaped"
    <3>1. ASSUME NEW v \in {"patch", "retriever"}, v # w PROVE doing'[v] = doing[v]
      BY <1>0, <3>1 DEF Stays
    <3> QED
      BY <2>4, <3>1
  <2>6. NoNew("replace", "patch") /\ NoNew("validate_context", "retriever")
    BY <1>n
  <2>7. /\ doing'["patch"] \in Early <=> doing["patch"] \in Early
        /\ doing'["patch"] \in {"ready", "request"} <=> doing["patch"] \in {"ready", "request"}
        /\ doing'["patch"] = "patch_file" <=> doing["patch"] = "patch_file"
        /\ doing'["patch"] \in Changed <=> doing["patch"] \in Changed
    BY <2>5 DEF Early, Changed
  <2>8. /\ doing'["retriever"] \in Asked <=> doing["retriever"] \in Asked
        /\ doing'["retriever"] \in Asked \ {"tell found", "wait"}
             <=> doing["retriever"] \in Asked \ {"tell found", "wait"}
        /\ doing'["retriever"] \in {"captured", "ask", "tell found", "wait", "stale?"}
             => doing'["retriever"] = doing["retriever"]
        /\ doing'["retriever"] = "refreshed" => doing["retriever"] = "refreshed"
    BY <2>5 DEF Early, Asked
  <2>9. Chain'
    BY <1>1, <2>6, <2>7, <2>8 DEF Chain, NoNew
  <2> QED
    BY <2>1, <2>2, <2>9
<1> QED
  BY <1>6, <1>7, <1>8, <1>9, <1>10, <1>11, <1>12 DEF LabInv

\* A worker that was killed dies.
LEMMA WorkerDies ==
    ASSUME LabTypes, LabInv, NEW w \in Workers, w \in killed, Living(w), Die(w)
    PROVE  LabTypes' /\ LabInv'
<1>0. /\ Workers \subseteq Agents /\ "planner" \in Agents /\ w # "planner" /\ w \in Agents
      /\ "retriever" \in Agents /\ "patch" \in Agents /\ "test" \in Agents
      /\ "reviewer" \in Agents /\ "tool" \in Agents
  BY Names
<1>1. /\ killed' = killed /\ forks' = forks /\ mail' = mail /\ lost' = lost
      /\ file' = file /\ watch' = watch /\ tested' = tested
      /\ seen' = seen /\ has' = has /\ got' = got /\ verdict' = verdict
      /\ service' = IF w = "tool" /\ service = "up" THEN "down" ELSE service
      /\ request' = CASE request = "queued" /\ w = "tool" -> "gone"
                      [] request = "queued" /\ w = "test" -> "none"
                      [] OTHER -> request
  BY <1>0, Kept DEF Die
<1>2. /\ DOMAIN doing' = Agents /\ doing'[w] = "failed"
      /\ \A b \in Agents : b # w => Stays(b)
  BY <1>0 DEF Die, Goto, LabTypes, Stays
<1>3. LabTypes'
  <2>1. service' \in {"none", "up", "down"} /\ request' \in {"none", "queued", "passed", "gone"}
    BY <1>1 DEF LabTypes
  <2> QED
    BY <1>1, <1>2, <2>1, Zenon DEF LabTypes
<1>4. /\ \A x, b : NoNew(x, b) /\ (In(x, b) => In(x, b)') /\ (Once(x, b) => Once(x, b)')
      /\ (PassTold => PassTold') /\ (PassedFirst => PassedFirst')
  BY <1>1, QuietMail
<1>5. /\ TestInv /\ ReviewInv /\ LetterInv /\ QuietInv /\ ReadyInv /\ PartInv /\ CrewInv
  BY DEF LabInv
<1>p. Stays("planner")
  BY <1>0, <1>2
<1>6. CrewInv'
  <2>1. \A i \in 1 .. Len(Crew) : Crew[i] \in Workers
    BY DEF Workers
  <2>2. ASSUME NEW i \in 1 .. Len(Crew), i > forks.tried PROVE doing'[Crew[i]] = "unborn"
    <3>1. doing[Crew[i]] = "unborn"
      BY <1>5, <2>2 DEF CrewInv
    <3>2. Crew[i] # w
      BY <3>1 DEF Living
    <3> QED
      BY <1>0, <1>2, <2>1, <3>1, <3>2 DEF Stays
  <2>3. \A v \in Workers : Living(v)' => Living(v)
    BY <1>0, <1>2 DEF Living, Over, Stays
  <2> QED
    BY <1>1, <1>5, <1>p, <2>2, <2>3 DEF CrewInv, Stays
<1>7. PartInv'
  <2>1. ASSUME NEW v \in Workers, NEW before, Part(v, before) PROVE Part(v, before)'
    <3>1. CASE v # w
      BY <1>0, <1>2, <1>4, <1>p, <2>1, <3>1, PartKept
    <3>2. CASE v = w
      BY <1>2, <1>4, <1>p, <2>1, <3>2 DEF Part, Gone, Early, Stays, NoNew
    <3> QED
      BY <3>1, <3>2
  <2> QED
    BY <1>5, <2>1, Names DEF PartInv
<1>s. \A v \in Workers : doing'[v] = doing[v] \/ doing'[v] = "failed"
  BY <1>0, <1>2 DEF Stays
<1>8. ReadyInv'
  <2>1. \A v \in Workers : doing'[v] \in Early => doing[v] \in Early
    BY <1>s DEF Early
  <2>2. doing'["tool"] = "ready" => doing["tool"] = "ready"
    BY <1>s, Names
  <2>3. service # "none" => service' # "none"
    BY <1>1
  <2> QED
    BY <1>4, <1>5, <1>p, <2>1, <2>2, <2>3, Names DEF ReadyInv, Stays, NoNew
<1>r. /\ request' # "none" => request # "none"
      /\ request' = "passed" <=> request = "passed"
      /\ request = "gone" => request' = "gone"
      /\ request' = "gone" => request = "gone" \/ "tool" \in killed
      /\ request \in {"passed", "gone"} => request' = request
      /\ service' = "down" => service = "down" \/ "tool" \in killed
  BY <1>1
<1>9. LetterInv'
  BY <1>4, <1>5, <1>r DEF LetterInv, NoNew
<1>10. QuietInv'
  BY <1>1, <1>4, <1>5, <1>p, <1>s, Names DEF QuietInv, Stays, NoNew
<1>11. TestInv'
  <2>1. /\ doing'["patch"] = doing["patch"] \/ doing'["patch"] = "failed"
        /\ doing'["test"] = doing["test"] \/ doing'["test"] = "failed"
        /\ doing'["tool"] = doing["tool"] \/ doing'["tool"] = "failed"
    BY <1>s, Names
  <2>2. "failed" \notin Early
    BY DEF Early
  <2>3. request \in Answers => request' = request
    BY <1>r DEF Answers
  <2> QED
    BY <1>1, <1>4, <1>5, <1>r, <2>1, <2>2, <2>3 DEF TestInv, NoNew
<1>12. ReviewInv'
  <2>1. /\ doing'["reviewer"] = doing["reviewer"] \/ doing'["reviewer"] = "failed"
        /\ doing'["test"] = doing["test"] \/ doing'["test"] = "failed"
    BY <1>s, Names
  <2> HIDE <1>1
  <2>2. has' = has /\ got' = got /\ verdict' = verdict
    BY <1>1
  <2> QED
    BY <1>4, <1>5, <1>p, <1>r, <2>1, <2>2 DEF ReviewInv, Stays, NoNew
<1>13. ChainInv'
  BY <1>1 DEF ChainInv, Undisturbed
<1> QED
  BY <1>3, <1>6, <1>7, <1>8, <1>9, <1>10, <1>11, <1>12, <1>13 DEF LabInv

\* Somebody is killed.
LEMMA KillKeeps ==
    ASSUME LabTypes, LabInv, NEW a \in Agents, Kill(a)
    PROVE  LabTypes' /\ LabInv'
<1>1. /\ doing' = doing /\ forks' = forks /\ mail' = mail /\ lost' = lost
      /\ file' = file /\ watch' = watch /\ tested' = tested
      /\ service' = service /\ request' = request
      /\ seen' = seen /\ has' = has /\ got' = got /\ verdict' = verdict
      /\ killed' = killed \cup {a}
  BY Kept DEF Kill
<1>2. LabTypes'
  <2>1. killed' \subseteq Agents
    BY <1>1 DEF LabTypes
  <2> QED
    BY <1>1, <2>1, Zenon DEF LabTypes
<1>3. /\ \A x, b : NoNew(x, b) /\ (In(x, b) => In(x, b)') /\ (Once(x, b) => Once(x, b)')
      /\ (PassTold => PassTold') /\ (PassedFirst => PassedFirst')
  BY <1>1, QuietMail
<1>4. \A b : Stays(b)
  BY <1>1 DEF Stays
<1>5. /\ TestInv /\ ReviewInv /\ LetterInv /\ QuietInv /\ ReadyInv /\ PartInv /\ CrewInv
  BY DEF LabInv
<1>6. CrewInv'
  BY <1>1, <1>5 DEF CrewInv, Living
<1>7. PartInv'
  BY <1>3, <1>4, <1>5, PartKept DEF PartInv
<1>8. ReadyInv'
  BY <1>1, <1>3, <1>4, <1>5, ReadyKept DEF Stays
<1>9. LetterInv'
  BY <1>1, <1>3, <1>5 DEF LetterInv, NoNew
<1>10. QuietInv'
  BY <1>1, <1>3, <1>5 DEF QuietInv, NoNew
<1>11. TestInv'
  BY <1>1, <1>3, <1>5 DEF TestInv, NoNew
<1>12. ReviewInv'
  BY <1>1, <1>3, <1>5 DEF ReviewInv, NoNew
<1>13. ChainInv'
  BY <1>1 DEF ChainInv, Undisturbed
<1> QED
  BY <1>2, <1>6, <1>7, <1>8, <1>9, <1>10, <1>11, <1>12, <1>13 DEF LabInv

\* A worker boots or is reaped.
LEMMA BootKeeps ==
    ASSUME LabTypes, LabInv, NEW w \in Workers, Boot(w)
    PROVE  LabTypes' /\ LabInv'
<1>0. Workers \subseteq Agents /\ "planner" \in Agents /\ w # "planner" /\ w \in Agents
  BY Names
<1>1. /\ killed' = killed /\ forks' = forks /\ world' = world /\ tool' = tool /\ minds' = minds
      /\ mail' = [mail EXCEPT ![w] = <<>>] /\ lost \subseteq lost'
  BY Kept DEF Boot
<1>2. PICK q : /\ (IF w = "tool" THEN q = "register" ELSE q = "assignment")
               /\ Goto(w, q) /\ At(w, "boot")
  BY DEF Boot
<1>3. DOMAIN doing' = Agents /\ Moves(w, "boot", q)
  BY <1>0, <1>2, Going DEF LabTypes
<1>4. /\ mail' \in [Agents -> Seq(Letters)] /\ mail'[w] = <<>>
      /\ \A b \in Agents : b # w => mail'[b] = mail[b]
  <2>1. <<>> \in Seq(Letters)
    OBVIOUS
  <2>2. mail \in [Agents -> Seq(Letters)] /\ mail' = [mail EXCEPT ![w] = <<>>]
    BY <1>1 DEF LabTypes
  <2>3. mail' \in [Agents -> Seq(Letters)]
    BY <2>1, <2>2
  <2> QED
    BY <1>0, <2>2, <2>3
<1>5. LabTypes'
  BY <1>1, <1>3, <1>4, Kept, Zenon DEF LabTypes
<1>6. \A x : \A b \in Agents : NoNew(x, b) /\ (Once(x, b) => Once(x, b)')
  <2>1. \A i \in 1 .. Len(mail'[w]) : FALSE
    BY <1>4
  <2> QED
    BY <1>4, <2>1, Zenon DEF NoNew, In, Once
<1>7. (PassTold => PassTold') /\ (PassedFirst => PassedFirst')
  <2>1. mail'["planner"] = mail["planner"] /\ got' = got
    BY <1>0, <1>1, <1>4, Kept
  <2> QED
    BY <2>1 DEF PassTold, PassedFirst, In
<1>8. CrewInv'
  BY <1>0, <1>1, <1>3, WorkerMoves DEF LabInv, Over
<1>9. Undisturbed' => Undisturbed
  BY <1>1, Kept DEF Undisturbed
<1>10. /\ Turns(w, "boot", q) /\ doing[w] = "boot" /\ doing'[w] = q
       /\ \A b \in Agents : b # w => Stays(b)
  BY <1>2, <1>3 DEF Turns, Moves, Stays
<1> QED
  BY <1>1, <1>5, <1>6, <1>7, <1>8, <1>9, <1>10, WorkerTurns

LEMMA ReapKeeps ==
    ASSUME LabTypes, LabInv, NEW w \in Workers, Reap(w)
    PROVE  LabTypes' /\ LabInv'
<1>0. Workers \subseteq Agents /\ "planner" \in Agents /\ w # "planner" /\ w \in Agents
  BY Names
<1>1. /\ killed' = killed /\ forks' = forks /\ world' = world /\ tool' = tool /\ minds' = minds
      /\ mail' = mail /\ lost' = lost /\ got' = got
  BY Kept DEF Reap
<1>2. /\ DOMAIN doing' = Agents /\ doing'[w] = "reaped" /\ doing["planner"] = "children"
      /\ \A b \in Agents : b # w => Stays(b)
  BY <1>0 DEF Reap, Goto, At, LabTypes, Stays
<1>3. LabTypes'
  BY <1>1, <1>2, Kept, Zenon DEF LabTypes
<1>4. /\ \A x, b : NoNew(x, b) /\ (In(x, b) => In(x, b)') /\ (Once(x, b) => Once(x, b)')
      /\ (PassTold => PassTold') /\ (PassedFirst => PassedFirst')
  BY <1>1, QuietMail
<1>5. PICK at : at = doing[w]
  OBVIOUS
<1>6. Turns(w, at, "reaped")
  BY <1>2, <1>5 DEF Turns, Reap
<1>7. CrewInv'
  <2>1. CrewInv /\ \A i \in 1 .. Len(Crew) : Crew[i] \in Workers
    BY DEF LabInv, Workers
  <2>2. ASSUME NEW i \in 1 .. Len(Crew), i > forks.tried PROVE doing'[Crew[i]] = "unborn"
    <3>1. doing[Crew[i]] = "unborn"
      BY <2>1, <2>2 DEF CrewInv
    <3>2. Crew[i] # w
      BY <3>1 DEF Reap, Over
    <3> QED
      BY <1>0, <1>2, <2>1, <3>1, <3>2 DEF Stays
  <2>3. doing'["planner"] = "children" /\ "children" \notin Over /\ "children" \in Collecting
    BY <1>0, <1>2 DEF Stays, Over, Collecting
  <2> QED
    BY <1>1, <2>2, <2>3 DEF CrewInv
<1>8. Undisturbed' => Undisturbed
  BY <1>1, Kept DEF Undisturbed
<1> QED
  BY <1>1, <1>2, <1>3, <1>4, <1>5, <1>6, <1>7, <1>8, WorkerTurns

LEMMA Born ==
    /\ \A i \in 1 .. Len(Crew) : Crew[i] \in Workers
    /\ \A w \in Workers : \E i \in 1 .. Len(Crew) : w = Crew[i]
BY DEF Workers

\* A fork fails.
LEMMA ForkFails ==
    ASSUME LabTypes, LabInv, doing' = doing, doing["planner"] = "spawn",
           forks.tried < Len(Crew), forks' = [tried |-> forks.tried + 1, ok |-> FALSE],
           killed' = killed, talk' = talk, world' = world, tool' = tool, minds' = minds
    PROVE  LabTypes' /\ LabInv'
<1>1. /\ mail' = mail /\ lost' = lost
      /\ file' = file /\ watch' = watch /\ tested' = tested
      /\ service' = service /\ request' = request
      /\ seen' = seen /\ has' = has /\ got' = got /\ verdict' = verdict
  BY Kept
<1>f. /\ forks.tried \in 0 .. Len(Crew) /\ forks'.tried = forks.tried + 1
      /\ forks' \in [tried : 0 .. Len(Crew), ok : BOOLEAN] /\ forks'.ok = FALSE
  <2>1. forks.tried \in 0 .. Len(Crew)
    BY DEF LabTypes
  <2>2. forks.tried + 1 \in 0 .. Len(Crew)
    BY <2>1, Names
  <2> QED
    BY <2>1, <2>2
<1>2. LabTypes'
  BY <1>1, <1>f, Zenon DEF LabTypes
<1>3. /\ \A x, b : NoNew(x, b) /\ (In(x, b) => In(x, b)') /\ (Once(x, b) => Once(x, b)')
      /\ (PassTold => PassTold') /\ (PassedFirst => PassedFirst')
  BY <1>1, QuietMail
<1>4. \A b : Stays(b)
  BY DEF Stays
<1>5. /\ TestInv /\ ReviewInv /\ LetterInv /\ QuietInv /\ ReadyInv /\ PartInv /\ CrewInv
  BY DEF LabInv
<1>6. CrewInv'
  <2>1. \A i \in 1 .. Len(Crew) : i > forks'.tried => i > forks.tried
    BY <1>f, Names
  <2>2. \A i \in 1 .. Len(Crew) : i > forks'.tried => doing'[Crew[i]] = "unborn"
    BY <1>5, <2>1 DEF CrewInv
  <2>3. "spawn" # "heartbeat" /\ "spawn" \notin Over /\ "spawn" \in Dispatching
    BY DEF Over, Dispatching, ToReviewer, ToTest, ToPatch
  <2> QED
    BY <2>2, <2>3 DEF CrewInv
<1>7. PartInv'
  BY <1>3, <1>4, <1>5, PartKept DEF PartInv
<1>8. ReadyInv'
  BY <1>1, <1>3, <1>4, <1>5, ReadyKept DEF Stays
<1>9. LetterInv'
  BY <1>1, <1>3, <1>5 DEF LetterInv, NoNew
<1>10. QuietInv'
  BY <1>1, <1>3, <1>5 DEF QuietInv, NoNew
<1>11. TestInv'
  BY <1>1, <1>3, <1>5 DEF TestInv, NoNew
<1>12. ReviewInv'
  BY <1>1, <1>3, <1>5 DEF ReviewInv, NoNew
<1>13. ChainInv'
  BY <1>f, Zenon DEF ChainInv, Undisturbed
<1> QED
  BY <1>2, <1>6, <1>7, <1>8, <1>9, <1>10, <1>11, <1>12, <1>13 DEF LabInv

LEMMA SpawnKeeps ==
    ASSUME LabTypes, LabInv, Spawn
    PROVE  LabTypes' /\ LabInv'
<1> DEFINE n == forks.tried + 1
           w == Crew[n]
<1>0. /\ Workers \subseteq Agents /\ "planner" \in Agents /\ "planner" \notin Workers
      /\ doing["planner"] = "spawn" /\ forks.tried < Len(Crew)
      /\ killed' = killed /\ talk' = talk /\ world' = world /\ tool' = tool /\ minds' = minds
  BY Names DEF Spawn, At
<1>1. /\ forks.tried \in 0 .. Len(Crew) /\ n \in 1 .. Len(Crew) /\ n > forks.tried
      /\ w \in Workers /\ w \in Agents /\ w # "planner"
  <2>1. forks.tried \in 0 .. Len(Crew)
    BY DEF LabTypes
  <2>2. n \in 1 .. Len(Crew) /\ n > forks.tried
    BY <1>0, <2>1, Names
  <2> QED
    BY <1>0, <2>1, <2>2, Born
<1>2. CASE doing' = doing /\ forks' = [tried |-> n, ok |-> FALSE]
  BY <1>0, <1>2, ForkFails
<1>3. CASE doing' = [doing EXCEPT ![w] = "boot"] /\ forks' = [forks EXCEPT !.tried = @ + 1]
  <2>1. /\ DOMAIN doing' = Agents /\ doing'[w] = "boot"
        /\ \A b \in Agents : b # w => Stays(b)
    BY <1>1, <1>3 DEF LabTypes, Stays
  <2>2. /\ forks' \in [tried : 0 .. Len(Crew), ok : BOOLEAN] /\ forks'.tried = n
        /\ forks'.ok = forks.ok
    <3>1. forks \in [tried : 0 .. Len(Crew), ok : BOOLEAN]
      BY DEF LabTypes
    <3>2. n \in 0 .. Len(Crew)
      BY <1>1
    <3> HIDE DEF n
    <3>3. forks' = [forks EXCEPT !.tried = n]
      BY <1>3 DEF n
    <3> QED
      BY <3>1, <3>2, <3>3
  <2>3. LabTypes'
    BY <1>0, <2>1, <2>2, Kept, Zenon DEF LabTypes
  <2>4. /\ \A x, b : NoNew(x, b) /\ (In(x, b) => In(x, b)') /\ (Once(x, b) => Once(x, b)')
        /\ (PassTold => PassTold') /\ (PassedFirst => PassedFirst')
    BY <1>0, Kept, QuietMail
  <2>5. doing[w] = "unborn" /\ CrewInv
    BY <1>1 DEF LabInv, CrewInv
  <2>6. CrewInv'
    <3>1. ASSUME NEW i \in 1 .. Len(Crew), i > forks'.tried PROVE doing'[Crew[i]] = "unborn"
      <4>1. i > forks.tried /\ i # n
        BY <1>1, <2>2, <3>1
      <4>2. Crew[i] # w
        <5>1. \A j, k \in 1 .. Len(Crew) : Crew[j] = Crew[k] => j = k
          BY Names
        <5> QED
          BY <1>1, <4>1, <5>1
      <4>3. doing[Crew[i]] = "unborn" /\ Crew[i] \in Workers
        BY <2>5, <4>1, Born DEF CrewInv
      <4> QED
        BY <1>0, <2>1, <4>2, <4>3 DEF Stays
    <3>2. "spawn" # "heartbeat" /\ "spawn" \notin Over /\ "spawn" \in Dispatching
      BY DEF Over, Dispatching, ToReviewer, ToTest, ToPatch
    <3>3. doing'["planner"] = "spawn"
      BY <1>0, <1>1, <2>1 DEF Stays
    <3> QED
      BY <3>1, <3>2, <3>3 DEF CrewInv
  <2>7. Undisturbed' => Undisturbed
    BY <1>0, <2>2, Kept DEF Undisturbed
  <2>8. Turns(w, "unborn", "boot")
    BY DEF Turns
  <2> HIDE DEF w
  <2> QED
    BY <1>0, <1>1, <2>1, <2>3, <2>4, <2>5, <2>6, <2>7, <2>8, WorkerTurns
<1> QED
  BY <1>2, <1>3 DEF Spawn

LEMMA PlannerStartsKeeps ==
    ASSUME LabTypes, LabInv, PlannerStarts
    PROVE  LabTypes' /\ LabInv'
<1>0. /\ "planner" \in Agents /\ crew' = crew /\ talk' = talk /\ world' = world /\ tool' = tool
      /\ minds' = minds /\ killed' = killed /\ forks' = forks
  BY Names, Kept DEF PlannerStarts
<1>1. PICK q : q \in {"spawn", "failed"} /\ Goto("planner", q)
  BY DEF PlannerStarts
<1>2. DOMAIN doing' = Agents /\ Moves("planner", "heartbeat", q)
  BY <1>0, <1>1, Going DEF PlannerStarts, LabTypes
<1>3. LabTypes'
  BY <1>0, <1>2, Kept, Zenon DEF LabTypes
<1>4. /\ "heartbeat" \in Dispatching /\ "spawn" \in Dispatching /\ "failed" \in Over
      /\ Forward("heartbeat", q) /\ q # "children" /\ q # "heartbeat"
  BY <1>1 DEF Over, Dispatching, ToReviewer, ToTest, ToPatch, Forward
<1>5. CrewInv'
  <2>1. CASE q = "spawn"
    BY <1>0, <1>2, <1>4, <2>1, PlannerCrew DEF LabInv
  <2>2. CASE q = "failed"
    <3>1. doing["planner"] = "heartbeat" /\ doing'["planner"] = q /\ \A w \in Workers : Stays(w)
      BY <1>2, PlannerMoves
    <3>2. forks.tried = 0 /\ \A i \in 1 .. Len(Crew) : i > forks.tried => doing[Crew[i]] = "unborn"
      BY <3>1 DEF LabInv, CrewInv
    <3>3. \A i \in 1 .. Len(Crew) : doing'[Crew[i]] = "unborn"
      BY <3>1, <3>2, Born, Names DEF Stays
    <3>4. \A w \in Workers : ~ Living(w)'
      BY <3>3, Born DEF Living
    <3> QED
      BY <1>4, <2>2, <3>1, <3>3, <3>4 DEF CrewInv
  <2> QED
    BY <1>1, <2>1, <2>2
<1>6. Undisturbed' => Undisturbed
  BY <1>0, Kept DEF Undisturbed
<1>7. seen' = seen /\ has' = has /\ got' = got /\ verdict' = verdict
      /\ (verdict = "PASS" => request = "passed") /\ (verdict = "FAIL" => request = "gone")
  BY <1>0, Kept DEF LabInv, ReviewInv
<1>8. doing["planner"] = "heartbeat" /\ doing'["planner"] = q /\ \A w \in Workers : Stays(w)
  BY <1>2, PlannerMoves
<1> QED
  BY <1>0, <1>1, <1>3, <1>4, <1>5, <1>6, <1>7, <1>8, PlannerGoes

\* The planner's exit kills the workers it leaves.
LEMMA PlannerFails ==
    ASSUME LabTypes, LabInv, DOMAIN doing' = Agents, NEW at,
           doing["planner"] = at, doing'["planner"] = "failed", \A w \in Workers : Stays(w),
           killed' = Cascaded, forks' = forks, talk' = talk, world' = world, tool' = tool,
           minds' = minds
    PROVE  LabTypes' /\ LabInv'
<1>0. Workers \subseteq Agents /\ "planner" \in Agents
  BY Names
<1>1. killed \subseteq killed' /\ killed' \subseteq Agents
      /\ \A w \in Workers : Living(w) => w \in killed'
  BY <1>0 DEF Cascaded, LabTypes
<1>2. LabTypes'
  BY <1>1, Kept, Zenon DEF LabTypes
<1>3. doing'["planner"] = "failed" /\ \A w \in Workers : Stays(w)
  OBVIOUS
<1>4. CrewInv'
  <2>1. \A w \in Workers : Living(w)' => Living(w)
    BY <1>3 DEF Living, Stays
  <2>2. \A i \in 1 .. Len(Crew) : i > forks'.tried => doing'[Crew[i]] = "unborn"
    BY <1>3, Born DEF LabInv, CrewInv, Stays
  <2> QED
    BY <1>1, <1>3, <2>1, <2>2 DEF CrewInv, Over
<1>5. Undisturbed' => Undisturbed
  BY <1>1, Kept DEF Undisturbed
<1>6. Forward(at, "failed") /\ "failed" \in Over /\ "failed" # "children"
  BY DEF Forward, Over, Dispatching, ToReviewer, ToTest, ToPatch
<1>7. seen' = seen /\ has' = has /\ got' = got /\ verdict' = verdict
      /\ (verdict = "PASS" => request = "passed") /\ (verdict = "FAIL" => request = "gone")
  BY Kept DEF LabInv, ReviewInv
<1> QED
  BY <1>1, <1>2, <1>3, <1>4, <1>5, <1>6, <1>7, PlannerGoes

LEMMA SpawnedKeeps ==
    ASSUME LabTypes, LabInv, Spawned
    PROVE  LabTypes' /\ LabInv'
<1>0. /\ "planner" \in Agents /\ talk' = talk /\ world' = world /\ tool' = tool
      /\ minds' = minds /\ forks' = forks
  BY Names DEF Spawned
<1>1. CASE forks.ok
  <2>1. DOMAIN doing' = Agents /\ Moves("planner", "spawn", "tool?") /\ killed' = killed
    BY <1>0, <1>1, Going DEF Spawned, LabTypes
  <2>2. LabTypes'
    BY <1>0, <2>1, Kept, Zenon DEF LabTypes
  <2>3. /\ "spawn" \in Dispatching /\ "tool?" \in Dispatching
        /\ Forward("spawn", "tool?")
    BY DEF Over, Dispatching, ToReviewer, ToTest, ToPatch, Forward
  <2>4. CrewInv'
    BY <1>0, <2>1, <2>3, PlannerCrew DEF LabInv
  <2>5. Undisturbed' => Undisturbed
    BY <1>0, <2>1, Kept DEF Undisturbed
  <2>6. seen' = seen /\ has' = has /\ got' = got /\ verdict' = verdict
        /\ (verdict = "PASS" => request = "passed") /\ (verdict = "FAIL" => request = "gone")
    BY <1>0, Kept DEF LabInv, ReviewInv
  <2>7. doing["planner"] = "spawn" /\ doing'["planner"] = "tool?" /\ \A w \in Workers : Stays(w)
    BY <2>1, PlannerMoves
  <2> QED
    BY <1>0, <2>1, <2>2, <2>3, <2>4, <2>5, <2>6, <2>7, PlannerGoes
<1>2. CASE ~ forks.ok
  <2>1. DOMAIN doing' = Agents /\ Moves("planner", "spawn", "failed") /\ killed' = Cascaded
    BY <1>0, <1>2, Going DEF Spawned, LabTypes
  <2>2. doing["planner"] = "spawn" /\ doing'["planner"] = "failed" /\ \A w \in Workers : Stays(w)
    BY <2>1, PlannerMoves
  <2> QED
    BY <1>0, <2>1, <2>2, PlannerFails
<1> QED
  BY <1>1, <1>2

LEMMA AwaitKeeps ==
    ASSUME LabTypes, LabInv, NEW at, NEW m, NEW next, Awaits(at, m, next), Await(at, m, next)
    PROVE  LabTypes' /\ LabInv'
<1>0. "planner" \in Agents
  BY Names
<1>1. OnlyTalks /\ seen' = seen /\ seen' \in Nat
  BY Kept, Zenon DEF Await, OnlyTalks, LabTypes
<1>2. PICK x \in Letters : /\ x = Head(mail["planner"]) /\ Took("planner", x)
                           /\ mail' \in [Agents -> Seq(Letters)]
  BY <1>0, ReceiveStep, Zenon DEF Await
<1> DEFINE q == IF x = m THEN next ELSE at
<1>3. DOMAIN doing' = Agents /\ Moves("planner", at, q)
  BY <1>0, <1>2, Going, Zenon DEF Await, LabTypes
<1>4. LabTypes'
  BY <1>1, <1>2, <1>3, TalkTypes
<1>5. PassedFirst /\ x # "passed" => PassedFirst'
  <2>1. mail \in [Agents -> Seq(Letters)] /\ got \subseteq got' /\ Receive("planner")
    BY <1>1 DEF LabTypes, OnlyTalks, Await
  <2> QED
    BY <1>0, <1>2, <2>1, ReceiveIn
<1>6. q = IF x = m THEN next ELSE at
  OBVIOUS
<1> HIDE DEF q
<1> QED
  BY <1>1, <1>2, <1>3, <1>4, <1>5, <1>6, PlannerAwaits

LEMMA DispatchKeeps ==
    ASSUME LabTypes, LabInv, Dispatch
    PROVE  LabTypes' /\ LabInv'
<1>0. /\ Agents = Workers \cup {"planner"} /\ "planner" \in Agents
      /\ "patch" \in Agents /\ "test" \in Agents /\ "reviewer" \in Agents
      /\ "retriever" \in Agents /\ "assignment" \in Letters
  BY Names DEF Letters
<1>1. ASSUME NEW at, NEW to, NEW q, Tell("planner", at, to, "assignment", q), to \in Agents,
             Assigns(at, to, q)
      PROVE  LabTypes' /\ LabInv'
  <2>1. /\ LabTypes' /\ Sent(to, "assignment") /\ Moves("planner", at, q)
        /\ OnlyTalks /\ seen' = seen
    BY <1>0, <1>1, TellStep
  <2> QED
    BY <1>1, <2>1, PlannerAssigns
<1>2. /\ Awaits("tool?", "tool ready", "to patch")
      /\ Awaits("patch?", "patch ready", "to test")
      /\ Awaits("test?", "test ready", "to reviewer")
      /\ Awaits("reviewer?", "watching", "to retriever")
  BY DEF Awaits
<1>3. /\ Assigns("to patch", "patch", "patch?")
      /\ Assigns("to test", "test", "test?")
      /\ Assigns("to reviewer", "reviewer", "reviewer?")
      /\ Assigns("to retriever", "retriever", "collect")
  BY DEF Assigns
<1> QED
  BY <1>0, <1>1, <1>2, <1>3, AwaitKeeps, Zenon DEF Dispatch

LEMMA CollectKeeps ==
    ASSUME LabTypes, LabInv, Collect
    PROVE  LabTypes' /\ LabInv'
<1>0. "planner" \in Agents
  BY Names
<1>1. /\ crew' = crew /\ world' = world /\ tool' = tool /\ seen' = seen /\ has' = has
      /\ verdict' = verdict /\ Receive("planner")
      /\ got' = got \cup Learnt(Head(mail["planner"]))
  BY DEF Collect
<1>2. PICK x \in Letters : /\ x = Head(mail["planner"]) /\ Took("planner", x)
                           /\ mail' \in [Agents -> Seq(Letters)]
  BY <1>0, <1>1, ReceiveStep, Zenon
<1> DEFINE q == IF {"review", "valid"} \subseteq got' THEN "children" ELSE "collect"
<1>3. DOMAIN doing' = Agents /\ Moves("planner", "collect", q)
  <2>1. At("planner", "collect") /\ Goto("planner", q)
    BY DEF Collect
  <2>2. PICK p : p = q
    OBVIOUS
  <2> HIDE DEF q
  <2>3. DOMAIN doing' = Agents /\ Moves("planner", "collect", p)
    BY <1>0, <2>1, <2>2, Going DEF LabTypes
  <2> QED
    BY <2>2, <2>3
<1>4. Collects(x, q)
  BY <1>1, <1>2 DEF Collects
<1>5. got' \subseteq {"valid", "found", "passed", "review", "approve"}
  BY <1>4 DEF Collects, Learnt, LabTypes
<1>6. LabTypes'
  BY <1>1, <1>2, <1>3, <1>5, Kept, Zenon DEF LabTypes
<1>7. /\ PassedFirst /\ (x = "passed" => "passed" \in got') => PassedFirst'
      /\ PassedFirst /\ x = "approve" => "passed" \in got
  <2>1. mail \in [Agents -> Seq(Letters)] /\ got \subseteq got'
    BY <1>1 DEF LabTypes
  <2> QED
    BY <1>0, <1>1, <1>2, <2>1, ReceiveIn
<1>8. PassedFirst /\ x = "approve" => "passed" \in got
  BY <1>7
<1>9. PICK p : p = q
  OBVIOUS
<1>10. Collects(x, p) /\ Moves("planner", "collect", p)
  BY <1>3, <1>4, <1>9
<1>11. PassedFirst
  BY DEF LabInv, ReviewInv
<1> HIDE DEF q
<1> QED
  BY <1>1, <1>2, <1>6, <1>7, <1>8, <1>10, <1>11, PlannerCollects

LEMMA ConcludeKeeps ==
    ASSUME LabTypes, LabInv, Conclude
    PROVE  LabTypes' /\ LabInv'
<1>0. /\ "planner" \in Agents /\ crew' = crew /\ talk' = talk /\ world' = world /\ tool' = tool
      /\ killed' = killed /\ forks' = forks /\ seen' = seen /\ has' = has /\ got' = got
      /\ verdict' = IF Passes THEN "PASS" ELSE "FAIL"
  BY Names, Kept DEF Conclude
<1>1. DOMAIN doing' = Agents /\ Moves("planner", "children", "exited")
  BY <1>0, Going DEF Conclude, LabTypes
<1>2. LabTypes'
  <2>1. verdict' \in {"none", "PASS", "FAIL"}
    BY <1>0
  <2> QED
    BY <1>0, <1>1, <2>1, Kept, Zenon DEF LabTypes
<1>3. doing["planner"] = "children" /\ doing'["planner"] = "exited" /\ \A w \in Workers : Stays(w)
  BY <1>1, PlannerMoves
<1>4. CrewInv'
  <2>1. \A w \in Workers : ~ Living(w)'
    BY <1>3 DEF Conclude, Living, Stays
  <2>2. \A i \in 1 .. Len(Crew) : i > forks'.tried => doing'[Crew[i]] = "unborn"
    BY <1>0, <1>3, Born DEF LabInv, CrewInv, Stays
  <2> QED
    BY <1>3, <2>1, <2>2 DEF CrewInv, Over
<1>5. Forward("children", "exited") /\ "exited" \in Over /\ "exited" # "children"
  BY DEF Forward, Over, Dispatching, ToReviewer, ToTest, ToPatch
<1>6. Undisturbed' => Undisturbed
  BY <1>0, Kept DEF Undisturbed
<1>7. verdict' = "PASS" => request = "passed"
  BY <1>0 DEF Passes, LabInv, ReviewInv
<1>8. verdict' = "FAIL" => request = "gone"
  <2> SUFFICES ASSUME ~ Passes PROVE request = "gone"
    BY <1>0
  <2>1. ReviewInv /\ TestInv
    BY DEF LabInv
  <2>2. "review" \in got /\ "found" \in got
    BY <1>3, <2>1 DEF ReviewInv
  <2>3. "approve" \notin got
    <3> SUFFICES ASSUME "approve" \in got PROVE FALSE
      OBVIOUS
    <3>1. "passed" \in got /\ request = "passed"
      BY <2>1 DEF ReviewInv
    <3>2. file.content = "fixed"
      BY <2>1, <3>1 DEF TestInv
    <3> QED
      BY <2>2, <3>1, <3>2 DEF Passes
  <2> QED
    BY <2>1, <2>2, <2>3 DEF ReviewInv
<1> QED
  BY <1>0, <1>1, <1>2, <1>3, <1>4, <1>5, <1>6, <1>7, <1>8, PlannerGoes

----------------------------------------------------------------------------
LEMMA StepKeeps ==
    ASSUME LabTypes, LabInv, NEW a \in Agents, Step(a)
    PROVE  LabTypes' /\ LabInv'
<1>0. \A w \in Agents : w = "planner" \/ w \in Workers
  BY Names
<1>1. CASE a = "planner" /\ Planner
  BY <1>1, PlannerStartsKeeps, SpawnKeeps, SpawnedKeeps, DispatchKeeps, CollectKeeps,
     ConcludeKeeps, Zenon DEF Planner
<1>2. CASE a = "retriever" /\ Retriever
  BY <1>2, RetrieverKeeps
<1>3. CASE a = "patch" /\ PatchAgent
  BY <1>3, PatchKeeps
<1>4. CASE a = "test" /\ Test
  BY <1>4, TestKeeps
<1>5. CASE a = "reviewer" /\ Reviewer
  BY <1>5, ReviewerKeeps
<1>6. CASE a = "tool" /\ ToolService
  BY <1>6, ToolKeeps
<1>7. CASE a \in Workers /\ (Boot(a) \/ Reap(a))
  BY <1>7, BootKeeps, ReapKeeps
<1>8. CASE Die(a)
  <2>1. a \in killed /\ Living(a)
    BY <1>8 DEF Die
  <2>2. CASE a \in Workers
    BY <1>8, <2>1, <2>2, WorkerDies
  <2>3. CASE a = "planner"
    <3>1. /\ Goto("planner", "failed") /\ "planner" \in Agents /\ killed' = Cascaded
          /\ service' = service /\ request' = request /\ tested' = tested
          /\ forks' = forks /\ talk' = talk /\ world' = world /\ minds' = minds
      BY <1>8, <2>3, Names DEF Die
    <3>2. tool' = tool
      BY <3>1 DEF tool
    <3>3. /\ DOMAIN doing' = Agents /\ doing'["planner"] = "failed"
          /\ \A w \in Workers : Stays(w)
      BY <3>1, Names DEF Goto, LabTypes, Stays
    <3>4. PICK at : doing["planner"] = at
      OBVIOUS
    <3> QED
      BY <3>1, <3>2, <3>3, <3>4, PlannerFails
  <2> QED
    BY <1>0, <2>2, <2>3
<1> QED
  BY <1>1, <1>2, <1>3, <1>4, <1>5, <1>6, <1>7, <1>8, Zenon DEF Step

LEMMA RestKeeps ==
    ASSUME LabTypes, LabInv, UNCHANGED labVars
    PROVE  LabTypes' /\ LabInv'
<1>1. /\ doing' = doing /\ killed' = killed /\ forks' = forks /\ mail' = mail /\ lost' = lost
      /\ file' = file /\ watch' = watch /\ tested' = tested
      /\ service' = service /\ request' = request
      /\ seen' = seen /\ has' = has /\ got' = got /\ verdict' = verdict
  BY Kept DEF labVars
<1>2. LabTypes'
  BY <1>1, Zenon DEF LabTypes
<1>3. /\ \A x, b : NoNew(x, b) /\ (In(x, b) => In(x, b)') /\ (Once(x, b) => Once(x, b)')
      /\ (PassTold => PassTold') /\ (PassedFirst => PassedFirst')
  BY <1>1, QuietMail
<1>4. \A b : Stays(b)
  BY <1>1 DEF Stays
<1>5. /\ TestInv /\ ReviewInv /\ LetterInv /\ QuietInv /\ ReadyInv /\ PartInv /\ CrewInv
  BY DEF LabInv
<1>6. CrewInv'
  BY <1>1, <1>5 DEF CrewInv, Living
<1>7. PartInv'
  BY <1>3, <1>4, <1>5, PartKept DEF PartInv
<1>8. ReadyInv'
  BY <1>1, <1>3, <1>4, <1>5, ReadyKept DEF Stays
<1>9. LetterInv'
  BY <1>1, <1>3, <1>5 DEF LetterInv, NoNew
<1>10. QuietInv'
  BY <1>1, <1>3, <1>5 DEF QuietInv, NoNew
<1>11. TestInv'
  BY <1>1, <1>3, <1>5 DEF TestInv, NoNew
<1>12. ReviewInv'
  BY <1>1, <1>3, <1>5 DEF ReviewInv, NoNew
<1>13. ChainInv'
  <2>1. Undisturbed' => Undisturbed
    BY <1>1 DEF Undisturbed
  <2>2. Chain => Chain'
    BY <1>1, <1>3, <1>4, ChainKept
  <2> QED
    BY <1>3, <1>4, <2>1, <2>2, ChainRests DEF NoNew
<1> QED
  BY <1>2, <1>6, <1>7, <1>8, <1>9, <1>10, <1>11, <1>12, <1>13 DEF LabInv

LEMMA LabStarts ==
    ASSUME LabInit
    PROVE  LabTypes /\ LabInv
<1>1. /\ \A w \in Workers : doing[w] = "unborn"
      /\ doing["planner"] = "heartbeat" /\ DOMAIN doing = Agents
      /\ \A a \in Agents : mail[a] = <<>>
      /\ mail \in [Agents -> Seq(Letters)]
  BY Names DEF LabInit
<1>2. /\ killed = {} /\ forks = [tried |-> 0, ok |-> TRUE] /\ lost = {}
      /\ watch = [on |-> FALSE, filemod |-> FALSE]
      /\ service = "none" /\ request = "none" /\ tested = "nothing"
      /\ seen = 0 /\ has = {} /\ got = {} /\ verdict = "none"
  BY DEF LabInit
<1>3. PICK c \in {"bug", "fixed"} : file = [original |-> c, content |-> c, version |-> 1]
  BY LabAssumption DEF LabInit
<1>4. LabTypes
  <2>1. forks \in [tried : 0 .. Len(Crew), ok : BOOLEAN]
    BY <1>2, Names
  <2>2. watch \in [on : BOOLEAN, filemod : BOOLEAN]
    BY <1>2
  <2>3. file \in [original : {"bug", "fixed"}, content : {"bug", "fixed"}, version : Nat]
    BY <1>3
  <2> QED
    BY <1>1, <1>2, <2>1, <2>2, <2>3 DEF LabTypes
<1>5. \A x : \A b \in Agents : ~ In(x, b) /\ Once(x, b)
  <2>1. \A b \in Agents : \A i \in 1 .. Len(mail[b]) : FALSE
    BY <1>1
  <2> QED
    BY <2>1, Zenon DEF In, Once
<1>6. CrewInv
  BY <1>1, <1>2, Born, Names DEF CrewInv, Over, Dispatching, ToReviewer, ToTest, ToPatch
<1>7. PartInv
  BY <1>1, <1>5, Names DEF PartInv, Part, Early
<1>p. /\ "heartbeat" \in Dispatching /\ "heartbeat" \in ToPatch /\ "heartbeat" \in ToTest
      /\ "heartbeat" \notin Collecting
  BY DEF Dispatching, ToReviewer, ToTest, ToPatch, Collecting
<1>8. ReadyInv
  BY <1>1, <1>5, <1>p, Names DEF ReadyInv
<1>9. LetterInv
  BY <1>5, Names DEF LetterInv
<1>10. QuietInv
  BY <1>1, <1>2, <1>5, Names DEF QuietInv, Early
<1>11. TestInv
  BY <1>1, <1>2, <1>5, Names DEF TestInv, Early
<1>12. ReviewInv
  <2>1. PassedFirst
    BY <1>5, Names DEF PassedFirst, In
  <2> QED
    BY <1>1, <1>2, <1>5, <2>1, Names DEF ReviewInv
<1>13. ChainInv
  <2>1. Unfailed /\ FirstLetters
    BY <1>1, <1>5, Names DEF Unfailed, FirstLetters
  <2>2. "unborn" \in Early /\ "unborn" \notin Changed /\ "unborn" \notin Asked
    BY DEF Early, Changed, Asked
  <2>3. file.version = 1 /\ (Undisturbed => file.content = "bug")
    BY <1>3 DEF Undisturbed
  <2>4. Undisturbed => Chain
    BY <1>1, <1>5, <2>2, <2>3, Names DEF Chain
  <2> QED
    BY <2>1, <2>4 DEF ChainInv
<1> QED
  BY <1>4, <1>6, <1>7, <1>8, <1>9, <1>10, <1>11, <1>12, <1>13 DEF LabInv

LEMMA LabInvariant == LabSpec => [](LabTypes /\ LabInv)
<1>1. LabInit => LabTypes /\ LabInv
  BY LabStarts
<1>2. (LabTypes /\ LabInv) /\ [LabNext]_labVars => (LabTypes /\ LabInv)'
  <2> SUFFICES ASSUME LabTypes, LabInv, [LabNext]_labVars PROVE LabTypes' /\ LabInv'
    OBVIOUS
  <2>1. CASE \E a \in Agents : Step(a)
    BY <2>1, StepKeeps
  <2>2. CASE \E a \in Agents : Kill(a)
    BY <2>2, KillKeeps
  <2>3. CASE UNCHANGED labVars
    BY <2>3, RestKeeps
  <2> QED
    BY <2>1, <2>2, <2>3 DEF LabNext
<1> QED
  BY <1>1, <1>2, PTL DEF LabSpec

(* Undisturbed, no worker takes one of its exits for an unexpected event or   *)
(* result, however late the others are.                                       *)
THEOREM WorkersDoNotStumble == LabSpec => []NobodyStumbles
<1>1. LabTypes /\ LabInv => NobodyStumbles
  BY DEF LabInv, ChainInv, NobodyStumbles, Unfailed
<1> QED
  BY <1>1, LabInvariant, PTL

(* An approval and PASS are of a file that is fixed and was when it was       *)
(* tested, FAIL is of a service that was killed before it ran the test.       *)
THEOREM VerdictIsTrue == LabSpec => []VerdictTrue
<1>1. LabTypes /\ LabInv => VerdictTrue
  <2> SUFFICES ASSUME LabTypes, LabInv PROVE VerdictTrue
    OBVIOUS
  <2>1. TestInv /\ ReviewInv
    BY DEF LabInv
  <2>2. ASSUME doing["reviewer"] = "approve" \/ "approve" \in got \/ verdict = "PASS"
        PROVE  file.content = "fixed" /\ tested = "fixed"
    <3>1. request = "passed"
      BY <2>1, <2>2 DEF ReviewInv
    <3> QED
      BY <2>1, <3>1 DEF TestInv
  <2>3. ASSUME verdict = "FAIL" PROVE tested = "nothing" /\ "tool" \in killed
    <3>1. request = "gone"
      BY <2>1, <2>3 DEF ReviewInv
    <3> QED
      BY <2>1, <3>1 DEF TestInv
  <2> QED
    BY <2>2, <2>3 DEF VerdictTrue
<1> QED
  BY <1>1, LabInvariant, PTL

============================================================================
