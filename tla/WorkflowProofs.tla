--------------------------- MODULE WorkflowProofs ---------------------------
(* Proofs about Workflow, for every number of slots, entries and processes. *)
EXTENDS Workflow, FiniteSetTheorems, TLAPS

-----------------------------------------------------------------------------
(* The three ways a step changes the membership of workflows.              *)

Keys == Nat \X Nat

\* The members of a workflow are finitely many.
LEMMA MembersFinite ==
    ASSUME TypeOK, NEW k \in Keys
    PROVE  IsFiniteSet(Members(k)) /\ Cardinality(Members(k)) \in Nat
<1>1. IsFiniteSet(Slots)
  BY FS_Interval, SizesAssumption DEF Slots
<1>2. Members(k) \subseteq Slots
  BY DEF Members, TypeOK
<1>3. IsFiniteSet(Members(k))
  BY <1>1, <1>2, FS_Subset
<1> QED
  BY <1>3, FS_CardinalityType

\* A workflow with a member is in the table.
LEMMA MemberHasEntry ==
    ASSUME TypeOK, MemberCountExact, NEW k \in Keys, NEW p \in Members(k)
    PROVE  Found(k)
BY DEF TypeOK, MemberCountExact, Members

\* A step that changes neither the table nor any membership keeps the counts.
LEMMA SameMembers ==
    ASSUME TypeOK, TypeOK', MemberCountExact, UNCHANGED <<wkey, wcount>>,
           \A k \in Keys : Members(k)' = Members(k)
    PROVE  MemberCountExact'
<1>1. \A w \in Entries : wkey[w] \in Keys
  BY DEF TypeOK, Keys
<1>2. ASSUME NEW p \in registered', ~Leaving(p)'
      PROVE  Found(key[p])'
  <2>1. PICK j \in Keys : key'[p] = j
    BY DEF TypeOK, Keys
  <2>2. p \in Members(j)'
    BY <1>2, <2>1 DEF Members, TypeOK
  <2>3. p \in Members(j)
    BY <2>2
  <2>4. Found(j)
    BY <2>3, MemberHasEntry
  <2> QED
    BY <2>1, <2>4 DEF Found
<1> QED
  BY <1>1, <1>2 DEF MemberCountExact

\* A step that adds p to workflow k and counts it keeps the counts.
LEMMA OneMore ==
    ASSUME TypeOK, TypeOK', MemberCountExact,
           NEW k \in Keys, k # NoKey, Found(k), AddMember(k),
           NEW p \in Slots, p \notin Members(k),
           Members(k)' = Members(k) \cup {p},
           \A j \in Keys \ {k} : Members(j)' = Members(j)
    PROVE  MemberCountExact'
<1>1. wkey' = wkey /\ wstate' = wstate
  BY DEF AddMember
<1>2. \A w \in Entries : wkey[w] \in Keys
  BY DEF TypeOK, Keys
<1>3. Cardinality(Members(k)') = Cardinality(Members(k)) + 1
  BY MembersFinite, FS_AddElement
<1>4. ASSUME NEW w \in Entries, wkey'[w] # NoKey
      PROVE  (wcount[w] = Cardinality(Members(wkey[w])) /\ wcount[w] > 0)'
  <2>1. PICK j \in Keys : wkey[w] = j /\ wkey'[w] = j
    BY <1>1, <1>2
  <2>2. wcount[w] = Cardinality(Members(j)) /\ wcount[w] > 0
    BY <1>4, <2>1 DEF MemberCountExact
  <2>3. wcount'[w] = Cardinality(Members(j)') /\ wcount'[w] > 0
    <3>1. CASE j = k
      <4>1. wcount'[w] = wcount[w] + 1
        BY <2>1, <3>1 DEF AddMember
      <4>2. wcount[w] \in Nat
        BY DEF TypeOK
      <4>3. Members(j)' = Members(k)' /\ Members(j) = Members(k)
        BY <3>1 DEF Members
      <4> QED
        BY <1>3, <2>2, <4>1, <4>2, <4>3
    <3>2. CASE j # k
      <4>1. wcount'[w] = wcount[w]
        BY <2>1, <3>2 DEF AddMember
      <4>2. Members(j)' = Members(j)
        BY <3>2
      <4> QED
        BY <2>2, <4>1, <4>2
    <3> QED
      BY <3>1, <3>2
  <2>4. Members(wkey[w])' = Members(j)'
    BY <2>1 DEF Members
  <2> QED
    BY <2>3, <2>4
<1>5. ASSUME NEW q \in registered', ~Leaving(q)'
      PROVE  Found(key[q])'
  <2>1. PICK j \in Keys : key'[q] = j
    BY DEF TypeOK, Keys
  <2>2. q \in Members(j)'
    BY <1>5, <2>1 DEF Members, TypeOK
  <2>3. Found(j)
    <3>1. CASE j # k
      <4>1. q \in Members(j)
        BY <2>2, <3>1
      <4> QED
        BY <4>1, MemberHasEntry
    <3> QED
      BY <3>1
  <2> QED
    BY <1>1, <2>1, <2>3 DEF Found
<1> QED
  BY <1>1, <1>4, <1>5 DEF MemberCountExact

\* A step that makes p the first member of a new entry keeps the counts.
LEMMA NewEntry ==
    ASSUME TypeOK, TypeOK', StateInv', MemberCountExact,
           NEW k \in Keys, k # NoKey, ~Found(k), CreateLocked(k),
           NEW p \in Slots,
           Members(k)' = Members(k) \cup {p},
           \A j \in Keys \ {k} : Members(j)' = Members(j)
    PROVE  MemberCountExact'
<1>1. PICK e \in Entries :
         /\ wkey[e] = NoKey
         /\ wkey' = [wkey EXCEPT ![e] = k]
         /\ wcount' = [wcount EXCEPT ![e] = 1]
  BY DEF CreateLocked
<1>2. wkey'[e] = k /\ wcount'[e] = 1
  BY <1>1 DEF TypeOK
<1>3. \A w \in Entries \ {e} : wkey'[w] = wkey[w] /\ wcount'[w] = wcount[w]
  BY <1>1 DEF TypeOK
<1>4. \A w \in Entries : wkey[w] \in Keys /\ wkey[w] # k
  BY DEF TypeOK, Keys, Found
<1>5. Members(k)' = {p}
  BY MemberHasEntry
<1>6. Cardinality(Members(k)') = 1
  BY <1>5, FS_Singleton
<1>7. ASSUME NEW w \in Entries, wkey'[w] # NoKey
      PROVE  (wcount[w] = Cardinality(Members(wkey[w])) /\ wcount[w] > 0)'
  <2>1. CASE w = e
    <3>1. Members(wkey[w])' = Members(k)'
      BY <1>2, <2>1 DEF Members
    <3> QED
      BY <1>2, <1>6, <2>1, <3>1
  <2>2. CASE w # e
    <3>1. PICK j \in Keys : wkey[w] = j /\ wkey'[w] = j /\ j # k
      BY <1>3, <1>4, <2>2
    <3>2. wcount[w] = Cardinality(Members(j)) /\ wcount[w] > 0
      BY <1>7, <3>1 DEF MemberCountExact
    <3>3. Members(j)' = Members(j)
      BY <3>1
    <3>4. Members(wkey[w])' = Members(j)'
      BY <3>1 DEF Members
    <3> QED
      BY <1>3, <2>2, <3>2, <3>3, <3>4
  <2> QED
    BY <2>1, <2>2
<1>8. ASSUME NEW q \in registered', ~Leaving(q)'
      PROVE  Found(key[q])'
  <2>1. PICK j \in Keys : key'[q] = j
    BY DEF TypeOK, Keys
  <2>2. q \in Members(j)'
    BY <1>8, <2>1 DEF Members, TypeOK
  <2>3. CASE j = k
    BY <1>2, <2>1, <2>3 DEF Found
  <2>4. CASE j # k
    <3>1. Found(j)
      BY <2>2, <2>4, MemberHasEntry
    <3>2. PICK w \in Entries : wkey[w] = j
      BY <3>1 DEF Found
    <3>3. j # NoKey
      BY <1>8, <2>1 DEF StateInv, TypeOK
    <3> QED
      BY <1>1, <1>3, <2>1, <3>2, <3>3 DEF Found
  <2> QED
    BY <2>3, <2>4
<1>9. ASSUME NEW v \in Entries, NEW w \in Entries,
             wkey'[v] = wkey'[w], wkey'[v] # NoKey
      PROVE  v = w
  BY <1>2, <1>3, <1>4, <1>9 DEF MemberCountExact
<1> QED
  BY <1>7, <1>8, <1>9 DEF MemberCountExact

\* A step that takes p out of workflow k and counts it out keeps the counts.
LEMMA OneLess ==
    ASSUME TypeOK, TypeOK', MemberCountExact,
           NEW k \in Keys, k # NoKey, LeaveLocked(k),
           NEW p \in Slots, p \in Members(k),
           Members(k)' = Members(k) \ {p},
           \A j \in Keys \ {k} : Members(j)' = Members(j)
    PROVE  MemberCountExact'
<1>1. \A w \in Entries : wkey[w] \in Keys /\ wcount[w] \in Nat
  BY DEF TypeOK, Keys
<1>2. IsFiniteSet(Members(k)) /\ Cardinality(Members(k)) \in Nat
  BY MembersFinite
<1>3. Cardinality(Members(k)') = Cardinality(Members(k)) - 1
  BY <1>2, FS_RemoveElement
<1>4. Cardinality(Members(k)) = 1 => Members(k)' = {}
  <2>1. SUFFICES ASSUME Cardinality(Members(k)) = 1 PROVE Members(k)' = {}
    OBVIOUS
  <2>2. IsFiniteSet(Members(k)')
    BY <1>2, FS_Subset
  <2> QED
    BY <1>3, <2>1, <2>2, FS_EmptySet
<1>5. \A w \in Entries : wkey[w] = k => wcount[w] = Cardinality(Members(k))
                                        /\ wcount[w] > 0
  BY DEF MemberCountExact
<1>6. ASSUME NEW w \in Entries
      PROVE  /\ wkey[w] # k => wkey'[w] = wkey[w] /\ wcount'[w] = wcount[w]
             /\ wkey[w] = k /\ wcount[w] <= 1 => wkey'[w] = NoKey
             /\ wkey[w] = k /\ ~(wcount[w] <= 1)
                  => wkey'[w] = k /\ wcount'[w] = wcount[w] - 1
  BY DEF LeaveLocked
<1>7. ASSUME NEW w \in Entries, wkey'[w] # NoKey
      PROVE  (wcount[w] = Cardinality(Members(wkey[w])) /\ wcount[w] > 0)'
  <2>1. PICK j \in Keys : wkey[w] = j /\ wkey'[w] = j
    BY <1>1, <1>6, <1>7
  <2>2. wcount[w] = Cardinality(Members(j)) /\ wcount[w] > 0
    BY <1>7, <2>1 DEF MemberCountExact
  <2>3. wcount'[w] = Cardinality(Members(j)') /\ wcount'[w] > 0
    <3>1. CASE j = k
      <4>1. wcount'[w] = wcount[w] - 1 /\ ~(wcount[w] <= 1)
        BY <1>6, <1>7, <2>1, <3>1
      <4>2. Members(j)' = Members(k)' /\ Members(j) = Members(k)
        BY <3>1 DEF Members
      <4> QED
        BY <1>1, <1>3, <2>2, <4>1, <4>2
    <3>2. CASE j # k
      <4>1. Members(j)' = Members(j)
        BY <3>2
      <4> QED
        BY <1>6, <2>1, <2>2, <3>2, <4>1
    <3> QED
      BY <3>1, <3>2
  <2>4. Members(wkey[w])' = Members(j)'
    BY <2>1 DEF Members
  <2> QED
    BY <2>3, <2>4
<1>8. ASSUME NEW q \in registered', ~Leaving(q)'
      PROVE  Found(key[q])'
  <2>1. PICK j \in Keys : key'[q] = j
    BY DEF TypeOK, Keys
  <2>2. q \in Members(j)'
    BY <1>8, <2>1 DEF Members, TypeOK
  <2>3. q \in Members(j)
    BY <2>2
  <2>4. PICK w \in Entries : wkey[w] = j
    BY <2>3, MemberHasEntry DEF Found
  <2>5. wkey'[w] = j
    <3>1. CASE j = k
      <4>1. Cardinality(Members(k)) # 1
        BY <1>4, <2>2, <3>1
      <4>2. ~(wcount[w] <= 1)
        BY <1>1, <1>5, <2>4, <3>1, <4>1
      <4> QED
        BY <1>6, <2>4, <3>1, <4>2
    <3>2. CASE j # k
      BY <1>6, <2>4, <3>2
    <3> QED
      BY <3>1, <3>2
  <2> QED
    BY <2>1, <2>5 DEF Found
<1>9. ASSUME NEW v \in Entries, NEW w \in Entries,
             wkey'[v] = wkey'[w], wkey'[v] # NoKey
      PROVE  v = w
  <2>1. wkey'[v] = wkey[v] /\ wkey'[w] = wkey[w]
    BY <1>6, <1>9
  <2> QED
    BY <1>9, <2>1 DEF MemberCountExact
<1> QED
  BY <1>7, <1>8, <1>9 DEF MemberCountExact
-----------------------------------------------------------------------------
(* Types.                                                                  *)

\* The first slot and the one after a slot, as the loops go through them.
LEMMA OneIsSlot == 1 \in Slots
BY SizesAssumption DEF Slots

\* The slot after a slot that is not the last.
LEMMA NextSlot ==
    ASSUME NEW q \in Slots, q < NPROC
    PROVE  q + 1 \in Slots
<1>1. NPROC \in Nat
  BY SizesAssumption
<1> QED
  BY <1>1 DEF Slots

\* What agent_workflow_leave does to the types of the table.
LEMMA LeaveTypes ==
    ASSUME TypeOK, NEW k, LeaveLocked(k)
    PROVE  /\ wkey' \in [Entries -> Nat \X Nat]
           /\ wstate' \in [Entries -> {"NONE", "ACTIVE", "TERMINATING"}]
           /\ wcount' \in [Entries -> Nat]
BY DEF TypeOK, LeaveLocked, NoKey

\* Every step keeps the types.
LEMMA TypeStep ==
    ASSUME TypeOK, StateInv, ForkInv, [Next]_vars
    PROVE  TypeOK'
<1> USE DEF TypeOK, PcValues, procVars, ctlVars, tabVars, idVars
<1>1. ASSUME NEW p \in Slots, NEW np \in Slots, ForkAlloc(p, np)
      PROVE  TypeOK'
  BY <1>1 DEF ForkAlloc, InUser
<1>2. ASSUME NEW p \in Slots, ForkAbort(p)
      PROVE  TypeOK'
  BY <1>2 DEF ForkAbort, ForkInv
<1>3. ASSUME NEW p \in Slots, ForkJoin(p)
      PROVE  TypeOK'
  <2>1. child[p] \in Slots
    BY <1>3 DEF ForkJoin, ForkInv
  <2> QED
    BY <1>3, <2>1 DEF ForkJoin, AddMember, MayJoin
<1>4. ASSUME NEW p \in Slots, ForkPublish(p)
      PROVE  TypeOK'
  BY <1>4 DEF ForkPublish, ForkInv
<1>5. ASSUME NEW p \in Slots, NEW t \in {"PRIMARY", "WORKER"}, MarkBegin(p, t)
      PROVE  TypeOK'
  BY SMTT(30), <1>5 DEF MarkBegin, InUser
<1>6. ASSUME NEW p \in Slots, MarkLeave(p)
      PROVE  TypeOK'
  BY <1>6, LeaveTypes DEF MarkLeave
<1>7. ASSUME NEW p \in Slots, MarkKey(p)
      PROVE  TypeOK'
  <2>1. key' \in [Slots -> Nat \X Nat]
    <3>1. <<pid[p], ident[p]>> \in Nat \X Nat
      OBVIOUS
    <3>2. \/ key' = [key EXCEPT ![p] = <<pid[p], ident[p]>>]
          \/ key' = key
      BY <1>7 DEF MarkKey
    <3> QED
      BY <3>1, <3>2
  <2>2. pc' \in [Slots -> PcValues]
    BY <1>7 DEF MarkKey
  <2> QED
    BY <1>7, <2>1, <2>2 DEF MarkKey
<1>8. ASSUME NEW p \in Slots, MarkCreate(p)
      PROVE  TypeOK'
  <2>1. CASE MayCreate(key[p]) /\ Found(key[p])
    BY <1>8, <2>1 DEF MarkCreate, CreateLocked, AddMember
  <2>2. CASE MayCreate(key[p]) /\ ~Found(key[p])
    <3>1. key[p] \in Nat \X Nat
      OBVIOUS
    <3>2. PICK w \in Entries :
             /\ wkey' = [wkey EXCEPT ![w] = key[p]]
             /\ wstate' = [wstate EXCEPT ![w] = "ACTIVE"]
             /\ wcount' = [wcount EXCEPT ![w] = 1]
      BY <1>8, <2>2 DEF MarkCreate, CreateLocked
    <3> QED
      BY <1>8, <2>2, <3>1, <3>2 DEF MarkCreate
  <2>3. CASE ~MayCreate(key[p])
    BY <1>8, <2>3 DEF MarkCreate
  <2> QED
    BY <2>1, <2>2, <2>3
<1>9. ASSUME NEW p \in Slots, MarkJoin(p)
      PROVE  TypeOK'
  BY <1>9 DEF MarkJoin, AddMember, MayJoin
<1>10. ASSUME NEW p \in Slots, NEW r \in {"CTRL", "NOCTRL"}, RoleSet(p, r)
      PROVE  TypeOK'
  BY <1>10 DEF RoleSet, InUser
<1>11. ASSUME NEW p \in Slots, CapDrop(p)
      PROVE  TypeOK'
  BY <1>11 DEF CapDrop, InUser
<1>12. ASSUME NEW p \in Slots, CascadeBegin(p)
      PROVE  TypeOK'
  BY <1>12, OneIsSlot DEF CascadeBegin, BeginTerminateLocked, InUser
<1>13. ASSUME NEW p \in Slots, CascadeStep(p)
      PROVE  TypeOK'
  <2>1. cursor[p] \in Slots
    BY <1>13 DEF CascadeStep, Woken, StateInv
  <2>2. cursor[p] < NPROC => cursor[p] + 1 \in Slots
    BY <2>1, NextSlot
  <2>3. cursor' \in [Slots -> Slots \cup {0}]
    <3>1. \/ cursor' = [cursor EXCEPT ![p] = 0]
          \/ cursor' = [cursor EXCEPT ![p] = cursor[p] + 1] /\ cursor[p] < NPROC
      BY <1>13 DEF CascadeStep, Woken
    <3> QED
      BY <2>2, <3>1
  <2>4. pc' \in [Slots -> PcValues]
    BY SMTT(30), <1>13 DEF CascadeStep, Woken
  <2>5. st' \in [Slots -> {"UNUSED", "USED", "RUNNABLE", "SLEEPING", "ZOMBIE"}]
    BY <1>13 DEF CascadeStep, Woken
  <2> QED
    BY <1>13, <2>1, <2>3, <2>4, <2>5 DEF CascadeStep, Woken
<1>14. ASSUME NEW p \in Slots, ExitBegin(p)
      PROVE  TypeOK'
  <2>1. wstate' \in [Entries -> {"NONE", "ACTIVE", "TERMINATING"}]
    BY <1>14 DEF ExitBegin, BeginTerminateLocked
  <2>2. cursor' \in [Slots -> Slots \cup {0}] /\ pc' \in [Slots -> PcValues]
    BY <1>14, OneIsSlot DEF ExitBegin
  <2> QED
    BY <1>14, <2>1, <2>2 DEF ExitBegin, BeginTerminateLocked
<1>15. ASSUME NEW p \in Slots, ExitLeave(p)
      PROVE  TypeOK'
  <2>1. CASE p \in registered
    BY <1>15, <2>1, LeaveTypes DEF ExitLeave
  <2>2. CASE p \notin registered
    BY <1>15, <2>2 DEF ExitLeave
  <2> QED
    BY <2>1, <2>2
<1>16. ASSUME NEW p \in Slots, ExitZombie(p)
      PROVE  TypeOK'
  BY <1>16 DEF ExitZombie
<1>17. ASSUME NEW p \in Slots, Reap(p)
      PROVE  TypeOK'
  BY <1>17 DEF Reap, NoKey
<1>18. ASSUME NEW p \in Slots, Kill(p)
      PROVE  TypeOK'
  BY <1>18 DEF Kill, Woken
<1>19. ASSUME NEW p \in Slots, WaitSleep(p)
      PROVE  TypeOK'
  BY <1>19 DEF WaitSleep, InUser
<1>20. ASSUME NEW p \in Slots, WaitWake(p)
      PROVE  TypeOK'
  BY <1>20 DEF WaitWake
<1>21. ASSUME NEW p \in Slots, WaitReturn(p)
      PROVE  TypeOK'
  BY <1>21 DEF WaitReturn
<1>22. CASE UNCHANGED vars
  BY <1>22 DEF vars
<1> HIDE DEF TypeOK, PcValues, procVars, ctlVars, tabVars, idVars
<1> QED
  BY <1>1, <1>2, <1>3, <1>4, <1>5, <1>6, <1>7, <1>8, <1>9, <1>10, <1>11, <1>12, <1>13, <1>14, <1>15, <1>16, <1>17, <1>18, <1>19, <1>20, <1>21, <1>22 DEF Next, Continue, Call
-----------------------------------------------------------------------------
(* The local invariants.                                                   *)

\* Every step keeps what p->state says of the other fields.
LEMMA StateStep ==
    ASSUME TypeOK, StateInv, ForkInv, MarkInv, [Next]_vars
    PROVE  StateInv'
<1> USE DEF TypeOK, procVars, ctlVars, tabVars, idVars, StateInv, InCascade, NoKey
<1>1. ASSUME NEW p \in Slots, NEW np \in Slots, ForkAlloc(p, np)
      PROVE  StateInv'
  BY <1>1 DEF ForkAlloc, InUser
<1>2. ASSUME NEW p \in Slots, ForkAbort(p)
      PROVE  StateInv'
  BY <1>2 DEF ForkAbort, ForkInv
<1>3. ASSUME NEW p \in Slots, ForkJoin(p)
      PROVE  StateInv'
  BY <1>3 DEF ForkJoin, ForkInv
<1>4. ASSUME NEW p \in Slots, ForkPublish(p)
      PROVE  StateInv'
  BY <1>4 DEF ForkPublish, ForkInv
<1>5. ASSUME NEW p \in Slots, NEW t \in {"PRIMARY", "WORKER"}, MarkBegin(p, t)
      PROVE  StateInv'
  BY SMTT(30), <1>5 DEF MarkBegin, InUser, MarkInv
<1>6. ASSUME NEW p \in Slots, MarkLeave(p)
      PROVE  StateInv'
  BY <1>6 DEF MarkLeave, MarkInv
<1>7. ASSUME NEW p \in Slots, MarkKey(p)
      PROVE  StateInv'
  BY <1>7 DEF MarkKey, MarkInv
<1>8. ASSUME NEW p \in Slots, MarkCreate(p)
      PROVE  StateInv'
  BY <1>8 DEF MarkCreate, MarkInv
<1>9. ASSUME NEW p \in Slots, MarkJoin(p)
      PROVE  StateInv'
  BY <1>9 DEF MarkJoin, MarkInv
<1>10. ASSUME NEW p \in Slots, NEW r \in {"CTRL", "NOCTRL"}, RoleSet(p, r)
      PROVE  StateInv'
  BY <1>10 DEF RoleSet, InUser
<1>11. ASSUME NEW p \in Slots, CapDrop(p)
      PROVE  StateInv'
  BY <1>11 DEF CapDrop, InUser
<1>12. ASSUME NEW p \in Slots, CascadeBegin(p)
      PROVE  StateInv'
  BY <1>12, OneIsSlot DEF CascadeBegin, InUser
<1>13. ASSUME NEW p \in Slots, CascadeStep(p)
      PROVE  StateInv'
  BY <1>13, OneIsSlot, NextSlot DEF CascadeStep, Woken
<1>14. ASSUME NEW p \in Slots, ExitBegin(p)
      PROVE  StateInv'
  BY <1>14, OneIsSlot DEF ExitBegin
<1>15. ASSUME NEW p \in Slots, ExitLeave(p)
      PROVE  StateInv'
  BY <1>15 DEF ExitLeave
<1>16. ASSUME NEW p \in Slots, ExitZombie(p)
      PROVE  StateInv'
  BY <1>16 DEF ExitZombie
<1>17. ASSUME NEW p \in Slots, Reap(p)
      PROVE  StateInv'
  BY SMTT(30), <1>17 DEF Reap
<1>18. ASSUME NEW p \in Slots, Kill(p)
      PROVE  StateInv'
  BY <1>18 DEF Kill, Woken
<1>19. ASSUME NEW p \in Slots, WaitSleep(p)
      PROVE  StateInv'
  BY <1>19 DEF WaitSleep, InUser
<1>20. ASSUME NEW p \in Slots, WaitWake(p)
      PROVE  StateInv'
  BY <1>20 DEF WaitWake
<1>21. ASSUME NEW p \in Slots, WaitReturn(p)
      PROVE  StateInv'
  BY <1>21 DEF WaitReturn
<1>22. CASE UNCHANGED vars
  BY <1>22 DEF vars
<1> QED
  BY <1>1, <1>2, <1>3, <1>4, <1>5, <1>6, <1>7, <1>8, <1>9, <1>10, <1>11, <1>12, <1>13, <1>14, <1>15, <1>16, <1>17, <1>18, <1>19, <1>20, <1>21, <1>22 DEF Next, Continue, Call

\* Every step keeps what fork knows of its child.
LEMMA ForkStep ==
    ASSUME TypeOK, StateInv, ForkInv, [Next]_vars
    PROVE  ForkInv'
<1> USE DEF TypeOK, procVars, ctlVars, tabVars, idVars, StateInv, ForkInv
<1>1. ASSUME NEW p \in Slots, NEW np \in Slots, ForkAlloc(p, np)
      PROVE  ForkInv'
  BY <1>1 DEF ForkAlloc, InUser
<1>2. ASSUME NEW p \in Slots, ForkAbort(p)
      PROVE  ForkInv'
  BY <1>2 DEF ForkAbort
<1>3. ASSUME NEW p \in Slots, ForkJoin(p)
      PROVE  ForkInv'
  BY <1>3 DEF ForkJoin
<1>4. ASSUME NEW p \in Slots, ForkPublish(p)
      PROVE  ForkInv'
  BY <1>4 DEF ForkPublish
<1>5. ASSUME NEW p \in Slots, NEW t \in {"PRIMARY", "WORKER"}, MarkBegin(p, t)
      PROVE  ForkInv'
  BY <1>5 DEF MarkBegin, InUser
<1>6. ASSUME NEW p \in Slots, MarkLeave(p)
      PROVE  ForkInv'
  BY <1>6 DEF MarkLeave
<1>7. ASSUME NEW p \in Slots, MarkKey(p)
      PROVE  ForkInv'
  BY <1>7 DEF MarkKey
<1>8. ASSUME NEW p \in Slots, MarkCreate(p)
      PROVE  ForkInv'
  BY <1>8 DEF MarkCreate
<1>9. ASSUME NEW p \in Slots, MarkJoin(p)
      PROVE  ForkInv'
  BY <1>9 DEF MarkJoin
<1>10. ASSUME NEW p \in Slots, NEW r \in {"CTRL", "NOCTRL"}, RoleSet(p, r)
      PROVE  ForkInv'
  BY <1>10 DEF RoleSet, InUser
<1>11. ASSUME NEW p \in Slots, CapDrop(p)
      PROVE  ForkInv'
  BY <1>11 DEF CapDrop, InUser
<1>12. ASSUME NEW p \in Slots, CascadeBegin(p)
      PROVE  ForkInv'
  BY <1>12 DEF CascadeBegin, InUser
<1>13. ASSUME NEW p \in Slots, CascadeStep(p)
      PROVE  ForkInv'
  BY <1>13 DEF CascadeStep, Woken
<1>14. ASSUME NEW p \in Slots, ExitBegin(p)
      PROVE  ForkInv'
  BY <1>14 DEF ExitBegin
<1>15. ASSUME NEW p \in Slots, ExitLeave(p)
      PROVE  ForkInv'
  BY <1>15 DEF ExitLeave
<1>16. ASSUME NEW p \in Slots, ExitZombie(p)
      PROVE  ForkInv'
  BY <1>16 DEF ExitZombie
<1>17. ASSUME NEW p \in Slots, Reap(p)
      PROVE  ForkInv'
  BY <1>17 DEF Reap
<1>18. ASSUME NEW p \in Slots, Kill(p)
      PROVE  ForkInv'
  BY <1>18 DEF Kill, Woken
<1>19. ASSUME NEW p \in Slots, WaitSleep(p)
      PROVE  ForkInv'
  BY <1>19 DEF WaitSleep, InUser
<1>20. ASSUME NEW p \in Slots, WaitWake(p)
      PROVE  ForkInv'
  BY <1>20 DEF WaitWake
<1>21. ASSUME NEW p \in Slots, WaitReturn(p)
      PROVE  ForkInv'
  BY <1>21 DEF WaitReturn
<1>22. CASE UNCHANGED vars
  BY <1>22 DEF vars
<1> QED
  BY <1>1, <1>2, <1>3, <1>4, <1>5, <1>6, <1>7, <1>8, <1>9, <1>10, <1>11, <1>12, <1>13, <1>14, <1>15, <1>16, <1>17, <1>18, <1>19, <1>20, <1>21, <1>22 DEF Next, Continue, Call

\* Every step keeps what agent_create knows of its process.
LEMMA MarkStep ==
    ASSUME TypeOK, StateInv, ForkInv, MarkInv, [Next]_vars
    PROVE  MarkInv'
<1> USE DEF TypeOK, procVars, ctlVars, tabVars, idVars, MarkInv, StateInv
<1>1. ASSUME NEW p \in Slots, NEW np \in Slots, ForkAlloc(p, np)
      PROVE  MarkInv'
  BY <1>1 DEF ForkAlloc, InUser
<1>2. ASSUME NEW p \in Slots, ForkAbort(p)
      PROVE  MarkInv'
  BY <1>2 DEF ForkAbort, ForkInv
<1>3. ASSUME NEW p \in Slots, ForkJoin(p)
      PROVE  MarkInv'
  BY <1>3 DEF ForkJoin, ForkInv
<1>4. ASSUME NEW p \in Slots, ForkPublish(p)
      PROVE  MarkInv'
  BY <1>4 DEF ForkPublish, ForkInv
<1>5. ASSUME NEW p \in Slots, NEW t \in {"PRIMARY", "WORKER"}, MarkBegin(p, t)
      PROVE  MarkInv'
  BY <1>5 DEF MarkBegin, InUser
<1>6. ASSUME NEW p \in Slots, MarkLeave(p)
      PROVE  MarkInv'
  BY <1>6 DEF MarkLeave
<1>7. ASSUME NEW p \in Slots, MarkKey(p)
      PROVE  MarkInv'
  <2>1. pid[p] # 0
    BY <1>7 DEF MarkKey
  <2>2. <<pid[p], ident[p]>> # NoKey
    BY <2>1 DEF NoKey
  <2>3. pc'[p] \in {"mark_create", "mark_join"} => p \notin registered'
    BY <1>7 DEF MarkKey
  <2>4. pc'[p] \in {"mark_create", "mark_join"} => key'[p] # NoKey
    BY <1>7, <2>2 DEF MarkKey
  <2>5. pc'[p] \in {"user", "mark_create", "mark_join"}
    BY <1>7 DEF MarkKey
  <2>6. ASSUME NEW q \in Slots, q # p
        PROVE  /\ pc'[q] = pc[q] /\ type'[q] = type[q] /\ key'[q] = key[q]
               /\ q \in registered' <=> q \in registered
    BY <1>7, <2>6 DEF MarkKey
  <2> QED
    BY <2>3, <2>4, <2>5, <2>6
<1>8. ASSUME NEW p \in Slots, MarkCreate(p)
      PROVE  MarkInv'
  BY <1>8 DEF MarkCreate
<1>9. ASSUME NEW p \in Slots, MarkJoin(p)
      PROVE  MarkInv'
  BY <1>9 DEF MarkJoin
<1>10. ASSUME NEW p \in Slots, NEW r \in {"CTRL", "NOCTRL"}, RoleSet(p, r)
      PROVE  MarkInv'
  BY <1>10 DEF RoleSet, InUser
<1>11. ASSUME NEW p \in Slots, CapDrop(p)
      PROVE  MarkInv'
  BY <1>11 DEF CapDrop, InUser
<1>12. ASSUME NEW p \in Slots, CascadeBegin(p)
      PROVE  MarkInv'
  BY <1>12 DEF CascadeBegin, InUser
<1>13. ASSUME NEW p \in Slots, CascadeStep(p)
      PROVE  MarkInv'
  BY <1>13 DEF CascadeStep, Woken
<1>14. ASSUME NEW p \in Slots, ExitBegin(p)
      PROVE  MarkInv'
  BY <1>14 DEF ExitBegin
<1>15. ASSUME NEW p \in Slots, ExitLeave(p)
      PROVE  MarkInv'
  BY <1>15 DEF ExitLeave
<1>16. ASSUME NEW p \in Slots, ExitZombie(p)
      PROVE  MarkInv'
  BY <1>16 DEF ExitZombie
<1>17. ASSUME NEW p \in Slots, Reap(p)
      PROVE  MarkInv'
  BY <1>17 DEF Reap
<1>18. ASSUME NEW p \in Slots, Kill(p)
      PROVE  MarkInv'
  BY <1>18 DEF Kill, Woken
<1>19. ASSUME NEW p \in Slots, WaitSleep(p)
      PROVE  MarkInv'
  BY <1>19 DEF WaitSleep, InUser
<1>20. ASSUME NEW p \in Slots, WaitWake(p)
      PROVE  MarkInv'
  BY <1>20 DEF WaitWake
<1>21. ASSUME NEW p \in Slots, WaitReturn(p)
      PROVE  MarkInv'
  BY <1>21 DEF WaitReturn
<1>22. CASE UNCHANGED vars
  BY <1>22 DEF vars
<1> QED
  BY <1>1, <1>2, <1>3, <1>4, <1>5, <1>6, <1>7, <1>8, <1>9, <1>10, <1>11, <1>12, <1>13, <1>14, <1>15, <1>16, <1>17, <1>18, <1>19, <1>20, <1>21, <1>22 DEF Next, Continue, Call
-----------------------------------------------------------------------------
(* The member counts.                                                      *)

\* Every step keeps member_count equal to the number of members.
LEMMA CountStep ==
    ASSUME CountInv, TypeOK', StateInv', [Next]_vars
    PROVE  MemberCountExact'
<1> USE DEF CountInv, procVars, ctlVars, tabVars, idVars
<1>1. ASSUME NEW p \in Slots, NEW np \in Slots, ForkAlloc(p, np)
      PROVE  MemberCountExact'
  <2>1. \A k \in Keys : Members(k)' = Members(k)
    BY <1>1 DEF ForkAlloc, InUser, Members, Leaving, TypeOK
  <2> QED
    BY <1>1, <2>1, SameMembers DEF ForkAlloc
<1>2. ASSUME NEW p \in Slots, ForkAbort(p)
      PROVE  MemberCountExact'
  <2>1. \A k \in Keys : Members(k)' = Members(k)
    BY <1>2 DEF ForkAbort, ForkInv, Members, Leaving, TypeOK
  <2> QED
    BY <1>2, <2>1, SameMembers DEF ForkAbort
<1>3. ASSUME NEW p \in Slots, ForkJoin(p)
      PROVE  MemberCountExact'
  <2> DEFINE np == child[p]
  <2>1. np \in Slots /\ np \notin registered
    BY <1>3 DEF ForkJoin, ForkInv
  <2>2. key[p] \in Keys
    BY DEF TypeOK, Keys
  <2>3. CASE key[p] # NoKey /\ MayJoin(key[p])
    <3>1. ~Leaving(np)'
      BY <1>3, <2>1 DEF ForkJoin, ForkInv, StateInv, Leaving, TypeOK
    <3>2. /\ Members(key[p])' = Members(key[p]) \cup {np}
          /\ \A j \in Keys \ {key[p]} : Members(j)' = Members(j)
      BY <1>3, <2>1, <2>3, <3>1 DEF ForkJoin, Members, Leaving, TypeOK
    <3>3. np \notin Members(key[p])
      BY <2>1 DEF Members
    <3> QED
      BY <1>3, <2>1, <2>2, <2>3, <3>2, <3>3, OneMore DEF ForkJoin, MayJoin
  <2>4. CASE ~(key[p] # NoKey /\ MayJoin(key[p]))
    <3>1. \A k \in Keys : Members(k)' = Members(k)
      BY <1>3, <2>1, <2>4 DEF ForkJoin, Members, Leaving, TypeOK
    <3> QED
      BY <1>3, <2>4, <3>1, SameMembers DEF ForkJoin
  <2> QED
    BY <2>3, <2>4
<1>4. ASSUME NEW p \in Slots, ForkPublish(p)
      PROVE  MemberCountExact'
  <2>1. \A k \in Keys : Members(k)' = Members(k)
    BY SMTT(30), <1>4 DEF ForkPublish, StateInv, ForkInv, Members, Leaving, TypeOK
  <2> QED
    BY <1>4, <2>1, SameMembers DEF ForkPublish
<1>5. ASSUME NEW p \in Slots, NEW t \in {"PRIMARY", "WORKER"}, MarkBegin(p, t)
      PROVE  MemberCountExact'
  <2>1. \A k \in Keys : Members(k)' = Members(k)
    BY <1>5 DEF MarkBegin, InUser, StateInv, Members, Leaving, TypeOK
  <2> QED
    BY <1>5, <2>1, SameMembers DEF MarkBegin
<1>6. ASSUME NEW p \in Slots, MarkLeave(p)
      PROVE  MemberCountExact'
  <2>1. key[p] \in Keys /\ key[p] # NoKey /\ p \in registered
    BY <1>6 DEF MarkLeave, MarkInv, StateInv, TypeOK, Keys
  <2>2. /\ Members(key[p])' = Members(key[p]) \ {p}
        /\ \A j \in Keys \ {key[p]} : Members(j)' = Members(j)
    BY <1>6 DEF MarkLeave, Members, Leaving, TypeOK
  <2>3. p \in Members(key[p])
    BY <1>6, <2>1 DEF MarkLeave, Members, Leaving
  <2> QED
    BY <1>6, <2>1, <2>2, <2>3, OneLess DEF MarkLeave
<1>7. ASSUME NEW p \in Slots, MarkKey(p)
      PROVE  MemberCountExact'
  <2>1. \A k \in Keys : Members(k)' = Members(k)
    BY <1>7 DEF MarkKey, StateInv, MarkInv, NoKey, Members, Leaving, TypeOK
  <2> QED
    BY <1>7, <2>1, SameMembers DEF MarkKey
<1>8. ASSUME NEW p \in Slots, MarkCreate(p)
      PROVE  MemberCountExact'
  <2>1. key[p] \in Keys /\ key[p] # NoKey /\ p \notin registered
    BY <1>8 DEF MarkCreate, MarkInv, TypeOK, Keys
  <2>2. CASE MayCreate(key[p])
    <3>1. /\ Members(key[p])' = Members(key[p]) \cup {p}
          /\ \A j \in Keys \ {key[p]} : Members(j)' = Members(j)
      BY <1>8, <2>2 DEF MarkCreate, Members, Leaving, TypeOK
    <3>2. p \notin Members(key[p])
      BY <2>1 DEF Members
    <3>3. CASE Found(key[p])
      BY <1>8, <2>1, <2>2, <3>1, <3>2, <3>3, OneMore
         DEF MarkCreate, CreateLocked
    <3>4. CASE ~Found(key[p])
      BY <1>8, <2>1, <2>2, <3>1, <3>4, NewEntry DEF MarkCreate
    <3> QED
      BY <3>3, <3>4
  <2>3. CASE ~MayCreate(key[p])
    <3>1. \A k \in Keys : Members(k)' = Members(k)
      BY <1>8, <2>3 DEF MarkCreate, Members, Leaving, TypeOK
    <3> QED
      BY <1>8, <2>3, <3>1, SameMembers DEF MarkCreate
  <2> QED
    BY <2>2, <2>3
<1>9. ASSUME NEW p \in Slots, MarkJoin(p)
      PROVE  MemberCountExact'
  <2>1. key[p] \in Keys /\ key[p] # NoKey /\ p \notin registered
    BY <1>9 DEF MarkJoin, MarkInv, TypeOK, Keys
  <2>2. CASE MayJoin(key[p])
    <3>1. /\ Members(key[p])' = Members(key[p]) \cup {p}
          /\ \A j \in Keys \ {key[p]} : Members(j)' = Members(j)
      BY <1>9, <2>2 DEF MarkJoin, Members, Leaving, TypeOK
    <3>2. p \notin Members(key[p])
      BY <2>1 DEF Members
    <3> QED
      BY <1>9, <2>1, <2>2, <3>1, <3>2, OneMore DEF MarkJoin, MayJoin
  <2>3. CASE ~MayJoin(key[p])
    <3>1. \A k \in Keys : Members(k)' = Members(k)
      BY <1>9, <2>3 DEF MarkJoin, Members, Leaving, TypeOK
    <3> QED
      BY <1>9, <2>3, <3>1, SameMembers DEF MarkJoin
  <2> QED
    BY <2>2, <2>3
<1>10. ASSUME NEW p \in Slots, NEW r \in {"CTRL", "NOCTRL"}, RoleSet(p, r)
      PROVE  MemberCountExact'
  <2>1. \A k \in Keys : Members(k)' = Members(k)
    BY <1>10 DEF RoleSet, InUser, Members, Leaving, TypeOK
  <2> QED
    BY <1>10, <2>1, SameMembers DEF RoleSet
<1>11. ASSUME NEW p \in Slots, CapDrop(p)
      PROVE  MemberCountExact'
  <2>1. \A k \in Keys : Members(k)' = Members(k)
    BY <1>11 DEF CapDrop, InUser, Members, Leaving, TypeOK
  <2> QED
    BY <1>11, <2>1, SameMembers DEF CapDrop
<1>12. ASSUME NEW p \in Slots, CascadeBegin(p)
      PROVE  MemberCountExact'
  <2>1. \A k \in Keys : Members(k)' = Members(k)
    BY <1>12 DEF CascadeBegin, InUser, BeginTerminateLocked, Members, Leaving, TypeOK
  <2> QED
    BY <1>12, <2>1, SameMembers DEF CascadeBegin, BeginTerminateLocked
<1>13. ASSUME NEW p \in Slots, CascadeStep(p)
      PROVE  MemberCountExact'
  <2>1. \A k \in Keys : Members(k)' = Members(k)
    BY <1>13 DEF CascadeStep, Woken, InCascade, Members, Leaving, TypeOK
  <2> QED
    BY <1>13, <2>1, SameMembers DEF CascadeStep, Woken
<1>14. ASSUME NEW p \in Slots, ExitBegin(p)
      PROVE  MemberCountExact'
  <2>1. \A k \in Keys : Members(k)' = Members(k)
    BY <1>14 DEF ExitBegin, BeginTerminateLocked, Members, Leaving, TypeOK
  <2> QED
    BY <1>14, <2>1, SameMembers DEF ExitBegin, BeginTerminateLocked
<1>15. ASSUME NEW p \in Slots, ExitLeave(p)
      PROVE  MemberCountExact'
  <2>1. CASE p \in registered
    <3>1. key[p] \in Keys /\ key[p] # NoKey
      BY <2>1 DEF StateInv, TypeOK, Keys
    <3>2. /\ Members(key[p])' = Members(key[p]) \ {p}
          /\ \A j \in Keys \ {key[p]} : Members(j)' = Members(j)
      BY <1>15 DEF ExitLeave, Members, Leaving, TypeOK
    <3>3. p \in Members(key[p])
      BY <1>15, <2>1 DEF ExitLeave, Members, Leaving
    <3> QED
      BY <1>15, <2>1, <3>1, <3>2, <3>3, OneLess DEF ExitLeave
  <2>2. CASE p \notin registered
    <3>1. \A k \in Keys : Members(k)' = Members(k)
      BY <1>15, <2>2 DEF ExitLeave, Members, Leaving, TypeOK
    <3> QED
      BY <1>15, <2>2, <3>1, SameMembers DEF ExitLeave
  <2> QED
    BY <2>1, <2>2
<1>16. ASSUME NEW p \in Slots, ExitZombie(p)
      PROVE  MemberCountExact'
  <2>1. \A k \in Keys : Members(k)' = Members(k)
    BY <1>16 DEF ExitZombie, Members, Leaving, TypeOK
  <2> QED
    BY <1>16, <2>1, SameMembers DEF ExitZombie
<1>17. ASSUME NEW p \in Slots, Reap(p)
      PROVE  MemberCountExact'
  <2>1. \A k \in Keys : Members(k)' = Members(k)
    BY <1>17 DEF Reap, StateInv, Members, Leaving, TypeOK
  <2> QED
    BY <1>17, <2>1, SameMembers DEF Reap
<1>18. ASSUME NEW p \in Slots, Kill(p)
      PROVE  MemberCountExact'
  <2>1. \A k \in Keys : Members(k)' = Members(k)
    BY <1>18 DEF Kill, Woken, Members, Leaving, TypeOK
  <2> QED
    BY <1>18, <2>1, SameMembers DEF Kill, Woken
<1>19. ASSUME NEW p \in Slots, WaitSleep(p)
      PROVE  MemberCountExact'
  <2>1. \A k \in Keys : Members(k)' = Members(k)
    BY <1>19 DEF WaitSleep, InUser, Members, Leaving, TypeOK
  <2> QED
    BY <1>19, <2>1, SameMembers DEF WaitSleep
<1>20. ASSUME NEW p \in Slots, WaitWake(p)
      PROVE  MemberCountExact'
  <2>1. \A k \in Keys : Members(k)' = Members(k)
    BY <1>20 DEF WaitWake, Members, Leaving, TypeOK
  <2> QED
    BY <1>20, <2>1, SameMembers DEF WaitWake
<1>21. ASSUME NEW p \in Slots, WaitReturn(p)
      PROVE  MemberCountExact'
  <2>1. \A k \in Keys : Members(k)' = Members(k)
    BY <1>21 DEF WaitReturn, Members, Leaving, TypeOK
  <2> QED
    BY <1>21, <2>1, SameMembers DEF WaitReturn
<1>22. CASE UNCHANGED vars
  <2>1. \A k \in Keys : Members(k)' = Members(k)
    BY <1>22 DEF vars, Members, Leaving
  <2> QED
    BY <1>22, <2>1, SameMembers DEF vars
<1> QED
  BY <1>1, <1>2, <1>3, <1>4, <1>5, <1>6, <1>7, <1>8, <1>9, <1>10, <1>11, <1>12, <1>13, <1>14, <1>15, <1>16, <1>17, <1>18, <1>19, <1>20, <1>21, <1>22 DEF Next, Continue, Call

\* The member counts and the invariants they rest on hold at first.
LEMMA CountInit == Init => CountInv
<1>1. Init => TypeOK
  BY SizesAssumption DEF Init, TypeOK, PcValues, NoKey
<1>2. Init => StateInv /\ ForkInv /\ MarkInv
  BY DEF Init, StateInv, ForkInv, MarkInv, InCascade, NoKey
<1>3. Init => MemberCountExact
  BY DEF Init, MemberCountExact
<1> QED
  BY <1>1, <1>2, <1>3 DEF CountInv

\* Every step keeps them.
LEMMA CountNext == CountInv /\ [Next]_vars => CountInv'
BY TypeStep, StateStep, ForkStep, MarkStep, CountStep DEF CountInv

\* They hold in every reachable state.
LEMMA CountInductive == Spec => []CountInv
BY CountInit, CountNext, PTL DEF Spec

\* Type correctness of the workflow table and of the process fields.
THEOREM TypeCorrect == Spec => []TypeOK
BY CountInductive, PTL DEF CountInv

\* agent_workflow_create, join and leave keep member_count exact whatever the
\* order in which processes fork, create agents, cascade and exit.
THEOREM MemberCount == Spec => []MemberCountExact
BY CountInductive, PTL DEF CountInv
-----------------------------------------------------------------------------
(* Keys and owners.                                                        *)

\* Every step keeps pids and keys apart.
LEMMA KeyStep ==
    ASSUME CountInv, TypeOK', KeyInv, [Next]_vars
    PROVE  KeyInv'
<1> USE DEF TypeOK, CountInv, procVars, ctlVars, tabVars, idVars, KeyInv, StateInv, NoKey
<1>1. ASSUME NEW p \in Slots, NEW np \in Slots, ForkAlloc(p, np)
      PROVE  KeyInv'
  BY <1>1 DEF ForkAlloc, InUser
<1>2. ASSUME NEW p \in Slots, ForkAbort(p)
      PROVE  KeyInv'
  BY <1>2 DEF ForkAbort, ForkInv
<1>3. ASSUME NEW p \in Slots, ForkJoin(p)
      PROVE  KeyInv'
  BY <1>3 DEF ForkJoin, ForkInv, AddMember
<1>4. ASSUME NEW p \in Slots, ForkPublish(p)
      PROVE  KeyInv'
  BY <1>4 DEF ForkPublish, ForkInv
<1>5. ASSUME NEW p \in Slots, NEW t \in {"PRIMARY", "WORKER"}, MarkBegin(p, t)
      PROVE  KeyInv'
  BY <1>5 DEF MarkBegin, InUser
<1>6. ASSUME NEW p \in Slots, MarkLeave(p)
      PROVE  KeyInv'
  BY <1>6 DEF MarkLeave, LeaveLocked
<1>7. ASSUME NEW p \in Slots, MarkKey(p)
      PROVE  KeyInv'
  <2>1. ident[p] # 0 /\ pid[p] # 0
    BY <1>7 DEF MarkKey, MarkInv
  <2>2. CASE key' = key
    BY <1>7, <2>2 DEF MarkKey
  <2>3. CASE key' = [key EXCEPT ![p] = <<pid[p], ident[p]>>]
    <3> DEFINE k == <<pid[p], ident[p]>>
    <3>1. key'[p] = k /\ \A q \in Slots \ {p} : key'[q] = key[q]
      BY <2>3
    <3>2. k[1] = pid[p] /\ k[2] = ident[p]
      OBVIOUS
    <3>3. \A q \in Slots : key[q][1] = pid[p] => key[q] = k
      BY <2>1
    <3>4. \A w \in Entries : wkey[w][1] = pid[p] => wkey[w] = k
      BY <2>1
    <3>5. UNCHANGED <<pid, ident, type, wkey, nextpid>>
      BY <1>7 DEF MarkKey
    <3>6. \A q \in Slots : pid'[q] # 0 /\ key'[q][1] = pid'[q]
                             => key'[q] = <<pid'[q], ident'[q]>>
      <4>1. ASSUME NEW q \in Slots, pid'[q] # 0, key'[q][1] = pid'[q]
            PROVE  key'[q] = <<pid'[q], ident'[q]>>
        <5>1. CASE q = p
          BY <3>1, <3>5, <5>1
        <5>2. CASE q # p
          BY <3>1, <3>5, <4>1, <5>2
        <5> QED
          BY <5>1, <5>2
      <4> QED
        BY <4>1
    <3> HIDE DEF k
    <3>7. ASSUME NEW q \in Slots, NEW r \in Slots,
                 pid'[q] # 0, key'[r][1] = pid'[q]
          PROVE  key'[r] = key'[q]
      <4>1. CASE r = p
        BY <3>1, <3>2, <3>5, <3>7, <4>1
      <4>2. CASE r # p /\ q = p
        BY <3>1, <3>3, <3>5, <3>7, <4>2
      <4>3. CASE r # p /\ q # p
        BY <3>1, <3>5, <3>7, <4>3
      <4> QED
        BY <4>1, <4>2, <4>3
    <3>8. \A q \in Slots, w \in Entries :
             pid'[q] # 0 /\ wkey'[w][1] = pid'[q] => wkey'[w] = key'[q]
      BY <3>1, <3>4, <3>5
    <3>9. \A q \in Slots : key'[q][1] < nextpid'
      BY SMTT(30), <3>1, <3>2, <3>5
    <3>10. ASSUME NEW q \in Slots,
                  type'[q] # "NORMAL" \/ (pid'[q] # 0 /\ key'[q][1] = pid'[q])
           PROVE  ident'[q] # 0
      <4>1. CASE q = p
        BY <2>1, <3>5, <4>1
      <4>2. CASE q # p
        BY <3>1, <3>5, <3>10, <4>2
      <4> QED
        BY <4>1, <4>2
    <3> QED
      BY <3>5, <3>6, <3>7, <3>8, <3>9, <3>10
  <2> QED
    BY <1>7, <2>2, <2>3 DEF MarkKey
<1>8. ASSUME NEW p \in Slots, MarkCreate(p)
      PROVE  KeyInv'
  <2>1. CASE MayCreate(key[p]) /\ ~Found(key[p])
    <3>1. PICK e \in Entries : wkey' = [wkey EXCEPT ![e] = key[p]]
      BY <1>8, <2>1 DEF MarkCreate, CreateLocked
    <3>2. \A w \in Entries : wkey'[w] = wkey[w] \/ wkey'[w] = key[p]
      BY <3>1
    <3>3. UNCHANGED <<pid, key, type, ident, nextpid>>
      BY <1>8 DEF MarkCreate
    <3>4. ASSUME NEW w \in Entries
          PROVE  /\ wkey'[w][1] < nextpid
                 /\ \A q \in Slots :
                      pid[q] # 0 /\ wkey'[w][1] = pid[q] => wkey'[w] = key[q]
      <4> HIDE DEF TypeOK, CountInv, StateInv, KeyInv
      <4>1. /\ wkey[w][1] < nextpid /\ key[p][1] < nextpid
            /\ \A q \in Slots :
                 /\ pid[q] # 0 /\ wkey[w][1] = pid[q] => wkey[w] = key[q]
                 /\ pid[q] # 0 /\ key[p][1] = pid[q] => key[p] = key[q]
        BY DEF KeyInv
      <4> QED
        BY <3>2, <4>1
    <3> QED
      BY <3>3, <3>4
  <2>2. CASE ~(MayCreate(key[p]) /\ ~Found(key[p]))
    BY <1>8, <2>2 DEF MarkCreate, AddMember, CreateLocked
  <2> QED
    BY <2>1, <2>2
<1>9. ASSUME NEW p \in Slots, MarkJoin(p)
      PROVE  KeyInv'
  BY <1>9 DEF MarkJoin, AddMember
<1>10. ASSUME NEW p \in Slots, NEW r \in {"CTRL", "NOCTRL"}, RoleSet(p, r)
      PROVE  KeyInv'
  BY <1>10 DEF RoleSet, InUser
<1>11. ASSUME NEW p \in Slots, CapDrop(p)
      PROVE  KeyInv'
  BY <1>11 DEF CapDrop, InUser
<1>12. ASSUME NEW p \in Slots, CascadeBegin(p)
      PROVE  KeyInv'
  BY <1>12 DEF CascadeBegin, InUser, BeginTerminateLocked
<1>13. ASSUME NEW p \in Slots, CascadeStep(p)
      PROVE  KeyInv'
  BY <1>13 DEF CascadeStep, Woken
<1>14. ASSUME NEW p \in Slots, ExitBegin(p)
      PROVE  KeyInv'
  BY <1>14 DEF ExitBegin, BeginTerminateLocked
<1>15. ASSUME NEW p \in Slots, ExitLeave(p)
      PROVE  KeyInv'
  <2>1. \A w \in Entries : wkey'[w] = wkey[w] \/ wkey'[w] = NoKey
    BY <1>15 DEF ExitLeave, LeaveLocked
  <2> QED
    BY <1>15, <2>1 DEF ExitLeave
<1>16. ASSUME NEW p \in Slots, ExitZombie(p)
      PROVE  KeyInv'
  BY <1>16 DEF ExitZombie
<1>17. ASSUME NEW p \in Slots, Reap(p)
      PROVE  KeyInv'
  BY <1>17 DEF Reap
<1>18. ASSUME NEW p \in Slots, Kill(p)
      PROVE  KeyInv'
  BY <1>18 DEF Kill, Woken
<1>19. ASSUME NEW p \in Slots, WaitSleep(p)
      PROVE  KeyInv'
  BY <1>19 DEF WaitSleep, InUser
<1>20. ASSUME NEW p \in Slots, WaitWake(p)
      PROVE  KeyInv'
  BY <1>20 DEF WaitWake
<1>21. ASSUME NEW p \in Slots, WaitReturn(p)
      PROVE  KeyInv'
  BY <1>21 DEF WaitReturn
<1>22. CASE UNCHANGED vars
  BY <1>22 DEF vars
<1> HIDE DEF TypeOK, CountInv, procVars, ctlVars, tabVars, idVars, KeyInv, StateInv, NoKey
<1> QED
  BY <1>1, <1>2, <1>3, <1>4, <1>5, <1>6, <1>7, <1>8, <1>9, <1>10, <1>11, <1>12, <1>13, <1>14, <1>15, <1>16, <1>17, <1>18, <1>19, <1>20, <1>21, <1>22 DEF Next, Continue, Call

\* Every step keeps owners.
LEMMA OwnerStep ==
    ASSUME CountInv, KeyInv, OwnerInv, [Next]_vars
    PROVE  OwnerInv'
<1> USE DEF TypeOK, CountInv, procVars, ctlVars, tabVars, idVars, OwnerInv, StateInv, InCascade
<1>1. ASSUME NEW p \in Slots, NEW np \in Slots, ForkAlloc(p, np)
      PROVE  OwnerInv'
  BY <1>1 DEF ForkAlloc, InUser
<1>2. ASSUME NEW p \in Slots, ForkAbort(p)
      PROVE  OwnerInv'
  <2>1. /\ child[p] \in Slots \ {p} /\ child[p] \notin leaders
        /\ key[child[p]] = NoKey /\ pc[child[p]] = "none"
    BY <1>2 DEF ForkAbort, ForkInv
  <2> QED
    BY <1>2, <2>1 DEF ForkAbort
<1>3. ASSUME NEW p \in Slots, ForkJoin(p)
      PROVE  OwnerInv'
  BY <1>3 DEF ForkJoin, ForkInv, AddMember
<1>4. ASSUME NEW p \in Slots, ForkPublish(p)
      PROVE  OwnerInv'
  BY <1>4 DEF ForkPublish, ForkInv
<1>5. ASSUME NEW p \in Slots, NEW t \in {"PRIMARY", "WORKER"}, MarkBegin(p, t)
      PROVE  OwnerInv'
  BY <1>5 DEF MarkBegin, InUser
<1>6. ASSUME NEW p \in Slots, MarkLeave(p)
      PROVE  OwnerInv'
  BY <1>6 DEF MarkLeave, LeaveLocked
<1>7. ASSUME NEW p \in Slots, MarkKey(p)
      PROVE  OwnerInv'
  BY <1>7 DEF MarkKey, MarkInv
<1>8. ASSUME NEW p \in Slots, MarkCreate(p)
      PROVE  OwnerInv'
  BY <1>8 DEF MarkCreate, AddMember, CreateLocked, MarkInv
<1>9. ASSUME NEW p \in Slots, MarkJoin(p)
      PROVE  OwnerInv'
  BY <1>9 DEF MarkJoin, AddMember
<1>10. ASSUME NEW p \in Slots, NEW r \in {"CTRL", "NOCTRL"}, RoleSet(p, r)
      PROVE  OwnerInv'
  BY <1>10 DEF RoleSet, InUser
<1>11. ASSUME NEW p \in Slots, CapDrop(p)
      PROVE  OwnerInv'
  BY <1>11 DEF CapDrop, InUser
<1>12. ASSUME NEW p \in Slots, CascadeBegin(p)
      PROVE  OwnerInv'
  BY <1>12 DEF CascadeBegin, InUser, BeginTerminateLocked
<1>13. ASSUME NEW p \in Slots, CascadeStep(p)
      PROVE  OwnerInv'
  BY <1>13 DEF CascadeStep, Woken
<1>14. ASSUME NEW p \in Slots, ExitBegin(p)
      PROVE  OwnerInv'
  BY <1>14 DEF ExitBegin, BeginTerminateLocked
<1>15. ASSUME NEW p \in Slots, ExitLeave(p)
      PROVE  OwnerInv'
  BY <1>15 DEF ExitLeave, LeaveLocked
<1>16. ASSUME NEW p \in Slots, ExitZombie(p)
      PROVE  OwnerInv'
  BY <1>16 DEF ExitZombie
<1>17. ASSUME NEW p \in Slots, Reap(p)
      PROVE  OwnerInv'
  BY SMTT(30), <1>17 DEF Reap
<1>18. ASSUME NEW p \in Slots, Kill(p)
      PROVE  OwnerInv'
  BY <1>18 DEF Kill, Woken
<1>19. ASSUME NEW p \in Slots, WaitSleep(p)
      PROVE  OwnerInv'
  BY <1>19 DEF WaitSleep, InUser
<1>20. ASSUME NEW p \in Slots, WaitWake(p)
      PROVE  OwnerInv'
  BY <1>20 DEF WaitWake
<1>21. ASSUME NEW p \in Slots, WaitReturn(p)
      PROVE  OwnerInv'
  BY <1>21 DEF WaitReturn
<1>22. CASE UNCHANGED vars
  BY <1>22 DEF vars
<1> QED
  BY <1>1, <1>2, <1>3, <1>4, <1>5, <1>6, <1>7, <1>8, <1>9, <1>10, <1>11, <1>12, <1>13, <1>14, <1>15, <1>16, <1>17, <1>18, <1>19, <1>20, <1>21, <1>22 DEF Next, Continue, Call
\* Every step keeps unused entries without a state.
LEMMA EntryInvStep ==
    ASSUME CountInv, EntryInv, [Next]_vars
    PROVE  EntryInv'
<1> USE DEF TypeOK, CountInv, StateInv, procVars, ctlVars, tabVars, idVars, EntryInv
<1>1. ASSUME NEW p \in Slots, NEW np \in Slots, ForkAlloc(p, np)
      PROVE  EntryInv'
  BY <1>1 DEF ForkAlloc, InUser
<1>2. ASSUME NEW p \in Slots, ForkAbort(p)
      PROVE  EntryInv'
  BY <1>2 DEF ForkAbort
<1>3. ASSUME NEW p \in Slots, ForkJoin(p)
      PROVE  EntryInv'
  BY <1>3 DEF ForkJoin, AddMember
<1>4. ASSUME NEW p \in Slots, ForkPublish(p)
      PROVE  EntryInv'
  BY <1>4 DEF ForkPublish
<1>5. ASSUME NEW p \in Slots, NEW t \in {"PRIMARY", "WORKER"}, MarkBegin(p, t)
      PROVE  EntryInv'
  BY <1>5 DEF MarkBegin, InUser
<1>6. ASSUME NEW p \in Slots, MarkLeave(p)
      PROVE  EntryInv'
  BY <1>6 DEF MarkLeave, LeaveLocked
<1>7. ASSUME NEW p \in Slots, MarkKey(p)
      PROVE  EntryInv'
  BY <1>7 DEF MarkKey
<1>8. ASSUME NEW p \in Slots, MarkCreate(p)
      PROVE  EntryInv'
  BY <1>8 DEF MarkCreate, AddMember, CreateLocked, MarkInv
<1>9. ASSUME NEW p \in Slots, MarkJoin(p)
      PROVE  EntryInv'
  BY <1>9 DEF MarkJoin, AddMember
<1>10. ASSUME NEW p \in Slots, NEW r \in {"CTRL", "NOCTRL"}, RoleSet(p, r)
      PROVE  EntryInv'
  BY <1>10 DEF RoleSet, InUser
<1>11. ASSUME NEW p \in Slots, CapDrop(p)
      PROVE  EntryInv'
  BY <1>11 DEF CapDrop, InUser
<1>12. ASSUME NEW p \in Slots, CascadeBegin(p)
      PROVE  EntryInv'
  BY <1>12 DEF CascadeBegin, InUser, BeginTerminateLocked, InCascade
<1>13. ASSUME NEW p \in Slots, CascadeStep(p)
      PROVE  EntryInv'
  BY <1>13 DEF CascadeStep
<1>14. ASSUME NEW p \in Slots, ExitBegin(p)
      PROVE  EntryInv'
  BY <1>14 DEF ExitBegin, BeginTerminateLocked, InCascade
<1>15. ASSUME NEW p \in Slots, ExitLeave(p)
      PROVE  EntryInv'
  BY <1>15 DEF ExitLeave, LeaveLocked
<1>16. ASSUME NEW p \in Slots, ExitZombie(p)
      PROVE  EntryInv'
  BY <1>16 DEF ExitZombie
<1>17. ASSUME NEW p \in Slots, Reap(p)
      PROVE  EntryInv'
  BY <1>17 DEF Reap
<1>18. ASSUME NEW p \in Slots, Kill(p)
      PROVE  EntryInv'
  BY <1>18 DEF Kill
<1>19. ASSUME NEW p \in Slots, WaitSleep(p)
      PROVE  EntryInv'
  BY <1>19 DEF WaitSleep, InUser
<1>20. ASSUME NEW p \in Slots, WaitWake(p)
      PROVE  EntryInv'
  BY <1>20 DEF WaitWake
<1>21. ASSUME NEW p \in Slots, WaitReturn(p)
      PROVE  EntryInv'
  BY <1>21 DEF WaitReturn
<1>22. CASE UNCHANGED vars
  BY <1>22 DEF vars
<1> QED
  BY <1>1, <1>2, <1>3, <1>4, <1>5, <1>6, <1>7, <1>8, <1>9, <1>10, <1>11, <1>12, <1>13, <1>14, <1>15, <1>16, <1>17, <1>18, <1>19, <1>20, <1>21, <1>22 DEF Next, Continue, Call

-----------------------------------------------------------------------------
(* The cascade.                                                            *)

\* A workflow no process may enter: its entry, if any, is terminating, and a
\* process it is named after is already in it.
Closed(k) ==
    /\ k # NoKey
    /\ \A w \in Entries : wkey[w] = k => wstate[w] = "TERMINATING"
    /\ \A q \in Slots : pid[q] # 0 /\ k[1] = pid[q] => key[q] = k

\* No step adds a survivor to a closed workflow.
LEMMA SurvivorStep ==
    ASSUME CountInv, KeyInv, OwnerInv, NEW k \in Keys, Closed(k), [Next]_vars
    PROVE  Survivors(k)' \subseteq Survivors(k)
<1> USE DEF TypeOK, CountInv, Closed, Survivors, procVars, ctlVars, tabVars, idVars
<1>1. ASSUME NEW p \in Slots, NEW np \in Slots, ForkAlloc(p, np)
      PROVE  Survivors(k)' \subseteq Survivors(k)
  BY <1>1 DEF ForkAlloc, InUser, StateInv
<1>2. ASSUME NEW p \in Slots, ForkAbort(p)
      PROVE  Survivors(k)' \subseteq Survivors(k)
  BY <1>2 DEF ForkAbort, ForkInv
<1>3. ASSUME NEW p \in Slots, ForkJoin(p)
      PROVE  Survivors(k)' \subseteq Survivors(k)
  BY <1>3 DEF ForkJoin, ForkInv, MayJoin, Found
<1>4. ASSUME NEW p \in Slots, ForkPublish(p)
      PROVE  Survivors(k)' \subseteq Survivors(k)
  BY <1>4 DEF ForkPublish, ForkInv
<1>5. ASSUME NEW p \in Slots, NEW t \in {"PRIMARY", "WORKER"}, MarkBegin(p, t)
      PROVE  Survivors(k)' \subseteq Survivors(k)
  BY <1>5 DEF MarkBegin, InUser, OwnerInv
<1>6. ASSUME NEW p \in Slots, MarkLeave(p)
      PROVE  Survivors(k)' \subseteq Survivors(k)
  BY <1>6 DEF MarkLeave
<1>7. ASSUME NEW p \in Slots, MarkKey(p)
      PROVE  Survivors(k)' \subseteq Survivors(k)
  <2>1. pid[p] # 0 /\ type[p] # "NORMAL"
    BY <1>7 DEF MarkKey, MarkInv, StateInv
  <2>2. key' = key \/ key' = [key EXCEPT ![p] = <<pid[p], ident[p]>>]
    BY <1>7 DEF MarkKey
  <2>3. key'[p] = k => key[p] = k
    <3>1. <<pid[p], ident[p]>>[1] = pid[p]
      OBVIOUS
    <3> QED
      BY <2>1, <2>2, <3>1
  <2>4. \A q \in Slots : q # p => key'[q] = key[q]
    BY <2>2
  <2> QED
    BY <1>7, <2>3, <2>4 DEF MarkKey
<1>8. ASSUME NEW p \in Slots, MarkCreate(p)
      PROVE  Survivors(k)' \subseteq Survivors(k)
  BY <1>8 DEF MarkCreate
<1>9. ASSUME NEW p \in Slots, MarkJoin(p)
      PROVE  Survivors(k)' \subseteq Survivors(k)
  BY <1>9 DEF MarkJoin
<1>10. ASSUME NEW p \in Slots, NEW r \in {"CTRL", "NOCTRL"}, RoleSet(p, r)
      PROVE  Survivors(k)' \subseteq Survivors(k)
  BY <1>10 DEF RoleSet, InUser
<1>11. ASSUME NEW p \in Slots, CapDrop(p)
      PROVE  Survivors(k)' \subseteq Survivors(k)
  BY <1>11 DEF CapDrop, InUser
<1>12. ASSUME NEW p \in Slots, CascadeBegin(p)
      PROVE  Survivors(k)' \subseteq Survivors(k)
  BY <1>12 DEF CascadeBegin, InUser
<1>13. ASSUME NEW p \in Slots, CascadeStep(p)
      PROVE  Survivors(k)' \subseteq Survivors(k)
  BY <1>13 DEF CascadeStep, Woken
<1>14. ASSUME NEW p \in Slots, ExitBegin(p)
      PROVE  Survivors(k)' \subseteq Survivors(k)
  BY <1>14 DEF ExitBegin
<1>15. ASSUME NEW p \in Slots, ExitLeave(p)
      PROVE  Survivors(k)' \subseteq Survivors(k)
  BY <1>15 DEF ExitLeave
<1>16. ASSUME NEW p \in Slots, ExitZombie(p)
      PROVE  Survivors(k)' \subseteq Survivors(k)
  BY <1>16 DEF ExitZombie, StateInv
<1>17. ASSUME NEW p \in Slots, Reap(p)
      PROVE  Survivors(k)' \subseteq Survivors(k)
  BY <1>17 DEF Reap, StateInv
<1>18. ASSUME NEW p \in Slots, Kill(p)
      PROVE  Survivors(k)' \subseteq Survivors(k)
  BY <1>18 DEF Kill, Woken
<1>19. ASSUME NEW p \in Slots, WaitSleep(p)
      PROVE  Survivors(k)' \subseteq Survivors(k)
  BY <1>19 DEF WaitSleep, InUser
<1>20. ASSUME NEW p \in Slots, WaitWake(p)
      PROVE  Survivors(k)' \subseteq Survivors(k)
  BY <1>20 DEF WaitWake
<1>21. ASSUME NEW p \in Slots, WaitReturn(p)
      PROVE  Survivors(k)' \subseteq Survivors(k)
  BY <1>21 DEF WaitReturn
<1>22. CASE UNCHANGED vars
  BY <1>22 DEF vars
<1> QED
  BY <1>1, <1>2, <1>3, <1>4, <1>5, <1>6, <1>7, <1>8, <1>9, <1>10, <1>11, <1>12, <1>13, <1>14, <1>15, <1>16, <1>17, <1>18, <1>19, <1>20, <1>21, <1>22 DEF Next, Continue, Call

\* A process in the loop keeps its workflow until its last turn.
LEMMA LoopStays ==
    ASSUME CountInv, NEW c \in Slots, InCascade(c), [Next]_vars
    PROVE  \/ InCascade(c)' /\ key'[c] = key[c]
           \/ CascadeStep(c) /\ cursor[c] = NPROC
<1> DEFINE Stays == InCascade(c)' /\ key'[c] = key[c]
           Ends  == CascadeStep(c) /\ cursor[c] = NPROC
<1> USE DEF TypeOK, CountInv, InCascade, procVars, ctlVars, tabVars, idVars
<1>1. ASSUME NEW p \in Slots, NEW np \in Slots, ForkAlloc(p, np)
      PROVE  Stays \/ Ends
  BY <1>1 DEF ForkAlloc, InUser
<1>2. ASSUME NEW p \in Slots, ForkAbort(p)
      PROVE  Stays \/ Ends
  BY <1>2 DEF ForkAbort
<1>3. ASSUME NEW p \in Slots, ForkJoin(p)
      PROVE  Stays \/ Ends
  BY <1>3 DEF ForkJoin, ForkInv, StateInv
<1>4. ASSUME NEW p \in Slots, ForkPublish(p)
      PROVE  Stays \/ Ends
  BY SMTT(30), <1>4 DEF ForkPublish, ForkInv, StateInv
<1>5. ASSUME NEW p \in Slots, NEW t \in {"PRIMARY", "WORKER"}, MarkBegin(p, t)
      PROVE  Stays \/ Ends
  BY <1>5 DEF MarkBegin, InUser
<1>6. ASSUME NEW p \in Slots, MarkLeave(p)
      PROVE  Stays \/ Ends
  BY <1>6 DEF MarkLeave
<1>7. ASSUME NEW p \in Slots, MarkKey(p)
      PROVE  Stays \/ Ends
  BY <1>7 DEF MarkKey
<1>8. ASSUME NEW p \in Slots, MarkCreate(p)
      PROVE  Stays \/ Ends
  BY <1>8 DEF MarkCreate
<1>9. ASSUME NEW p \in Slots, MarkJoin(p)
      PROVE  Stays \/ Ends
  BY <1>9 DEF MarkJoin
<1>10. ASSUME NEW p \in Slots, NEW r \in {"CTRL", "NOCTRL"}, RoleSet(p, r)
      PROVE  Stays \/ Ends
  BY <1>10 DEF RoleSet, InUser
<1>11. ASSUME NEW p \in Slots, CapDrop(p)
      PROVE  Stays \/ Ends
  BY <1>11 DEF CapDrop, InUser
<1>12. ASSUME NEW p \in Slots, CascadeBegin(p)
      PROVE  Stays \/ Ends
  BY <1>12 DEF CascadeBegin, InUser
<1>13. ASSUME NEW p \in Slots, CascadeStep(p)
      PROVE  Stays \/ Ends
  <2>1. CASE p = c
    <3>1. cursor[c] \in Slots /\ NPROC \in Nat
      BY SizesAssumption DEF StateInv
    <3>2. cursor[c] < NPROC \/ cursor[c] = NPROC
      BY <3>1 DEF Slots
    <3>3. key' = key
      BY <1>13 DEF CascadeStep
    <3>4. CASE cursor[c] < NPROC
      BY <1>13, <2>1, <3>3, <3>4 DEF CascadeStep
    <3>5. CASE cursor[c] = NPROC
      BY <1>13, <2>1, <3>5
    <3> QED
      BY <3>2, <3>4, <3>5
  <2>2. CASE p # c
    BY <1>13, <2>2 DEF CascadeStep
  <2> QED
    BY <2>1, <2>2
<1>14. ASSUME NEW p \in Slots, ExitBegin(p)
      PROVE  Stays \/ Ends
  BY <1>14 DEF ExitBegin
<1>15. ASSUME NEW p \in Slots, ExitLeave(p)
      PROVE  Stays \/ Ends
  BY <1>15 DEF ExitLeave
<1>16. ASSUME NEW p \in Slots, ExitZombie(p)
      PROVE  Stays \/ Ends
  BY <1>16 DEF ExitZombie
<1>17. ASSUME NEW p \in Slots, Reap(p)
      PROVE  Stays \/ Ends
  BY <1>17 DEF Reap, StateInv
<1>18. ASSUME NEW p \in Slots, Kill(p)
      PROVE  Stays \/ Ends
  BY <1>18 DEF Kill
<1>19. ASSUME NEW p \in Slots, WaitSleep(p)
      PROVE  Stays \/ Ends
  BY <1>19 DEF WaitSleep, InUser
<1>20. ASSUME NEW p \in Slots, WaitWake(p)
      PROVE  Stays \/ Ends
  BY <1>20 DEF WaitWake
<1>21. ASSUME NEW p \in Slots, WaitReturn(p)
      PROVE  Stays \/ Ends
  BY <1>21 DEF WaitReturn
<1>22. CASE UNCHANGED vars
  BY <1>22 DEF vars
<1> QED
  BY <1>1, <1>2, <1>3, <1>4, <1>5, <1>6, <1>7, <1>8, <1>9, <1>10, <1>11, <1>12, <1>13, <1>14, <1>15, <1>16, <1>17, <1>18, <1>19, <1>20, <1>21, <1>22 DEF Next, Continue, Call

\* A process in the loop was there before or has just begun.
LEMMA LoopBefore ==
    ASSUME CountInv, NEW c \in Slots, InCascade(c)', [Next]_vars
    PROVE  \/ /\ InCascade(c) /\ key'[c] = key[c]
              /\ \/ cursor'[c] = cursor[c]
                 \/ CascadeStep(c) /\ cursor'[c] = cursor[c] + 1
           \/ /\ BeginTerminateLocked(key[c])
              /\ key'[c] = key[c] /\ cursor'[c] = 1
<1> DEFINE Kept == /\ InCascade(c) /\ key'[c] = key[c]
                   /\ \/ cursor'[c] = cursor[c]
                      \/ CascadeStep(c) /\ cursor'[c] = cursor[c] + 1
           Begun == /\ BeginTerminateLocked(key[c])
                    /\ key'[c] = key[c] /\ cursor'[c] = 1
<1> USE DEF TypeOK, CountInv, InCascade, procVars, ctlVars, tabVars, idVars
<1>1. ASSUME NEW p \in Slots, NEW np \in Slots, ForkAlloc(p, np)
      PROVE  Kept \/ Begun
  BY <1>1 DEF ForkAlloc, InUser
<1>2. ASSUME NEW p \in Slots, ForkAbort(p)
      PROVE  Kept \/ Begun
  BY <1>2 DEF ForkAbort
<1>3. ASSUME NEW p \in Slots, ForkJoin(p)
      PROVE  Kept \/ Begun
  BY <1>3 DEF ForkJoin, ForkInv, StateInv
<1>4. ASSUME NEW p \in Slots, ForkPublish(p)
      PROVE  Kept \/ Begun
  BY <1>4 DEF ForkPublish, ForkInv, StateInv
<1>5. ASSUME NEW p \in Slots, NEW t \in {"PRIMARY", "WORKER"}, MarkBegin(p, t)
      PROVE  Kept \/ Begun
  BY <1>5 DEF MarkBegin, InUser
<1>6. ASSUME NEW p \in Slots, MarkLeave(p)
      PROVE  Kept \/ Begun
  BY <1>6 DEF MarkLeave
<1>7. ASSUME NEW p \in Slots, MarkKey(p)
      PROVE  Kept \/ Begun
  BY <1>7 DEF MarkKey
<1>8. ASSUME NEW p \in Slots, MarkCreate(p)
      PROVE  Kept \/ Begun
  BY <1>8 DEF MarkCreate
<1>9. ASSUME NEW p \in Slots, MarkJoin(p)
      PROVE  Kept \/ Begun
  BY <1>9 DEF MarkJoin
<1>10. ASSUME NEW p \in Slots, NEW r \in {"CTRL", "NOCTRL"}, RoleSet(p, r)
      PROVE  Kept \/ Begun
  BY <1>10 DEF RoleSet, InUser
<1>11. ASSUME NEW p \in Slots, CapDrop(p)
      PROVE  Kept \/ Begun
  BY <1>11 DEF CapDrop, InUser
<1>12. ASSUME NEW p \in Slots, CascadeBegin(p)
      PROVE  Kept \/ Begun
  BY <1>12 DEF CascadeBegin, InUser
<1>13. ASSUME NEW p \in Slots, CascadeStep(p)
      PROVE  Kept \/ Begun
  <2>1. CASE p = c
    <3>1. CASE cursor[c] < NPROC
      <4>1. cursor'[c] = cursor[c] + 1 /\ key' = key /\ InCascade(c)
        BY <1>13, <2>1, <3>1 DEF CascadeStep
      <4> QED
        BY <1>13, <2>1, <4>1
    <3>2. CASE ~(cursor[c] < NPROC)
      BY <1>13, <2>1, <3>2 DEF CascadeStep
    <3> QED
      BY <3>1, <3>2
  <2>2. CASE p # c
    BY <1>13, <2>2 DEF CascadeStep
  <2> QED
    BY <2>1, <2>2
<1>14. ASSUME NEW p \in Slots, ExitBegin(p)
      PROVE  Kept \/ Begun
  BY <1>14 DEF ExitBegin
<1>15. ASSUME NEW p \in Slots, ExitLeave(p)
      PROVE  Kept \/ Begun
  BY <1>15 DEF ExitLeave
<1>16. ASSUME NEW p \in Slots, ExitZombie(p)
      PROVE  Kept \/ Begun
  BY <1>16 DEF ExitZombie
<1>17. ASSUME NEW p \in Slots, Reap(p)
      PROVE  Kept \/ Begun
  BY <1>17 DEF Reap, StateInv
<1>18. ASSUME NEW p \in Slots, Kill(p)
      PROVE  Kept \/ Begun
  BY <1>18 DEF Kill
<1>19. ASSUME NEW p \in Slots, WaitSleep(p)
      PROVE  Kept \/ Begun
  BY <1>19 DEF WaitSleep, InUser
<1>20. ASSUME NEW p \in Slots, WaitWake(p)
      PROVE  Kept \/ Begun
  BY <1>20 DEF WaitWake
<1>21. ASSUME NEW p \in Slots, WaitReturn(p)
      PROVE  Kept \/ Begun
  BY <1>21 DEF WaitReturn
<1>22. CASE UNCHANGED vars
  BY <1>22 DEF vars
<1> QED
  BY <1>1, <1>2, <1>3, <1>4, <1>5, <1>6, <1>7, <1>8, <1>9, <1>10, <1>11, <1>12, <1>13, <1>14, <1>15, <1>16, <1>17, <1>18, <1>19, <1>20, <1>21, <1>22 DEF Next, Continue, Call

\* What a step does to an entry that is in use after it.
LEMMA EntryStep ==
    ASSUME CountInv, NEW w \in Entries, wkey'[w] # NoKey, [Next]_vars
    PROVE  \/ wkey[w] = wkey'[w] /\ wstate'[w] = wstate[w]
           \/ /\ wkey[w] = wkey'[w] /\ wstate'[w] = "TERMINATING"
              /\ \E c \in Slots : InCascade(c)' /\ key'[c] = wkey[w]
           \/ \E q \in Slots : /\ pc[q] = "mark_create"
                               /\ key[q] = wkey'[w] /\ ~Found(key[q])
                               /\ wstate'[w] = "ACTIVE"
<1> DEFINE Same == wkey[w] = wkey'[w] /\ wstate'[w] = wstate[w]
           Begun == /\ wkey[w] = wkey'[w] /\ wstate'[w] = "TERMINATING"
                    /\ \E c \in Slots : InCascade(c)' /\ key'[c] = wkey[w]
           New == \E q \in Slots : /\ pc[q] = "mark_create"
                                   /\ key[q] = wkey'[w] /\ ~Found(key[q])
                                   /\ wstate'[w] = "ACTIVE"
<1> USE DEF TypeOK, CountInv, InCascade, procVars, ctlVars, tabVars, idVars
<1>1. ASSUME NEW p \in Slots, NEW np \in Slots, ForkAlloc(p, np)
      PROVE  Same \/ Begun \/ New
  BY <1>1 DEF ForkAlloc, InUser
<1>2. ASSUME NEW p \in Slots, ForkAbort(p)
      PROVE  Same \/ Begun \/ New
  BY <1>2 DEF ForkAbort
<1>3. ASSUME NEW p \in Slots, ForkJoin(p)
      PROVE  Same \/ Begun \/ New
  BY <1>3 DEF ForkJoin, AddMember
<1>4. ASSUME NEW p \in Slots, ForkPublish(p)
      PROVE  Same \/ Begun \/ New
  BY <1>4 DEF ForkPublish
<1>5. ASSUME NEW p \in Slots, NEW t \in {"PRIMARY", "WORKER"}, MarkBegin(p, t)
      PROVE  Same \/ Begun \/ New
  BY <1>5 DEF MarkBegin, InUser
<1>6. ASSUME NEW p \in Slots, MarkLeave(p)
      PROVE  Same \/ Begun \/ New
  BY <1>6 DEF MarkLeave, LeaveLocked
<1>7. ASSUME NEW p \in Slots, MarkKey(p)
      PROVE  Same \/ Begun \/ New
  BY <1>7 DEF MarkKey
<1>8. ASSUME NEW p \in Slots, MarkCreate(p)
      PROVE  Same \/ Begun \/ New
  <2>1. CASE UNCHANGED tabVars
    BY <2>1 DEF tabVars
  <2>2. CASE Found(key[p]) /\ AddMember(key[p])
    BY <2>2 DEF AddMember
  <2>3. CASE /\ ~Found(key[p])
             /\ \E v \in Entries : /\ wkey' = [wkey EXCEPT ![v] = key[p]]
                                   /\ wstate' = [wstate EXCEPT ![v] = "ACTIVE"]
    <3>1. PICK v \in Entries : /\ wkey' = [wkey EXCEPT ![v] = key[p]]
                               /\ wstate' = [wstate EXCEPT ![v] = "ACTIVE"]
      BY <2>3
    <3>2. CASE w # v
      BY <3>1, <3>2
    <3>3. CASE w = v
      <4>1. wkey'[w] = key[p] /\ wstate'[w] = "ACTIVE"
        BY <3>1, <3>3
      <4>2. pc[p] = "mark_create"
        BY <1>8 DEF MarkCreate
      <4> QED
        BY <2>3, <4>1, <4>2
    <3> QED
      BY <3>2, <3>3
  <2> QED
    BY <1>8, <2>1, <2>2, <2>3 DEF MarkCreate, CreateLocked
<1>9. ASSUME NEW p \in Slots, MarkJoin(p)
      PROVE  Same \/ Begun \/ New
  BY <1>9 DEF MarkJoin, AddMember
<1>10. ASSUME NEW p \in Slots, NEW r \in {"CTRL", "NOCTRL"}, RoleSet(p, r)
      PROVE  Same \/ Begun \/ New
  BY <1>10 DEF RoleSet, InUser
<1>11. ASSUME NEW p \in Slots, CapDrop(p)
      PROVE  Same \/ Begun \/ New
  BY <1>11 DEF CapDrop, InUser
<1>12. ASSUME NEW p \in Slots, CascadeBegin(p)
      PROVE  Same \/ Begun \/ New
  BY <1>12 DEF CascadeBegin, InUser, BeginTerminateLocked
<1>13. ASSUME NEW p \in Slots, CascadeStep(p)
      PROVE  Same \/ Begun \/ New
  BY <1>13 DEF CascadeStep
<1>14. ASSUME NEW p \in Slots, ExitBegin(p)
      PROVE  Same \/ Begun \/ New
  BY <1>14 DEF ExitBegin, BeginTerminateLocked
<1>15. ASSUME NEW p \in Slots, ExitLeave(p)
      PROVE  Same \/ Begun \/ New
  BY <1>15 DEF ExitLeave, LeaveLocked
<1>16. ASSUME NEW p \in Slots, ExitZombie(p)
      PROVE  Same \/ Begun \/ New
  BY <1>16 DEF ExitZombie
<1>17. ASSUME NEW p \in Slots, Reap(p)
      PROVE  Same \/ Begun \/ New
  BY <1>17 DEF Reap
<1>18. ASSUME NEW p \in Slots, Kill(p)
      PROVE  Same \/ Begun \/ New
  BY <1>18 DEF Kill
<1>19. ASSUME NEW p \in Slots, WaitSleep(p)
      PROVE  Same \/ Begun \/ New
  BY <1>19 DEF WaitSleep, InUser
<1>20. ASSUME NEW p \in Slots, WaitWake(p)
      PROVE  Same \/ Begun \/ New
  BY <1>20 DEF WaitWake
<1>21. ASSUME NEW p \in Slots, WaitReturn(p)
      PROVE  Same \/ Begun \/ New
  BY <1>21 DEF WaitReturn
<1>22. CASE UNCHANGED vars
  BY <1>22 DEF vars
<1> QED
  BY <1>1, <1>2, <1>3, <1>4, <1>5, <1>6, <1>7, <1>8, <1>9, <1>10, <1>11, <1>12, <1>13, <1>14, <1>15, <1>16, <1>17, <1>18, <1>19, <1>20, <1>21, <1>22 DEF Next, Continue, Call
\* One turn of the loop leaves no survivor in the slot it looked at.
LEMMA TurnKills ==
    ASSUME CountInv, NEW c \in Slots, CascadeStep(c),
           NEW q \in Survivors(key[c])', q # c
    PROVE  q # cursor[c]
<1>1. CASE q = cursor[c]
  BY <1>1 DEF CascadeStep, Survivors, Woken, CountInv, TypeOK, StateInv
<1> QED
  BY <1>1

\* The workflow of a process in the loop is closed.
LEMMA LoopClosed ==
    ASSUME CascadeInv, NEW c \in Slots, InCascade(c)
    PROVE  key[c] \in Keys /\ Closed(key[c])
BY DEF CascadeInv, CountInv, TypeOK, StateInv, LoopInv, KeyInv, Closed, Keys

\* While a process runs the loop, nobody can create its workflow anew: a
\* member keeps the entry alive and otherwise the process itself is the owner.
LEMMA NoRevival ==
    ASSUME CascadeInv, NEW c \in Slots, InCascade(c),
           NEW q \in Slots, pc[q] = "mark_create", key[q] = key[c]
    PROVE  Found(key[q])
<1> USE DEF CascadeInv, CountInv
<1>1. key[q][1] = pid[q] /\ pid[q] # 0
  BY DEF OwnerInv, StateInv
<1>2. q # c
  BY DEF InCascade
<1>3. key[c][1] # pid[c]
  BY <1>1, <1>2 DEF KeyInv
<1>4. c \in registered
  BY <1>3 DEF OwnerInv
<1>5. ~Leaving(c)
  BY DEF InCascade, Leaving
<1> QED
  BY <1>4, <1>5 DEF MemberCountExact

\* Every step keeps what the loop has done.
LEMMA LoopStep ==
    ASSUME CascadeInv, CountInv', [Next]_vars
    PROVE  LoopInv'
<1> SUFFICES ASSUME NEW c \in Slots, InCascade(c)'
             PROVE  /\ \A w \in Entries : wkey'[w] = key'[c]
                                          => wstate'[w] = "TERMINATING"
                    /\ \A q \in Survivors(key[c])' : q < cursor'[c] => q = c
  BY DEF LoopInv
<1>1. CountInv
  BY DEF CascadeInv
<1>2. CASE BeginTerminateLocked(key[c]) /\ key'[c] = key[c] /\ cursor'[c] = 1
  <2>1. \A q \in Survivors(key[c])' : q \in Slots /\ ~(q < 1)
    BY DEF Survivors, Slots
  <2> QED
    BY <1>2, <2>1 DEF BeginTerminateLocked
<1>3. CASE /\ InCascade(c) /\ key'[c] = key[c]
           /\ \/ cursor'[c] = cursor[c]
              \/ CascadeStep(c) /\ cursor'[c] = cursor[c] + 1
  <2>1. PICK k \in Keys : k = key[c] /\ k = key'[c] /\ Closed(k)
    BY <1>3, LoopClosed
  <2>2. ASSUME NEW w \in Entries, wkey'[w] = k
        PROVE  wstate'[w] = "TERMINATING"
    <3>1. k # NoKey
      BY <2>1 DEF Closed
    <3>2. CASE wkey[w] = wkey'[w] /\ wstate'[w] = wstate[w]
      BY <2>1, <2>2, <3>2 DEF Closed
    <3>3. CASE \E q \in Slots : pc[q] = "mark_create" /\ key[q] = wkey'[w]
                                /\ ~Found(key[q])
      BY <1>3, <2>1, <2>2, <3>3, NoRevival
    <3> QED
      BY <1>1, <2>2, <3>1, <3>2, <3>3, EntryStep
  <2>3. ASSUME NEW q \in Survivors(k)', q < cursor'[c]
        PROVE  q = c
    <3>1. q \in Survivors(k)
      BY <1>1, <2>1, SurvivorStep DEF CascadeInv
    <3>2. q < cursor[c] => q = c
      BY <1>3, <2>1, <3>1 DEF CascadeInv, LoopInv
    <3>3. CASE CascadeStep(c) /\ cursor'[c] = cursor[c] + 1
      <4>1. q \in Slots /\ cursor[c] \in Slots
        BY <1>1, <1>3, <3>1 DEF Survivors, CountInv, StateInv
      <4>2. q # c => q # cursor[c]
        <5>1. q \in Survivors(key[c])'
          BY <2>1, <2>3 DEF Survivors
        <5> QED
          BY <1>1, <3>3, <5>1, TurnKills
      <4>3. q < cursor[c] \/ q = cursor[c]
        BY <2>3, <3>3, <4>1 DEF Slots
      <4> QED
        BY <3>2, <4>2, <4>3
    <3> QED
      BY <1>3, <2>3, <3>2, <3>3
  <2>4. Survivors(key[c])' = Survivors(k)'
    BY <2>1 DEF Survivors
  <2> QED
    BY <2>1, <2>2, <2>3, <2>4
<1> QED
  BY <1>1, <1>2, <1>3, LoopBefore

\* Every step keeps cascades complete.
LEMMA CompleteStep ==
    ASSUME CascadeInv, CountInv', EntryInv', [Next]_vars
    PROVE  CascadeComplete'
<1> SUFFICES ASSUME NEW w \in Entries, wstate'[w] = "TERMINATING",
                    \A p \in Slots : InCascade(p)' => key'[p] # wkey'[w],
                    NEW p \in Survivors(wkey[w])', NEW q \in Survivors(wkey[w])'
             PROVE  p = q
  BY DEF CascadeComplete
<1>1. CountInv
  BY DEF CascadeInv
<1>2. wkey'[w] # NoKey
  BY DEF EntryInv
<1>3. wkey[w] = wkey'[w] /\ wstate[w] = "TERMINATING"
  BY <1>1, <1>2, EntryStep
<1>4. PICK k \in Keys : k = wkey[w] /\ k = wkey'[w] /\ k # NoKey
  BY <1>1, <1>2, <1>3 DEF CountInv, TypeOK, Keys
<1>5. Closed(k)
  BY <1>3, <1>4
     DEF Closed, CascadeInv, CountInv, MemberCountExact, KeyInv
<1>6. Survivors(wkey[w])' = Survivors(k)'
  BY <1>4 DEF Survivors
<1>7. Survivors(k)' \subseteq Survivors(k)
  BY <1>1, <1>5, SurvivorStep DEF CascadeInv
<1>8. CASE \A c \in Slots : InCascade(c) => key[c] # k
  BY <1>3, <1>4, <1>6, <1>7, <1>8 DEF CascadeInv, CascadeComplete
<1>9. CASE \E c \in Slots : InCascade(c) /\ key[c] = k
  <2>1. PICK c \in Slots : InCascade(c) /\ key[c] = k
    BY <1>9
  <2>2. CascadeStep(c) /\ cursor[c] = NPROC
    BY <1>1, <1>4, <2>1, LoopStays
  <2>3. ASSUME NEW r \in Survivors(k)'
        PROVE  r = c
    <3>1. r \in Survivors(k) /\ r \in Slots
      BY <1>7 DEF Survivors
    <3>2. r < NPROC => r = c
      BY <2>1, <2>2, <3>1 DEF CascadeInv, LoopInv
    <3>3. r = NPROC => r = c
      <4>1. key'[c] = key[c]
        BY <2>2 DEF CascadeStep
      <4>2. r \in Survivors(key[c])'
        BY <2>1, <4>1 DEF Survivors
      <4> QED
        BY <1>1, <2>2, <4>2, TurnKills
    <3>4. NPROC \in Nat
      BY SizesAssumption
    <3>5. r < NPROC \/ r = NPROC
      BY <3>1, <3>4 DEF Slots
    <3> QED
      BY <3>2, <3>3, <3>5
  <2> QED
    BY <1>6, <2>3
<1> QED
  BY <1>8, <1>9

\* agent_cascade_terminate is complete: when no cascade over a terminating
\* workflow is in progress, at most one of its agents is not killed, however
\* its members forked, created agents or exited while the loop was running.
THEOREM Cascade == Spec => []CascadeComplete
<1>1. Init => CascadeInv
  <2>1. Init => CountInv
    BY CountInit
  <2>2. Init => KeyInv /\ OwnerInv /\ EntryInv /\ LoopInv /\ CascadeComplete
    BY DEF Init, KeyInv, OwnerInv, EntryInv, LoopInv, CascadeComplete,
           InCascade, NoKey
  <2> QED
    BY <2>1, <2>2 DEF CascadeInv
<1>2. CascadeInv /\ [Next]_vars => CascadeInv'
  <2> SUFFICES ASSUME CascadeInv, [Next]_vars PROVE CascadeInv'
    OBVIOUS
  <2>1. CountInv'
    BY CountNext DEF CascadeInv
  <2>2. KeyInv' /\ OwnerInv' /\ EntryInv'
    BY <2>1, KeyStep, OwnerStep, EntryInvStep DEF CascadeInv, CountInv
  <2>3. LoopInv' /\ CascadeComplete'
    BY <2>1, <2>2, LoopStep, CompleteStep
  <2> QED
    BY <2>1, <2>2, <2>3 DEF CascadeInv
<1>3. CascadeInv => CascadeComplete
  BY DEF CascadeInv
<1> QED
  BY <1>1, <1>2, <1>3, PTL DEF Spec

\* No step adds a member to a terminating workflow.
LEMMA ClosedStep ==
    ASSUME TypeOK, EntryInv, NEW w \in Entries,
           wstate[w] = "TERMINATING", wkey'[w] = wkey[w], wstate'[w] # "NONE", [Next]_vars
    PROVE  wstate'[w] = "TERMINATING" /\ wcount'[w] <= wcount[w]
<1> DEFINE Kept == wstate'[w] = "TERMINATING" /\ wcount'[w] <= wcount[w]
<1> USE DEF TypeOK, procVars, ctlVars, tabVars, idVars
<1>1. ASSUME NEW p \in Slots, NEW np \in Slots, ForkAlloc(p, np)
      PROVE  wstate'[w] = "TERMINATING" /\ wcount'[w] <= wcount[w]
  BY <1>1 DEF ForkAlloc, InUser
<1>2. ASSUME NEW p \in Slots, ForkAbort(p)
      PROVE  wstate'[w] = "TERMINATING" /\ wcount'[w] <= wcount[w]
  BY <1>2 DEF ForkAbort
<1>3. ASSUME NEW p \in Slots, ForkJoin(p)
      PROVE  wstate'[w] = "TERMINATING" /\ wcount'[w] <= wcount[w]
  BY <1>3 DEF ForkJoin, AddMember, MayJoin
<1>4. ASSUME NEW p \in Slots, ForkPublish(p)
      PROVE  wstate'[w] = "TERMINATING" /\ wcount'[w] <= wcount[w]
  BY <1>4 DEF ForkPublish
<1>5. ASSUME NEW p \in Slots, NEW t \in {"PRIMARY", "WORKER"}, MarkBegin(p, t)
      PROVE  wstate'[w] = "TERMINATING" /\ wcount'[w] <= wcount[w]
  BY <1>5 DEF MarkBegin, InUser
<1>6. ASSUME NEW p \in Slots, MarkLeave(p)
      PROVE  wstate'[w] = "TERMINATING" /\ wcount'[w] <= wcount[w]
  BY <1>6 DEF MarkLeave, LeaveLocked
<1>7. ASSUME NEW p \in Slots, MarkKey(p)
      PROVE  wstate'[w] = "TERMINATING" /\ wcount'[w] <= wcount[w]
  BY <1>7 DEF MarkKey
<1>8. ASSUME NEW p \in Slots, MarkCreate(p)
      PROVE  wstate'[w] = "TERMINATING" /\ wcount'[w] <= wcount[w]
  BY <1>8 DEF MarkCreate, AddMember, CreateLocked, MayCreate, Terminating, Found, EntryInv
<1>9. ASSUME NEW p \in Slots, MarkJoin(p)
      PROVE  wstate'[w] = "TERMINATING" /\ wcount'[w] <= wcount[w]
  BY <1>9 DEF MarkJoin, AddMember, MayJoin
<1>10. ASSUME NEW p \in Slots, NEW r \in {"CTRL", "NOCTRL"}, RoleSet(p, r)
      PROVE  wstate'[w] = "TERMINATING" /\ wcount'[w] <= wcount[w]
  BY <1>10 DEF RoleSet, InUser
<1>11. ASSUME NEW p \in Slots, CapDrop(p)
      PROVE  wstate'[w] = "TERMINATING" /\ wcount'[w] <= wcount[w]
  BY <1>11 DEF CapDrop, InUser
<1>12. ASSUME NEW p \in Slots, CascadeBegin(p)
      PROVE  wstate'[w] = "TERMINATING" /\ wcount'[w] <= wcount[w]
  BY <1>12 DEF CascadeBegin, InUser, BeginTerminateLocked
<1>13. ASSUME NEW p \in Slots, CascadeStep(p)
      PROVE  wstate'[w] = "TERMINATING" /\ wcount'[w] <= wcount[w]
  BY <1>13 DEF CascadeStep
<1>14. ASSUME NEW p \in Slots, ExitBegin(p)
      PROVE  wstate'[w] = "TERMINATING" /\ wcount'[w] <= wcount[w]
  BY <1>14 DEF ExitBegin, BeginTerminateLocked
<1>15. ASSUME NEW p \in Slots, ExitLeave(p)
      PROVE  wstate'[w] = "TERMINATING" /\ wcount'[w] <= wcount[w]
  BY <1>15 DEF ExitLeave, LeaveLocked
<1>16. ASSUME NEW p \in Slots, ExitZombie(p)
      PROVE  wstate'[w] = "TERMINATING" /\ wcount'[w] <= wcount[w]
  BY <1>16 DEF ExitZombie
<1>17. ASSUME NEW p \in Slots, Reap(p)
      PROVE  wstate'[w] = "TERMINATING" /\ wcount'[w] <= wcount[w]
  BY <1>17 DEF Reap
<1>18. ASSUME NEW p \in Slots, Kill(p)
      PROVE  wstate'[w] = "TERMINATING" /\ wcount'[w] <= wcount[w]
  BY <1>18 DEF Kill
<1>19. ASSUME NEW p \in Slots, WaitSleep(p)
      PROVE  wstate'[w] = "TERMINATING" /\ wcount'[w] <= wcount[w]
  BY <1>19 DEF WaitSleep, InUser
<1>20. ASSUME NEW p \in Slots, WaitWake(p)
      PROVE  wstate'[w] = "TERMINATING" /\ wcount'[w] <= wcount[w]
  BY <1>20 DEF WaitWake
<1>21. ASSUME NEW p \in Slots, WaitReturn(p)
      PROVE  wstate'[w] = "TERMINATING" /\ wcount'[w] <= wcount[w]
  BY <1>21 DEF WaitReturn
<1>22. CASE UNCHANGED vars
  BY <1>22 DEF vars
<1> QED
  BY <1>1, <1>2, <1>3, <1>4, <1>5, <1>6, <1>7, <1>8, <1>9, <1>10, <1>11, <1>12, <1>13, <1>14, <1>15, <1>16, <1>17, <1>18, <1>19, <1>20, <1>21, <1>22 DEF Next, Continue, Call

\* Once a cascade has begun, neither fork nor agent_create adds a member to the
\* workflow.
THEOREM Closing == Spec => TerminatingIsClosed
<1>1. Init => CountInv /\ EntryInv
  BY CountInit DEF Init, EntryInv
<1>2. CountInv /\ EntryInv /\ [Next]_vars => (CountInv /\ EntryInv)'
  BY CountNext, EntryInvStep
<1>3. CountInv /\ EntryInv /\ [Next]_vars
        => [\A w \in Entries :
              wstate[w] = "TERMINATING" /\ wkey'[w] = wkey[w] /\ wstate'[w] # "NONE"
              => wstate'[w] = "TERMINATING" /\ wcount'[w] <= wcount[w]]_vars
  BY ClosedStep DEF CountInv
<1> QED
  BY <1>1, <1>2, <1>3, PTL DEF Spec, TerminatingIsClosed
=============================================================================
