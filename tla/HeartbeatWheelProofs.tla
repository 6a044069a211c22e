------------------------ MODULE HeartbeatWheelProofs ------------------------
(***************************************************************************)
(* What holds of the heartbeat wheel.                                      *)
(*                                                                         *)
(* However the calls and agent_tick overlap, for every value of Races:     *)
(* types, that a process on the wheel is in the bucket of its deadline,    *)
(* and that no heartbeat is pending where none is on.  The argument for    *)
(* the bucket: a deadline is only written by a call that then links the    *)
(* process, or by agent_tick, which keeps p->lock until it has linked it.  *)
(*                                                                         *)
(* That the lists are sound, and so end, when neither an exit nor a change *)
(* of the heartbeat meets a process that agent_tick has in its hands (with *)
(* such an exit it does not hold: the run wheel_exit).  The argument: each *)
(* bucket is the list of a sequence without repetition, made of the        *)
(* processes marked for it, and so is what agent_tick has detached.        *)
(*                                                                         *)
(* That no due heartbeat is missed, when there is no overlap at all.       *)
(***************************************************************************)
EXTENDS HeartbeatWheel, Sequences, FiniteSetTheorems, TLAPS

\* A bucket is one of the wheel's.
LEMMA BucketRange ==
    ASSUME NEW d \in Nat
    PROVE  Bucket(d) \in 0..(Buckets - 1)
BY WheelAssumption DEF Bucket

\* Taking p off the wheel: the type, and what becomes of the marks.
LEMMA RemoveType ==
    ASSUME NEW w \in WheelType, NEW p \in Slots
    PROVE  /\ Remove(w, p) \in WheelType
           /\ Remove(w, p).bucket = [w.bucket EXCEPT ![p] = Off]
<1> DEFINE b == w.bucket[p]
           previous == {q \in Before(w.next, w.heads[b], p) : w.next[q] = p}
           heads == [w.heads EXCEPT ![b] = IF @ = p THEN w.next[p] ELSE @]
           next == [q \in Slots |-> IF q = p THEN None
                                    ELSE IF q \in previous THEN w.next[p]
                                    ELSE w.next[q]]
           bucket == [w.bucket EXCEPT ![p] = Off]
           count == IF p \in OnList(w, b) /\ w.count > 0
                    THEN w.count - 1 ELSE w.count
<1>1. CASE w.bucket[p] = Off
  BY <1>1 DEF Remove, WheelType
<1>2. CASE w.bucket[p] # Off
  <2>1. Remove(w, p) = [heads |-> heads, next |-> next,
                        bucket |-> bucket, count |-> count]
    BY <1>2, Zenon DEF Remove
  <2>2. b \in 0..(Buckets - 1)
    BY <1>2 DEF WheelType
  <2>3. heads \in [0..(Buckets - 1) -> Slots \cup {None}]
    BY <2>2 DEF WheelType
  <2>4. next \in [Slots -> Slots \cup {None}]
    BY DEF WheelType
  <2>5. bucket \in [Slots -> (0..(Buckets - 1)) \cup {Off}]
    BY DEF WheelType
  <2>6. count \in Nat
    BY DEF WheelType
  <2> HIDE DEF heads, next, bucket, count
  <2>7. Remove(w, p) \in WheelType
    BY <2>1, <2>3, <2>4, <2>5, <2>6 DEF WheelType
  <2>8. Remove(w, p).bucket = bucket
    BY <2>1
  <2> QED
    BY <2>7, <2>8 DEF bucket
<1> QED
  BY <1>1, <1>2

\* Putting p at the head of a bucket.
LEMMA PushType ==
    ASSUME NEW w \in WheelType, NEW p \in Slots, NEW b \in 0..(Buckets - 1)
    PROVE  /\ Push(w, p, b) \in WheelType
           /\ Push(w, p, b).bucket = [w.bucket EXCEPT ![p] = b]
<1>1. Push(w, p, b) = [heads  |-> [w.heads EXCEPT ![b] = p],
                       next   |-> [w.next EXCEPT ![p] = w.heads[b]],
                       bucket |-> [w.bucket EXCEPT ![p] = b],
                       count  |-> w.count + 1]
  BY DEF Push
<1>2. [w.heads EXCEPT ![b] = p] \in [0..(Buckets - 1) -> Slots \cup {None}]
  BY DEF WheelType
<1>3. [w.next EXCEPT ![p] = w.heads[b]] \in [Slots -> Slots \cup {None}]
  BY DEF WheelType
<1>4. [w.bucket EXCEPT ![p] = b] \in [Slots -> (0..(Buckets - 1)) \cup {Off}]
  BY DEF WheelType
<1>5. w.count + 1 \in Nat
  BY DEF WheelType
<1> QED
  BY <1>1, <1>2, <1>3, <1>4, <1>5 DEF WheelType

\* agent_heartbeat_wheel_reschedule touches the mark of p only, and leaves p
\* in the bucket of its deadline or off the wheel.
LEMMA RescheduleType ==
    ASSUME TypeOK, NEW p \in Slots, Reschedule(p)
    PROVE  /\ wheel' \in WheelType
           /\ wheel'.bucket = [wheel.bucket EXCEPT
                  ![p] = IF Wanted(p) THEN Bucket(deadline[p]) ELSE Off]
<1> DEFINE r == Remove(wheel, p)
<1>1. wheel \in WheelType /\ deadline[p] \in Nat
  BY DEF TypeOK
<1>2. r \in WheelType /\ r.bucket = [wheel.bucket EXCEPT ![p] = Off]
  BY <1>1, RemoveType
<1>3. Bucket(deadline[p]) \in 0..(Buckets - 1)
  BY <1>1, BucketRange
<1>4. wheel.bucket \in [Slots -> (0..(Buckets - 1)) \cup {Off}]
  BY <1>1 DEF WheelType
<1>5. wheel' = IF Wanted(p) THEN Push(r, p, Bucket(deadline[p])) ELSE r
  BY Zenon DEF Reschedule
<1> HIDE DEF r
<1>6. CASE Wanted(p)
  <2>1. wheel' = Push(r, p, Bucket(deadline[p]))
    BY <1>5, <1>6
  <2>2. /\ wheel' \in WheelType
        /\ wheel'.bucket = [r.bucket EXCEPT ![p] = Bucket(deadline[p])]
    BY <2>1, <1>2, <1>3, PushType
  <2> QED
    BY <2>2, <1>2, <1>4, <1>6
<1>7. CASE ~Wanted(p)
  BY <1>2, <1>4, <1>5, <1>7
<1> QED
  BY <1>6, <1>7

\* Resetting the links of a slot.
LEMMA ResetLinksType ==
    ASSUME TypeOK, NEW p \in Slots, ResetLinks(p)
    PROVE  /\ wheel' \in WheelType
           /\ wheel'.bucket = [wheel.bucket EXCEPT ![p] = Off]
BY DEF TypeOK, ResetLinks, WheelType

\* TickLook changes no mark.
LEMMA LookType ==
    ASSUME TypeOK, TickLook
    PROVE  wheel' \in WheelType /\ wheel'.bucket = wheel.bucket
<1>1. wheel \in WheelType /\ cur \in Slots
  BY DEF TypeOK, TickLook
<1>2. wheel' = [wheel EXCEPT !.next[cur] = None]
  BY DEF TickLook
<1> QED
  BY <1>1, <1>2 DEF WheelType

\* TickDetach takes marks away and gives none.
LEMMA DetachType ==
    ASSUME TypeOK, TickDetach
    PROVE  /\ wheel' \in WheelType
           /\ cur' \in Slots \cup {None}
           /\ \A p \in Slots : wheel'.bucket[p] \in {wheel.bucket[p], Off}
<1> DEFINE b == now % Buckets
           list == OnList(wheel, b)
           gone == Cardinality(list)
           bucket == [p \in Slots |-> IF p \in list THEN Off ELSE wheel.bucket[p]]
           count == IF wheel.count > gone THEN wheel.count - gone ELSE 0
<1>1. b \in 0..(Buckets - 1)
  BY BucketRange DEF TypeOK, Bucket
<1>2. wheel \in WheelType
  BY DEF TypeOK
<1>3. gone \in Nat
  <2>1. list \subseteq Slots
    BY DEF OnList, From
  <2>2. IsFiniteSet(list)
    BY <2>1, WheelAssumption, FS_Subset
  <2> QED
    BY <2>2, FS_CardinalityType
<1>4. /\ wheel' = [heads |-> [wheel.heads EXCEPT ![b] = None],
                   next |-> wheel.next, bucket |-> bucket, count |-> count]
      /\ cur' = wheel.heads[b]
  BY Zenon DEF TickDetach
<1> HIDE DEF list
<1>5. bucket \in [Slots -> (0..(Buckets - 1)) \cup {Off}]
  BY <1>2 DEF WheelType
<1> HIDE DEF gone, b
<1>6. count \in Nat
  BY <1>2, <1>3 DEF WheelType
<1>7. \A p \in Slots : bucket[p] \in {wheel.bucket[p], Off}
  OBVIOUS
<1> HIDE DEF bucket, count
<1> QED
  BY <1>1, <1>2, <1>4, <1>5, <1>6, <1>7 DEF WheelType

\* Every step keeps the types.
LEMMA TypeStep ==
    ASSUME TypeOK, [Next]_vars
    PROVE  TypeOK'
<1> USE DEF TypeOK, procVars, beatVars, tickVars, Goto
<1>1. ASSUME NEW p \in Slots, NEW s \in {"UNUSED", "LIVE"}, NEW a \in BOOLEAN,
             Reset(p, s, a)
      PROVE  TypeOK'
  BY <1>1, ResetLinksType DEF Reset
<1>2. ASSUME NEW p \in Slots, CreateRemove(p)
      PROVE  TypeOK'
  BY <1>2, RemoveType DEF CreateRemove
<1>3. ASSUME NEW p \in Slots, CreateSet(p)
      PROVE  TypeOK'
  BY <1>3, WheelAssumption DEF CreateSet
<1>4. ASSUME NEW p \in Slots, CreateLink(p)
      PROVE  TypeOK'
  BY <1>4, RescheduleType DEF CreateLink
<1>5. ASSUME NEW p \in Slots, SetFields(p)
      PROVE  TypeOK'
  BY <1>5, WheelAssumption DEF SetFields, Calling, AgentCalling
<1>6. ASSUME NEW p \in Slots, SetLink(p)
      PROVE  TypeOK'
  BY <1>6, RescheduleType DEF SetLink
<1>7. ASSUME NEW p \in Slots, StopRemove(p)
      PROVE  TypeOK'
  BY <1>7, RemoveType DEF StopRemove
<1>8. ASSUME NEW p \in Slots, StopFields(p)
      PROVE  TypeOK'
  BY <1>8 DEF StopFields
<1>9. ASSUME NEW p \in Slots, WaitDone(p)
      PROVE  TypeOK'
  BY <1>9 DEF WaitDone, Calling, AgentCalling
<1>10. ASSUME NEW p \in Slots, WaitEnter(p)
      PROVE  TypeOK'
  BY <1>10 DEF WaitEnter, Calling, AgentCalling
<1>11. ASSUME NEW p \in Slots, WaitReturn(p)
      PROVE  TypeOK'
  BY <1>11 DEF WaitReturn
<1>12. ASSUME NEW p \in Slots, Cascade(p)
      PROVE  TypeOK'
  BY <1>12 DEF Cascade
<1>13. ASSUME NEW p \in Slots, ExitRemove(p)
      PROVE  TypeOK'
  BY <1>13, RemoveType DEF ExitRemove
<1>14. ASSUME NEW p \in Slots, ExitZombie(p)
      PROVE  TypeOK'
  BY <1>14 DEF ExitZombie
<1>15. CASE Tick
  BY <1>15 DEF Tick
<1>16. CASE TickDetach
  BY <1>16, DetachType DEF TickDetach
<1>17. CASE TickNext
  BY <1>17 DEF TickNext, WheelType
<1>18. CASE TickLook
  <2>1. wheel' \in WheelType
    BY <1>18, LookType
  <2>2. pend' \subseteq Slots /\ deadline' \in [Slots -> Nat]
    BY <1>18 DEF TickLook
  <2>3. UNCHANGED <<procVars, interval, now, cur, nxt, starts>> /\ tick' = "link"
    BY <1>18 DEF TickLook
  <2> QED
    BY <1>18, <2>1, <2>2, <2>3 DEF TickLook
<1>19. CASE TickLink
  BY <1>19, RescheduleType DEF TickLink
<1>20. CASE TickEnd
  BY <1>20 DEF TickEnd
<1>21. CASE UNCHANGED vars
  BY <1>21 DEF vars
<1> QED
  BY <1>1, <1>2, <1>3, <1>4, <1>5, <1>6, <1>7, <1>8, <1>9, <1>10, <1>11, <1>12, <1>13, <1>14, <1>15, <1>16, <1>17, <1>18, <1>19, <1>20, <1>21 DEF Next, Fork, Reap

LEMMA InitType ==
    Init => TypeOK
BY WheelAssumption DEF Init, TypeOK, WheelType

\* The states, marks, buckets and indices that the kernel keeps are always of
\* their types; agent_tick works on a slot while it holds its lock.
THEOREM TypeCorrect == Spec => []TypeOK
<1>1. TypeOK /\ [Next]_vars => TypeOK'
  BY TypeStep
<1> QED
  BY InitType, <1>1, PTL DEF Spec

-----------------------------------------------------------------------------

\* What makes InItsBucket inductive: while agent_tick holds p->lock of a
\* process whose deadline it has moved, it is going to link it again; and a
\* process that is not wanted only because its loop is DONE, which agent_wait
\* may change, is in the right bucket as well.
BucketInv ==
    \A p \in Slots :
        /\ wheel.bucket[p] # Off
        /\ interval[p] > 0
        /\ deadline[p] > 0
        /\ pc[p] \notin {"marked", "armed"}
        => \/ wheel.bucket[p] = Bucket(deadline[p])
           \/ Locked(p) /\ Wanted(p)

\* A step of p that leaves p unmarked or in the middle of a call, and that
\* does not touch the others or agent_tick.
LEMMA OneUnmarked ==
    ASSUME TypeOK, BucketInv, NEW p \in Slots,
           UNCHANGED <<tick, cur>>,
           \/ wheel'.bucket[p] = Off
           \/ interval'[p] = 0
           \/ pc'[p] \in {"marked", "armed"}
           \/ wheel'.bucket[p] = Bucket(deadline'[p]),
           \A q \in Slots \ {p} :
              /\ wheel'.bucket[q] = wheel.bucket[q]
              /\ interval'[q] = interval[q]
              /\ deadline'[q] = deadline[q]
              /\ pc'[q] = pc[q]
              /\ st'[q] = st[q]
              /\ q \in agent' <=> q \in agent
              /\ q \in done' <=> q \in done
    PROVE  BucketInv'
BY DEF BucketInv, Locked, Wanted

LEMMA BucketStep ==
    ASSUME TypeOK, BucketInv, [Next]_vars
    PROVE  BucketInv'
<1> USE DEF procVars, beatVars, tickVars, Goto
<1>w. wheel \in WheelType /\ wheel.bucket \in [Slots -> (0..(Buckets - 1)) \cup {Off}]
  BY DEF TypeOK, WheelType
<1>1. ASSUME NEW p \in Slots, NEW s \in {"UNUSED", "LIVE"}, NEW a \in BOOLEAN,
             Reset(p, s, a)
      PROVE  BucketInv'
  <2>1. wheel'.bucket = [wheel.bucket EXCEPT ![p] = Off]
    BY <1>1, ResetLinksType DEF Reset
  <2> QED
    BY <1>1, <1>w, <2>1, OneUnmarked DEF Reset, TypeOK
<1>2. ASSUME NEW p \in Slots, CreateRemove(p) \/ StopRemove(p) \/ ExitRemove(p)
      PROVE  BucketInv'
  <2>1. wheel'.bucket = [wheel.bucket EXCEPT ![p] = Off]
    BY <1>2, <1>w, RemoveType DEF CreateRemove, StopRemove, ExitRemove
  <2>2. /\ UNCHANGED <<tick, cur, st, agent, done, interval, deadline>>
        /\ \A q \in Slots \ {p} : pc'[q] = pc[q]
    BY <1>2 DEF CreateRemove, StopRemove, ExitRemove, TypeOK
  <2> QED
    BY <1>w, <2>1, <2>2, OneUnmarked
<1>3. ASSUME NEW p \in Slots, CreateSet(p) \/ SetFields(p)
      PROVE  BucketInv'
  <2>1. pc'[p] \in {"marked", "armed"}
    BY <1>3 DEF CreateSet, SetFields, TypeOK
  <2>2. /\ UNCHANGED <<tick, cur, st, wheel>>
        /\ \A q \in Slots \ {p} :
              /\ interval'[q] = interval[q]
              /\ deadline'[q] = deadline[q]
              /\ pc'[q] = pc[q]
              /\ q \in agent' <=> q \in agent
              /\ q \in done' <=> q \in done
    BY <1>3 DEF CreateSet, SetFields, TypeOK
  <2> QED
    BY <2>1, <2>2, OneUnmarked
<1>4. ASSUME NEW p \in Slots, CreateLink(p) \/ SetLink(p)
      PROVE  BucketInv'
  <2>1. /\ UNCHANGED <<tick, cur, st, agent, done, interval, deadline>>
        /\ \A q \in Slots \ {p} : pc'[q] = pc[q]
    BY <1>4 DEF CreateLink, SetLink, TypeOK
  <2>2. CASE Reschedule(p)
    <3>1. wheel'.bucket = [wheel.bucket EXCEPT
                ![p] = IF Wanted(p) THEN Bucket(deadline[p]) ELSE Off]
      BY <2>2, RescheduleType
    <3>2. \/ wheel'.bucket[p] = Off
          \/ wheel'.bucket[p] = Bucket(deadline[p])
      BY <1>w, <3>1
    <3> QED
      BY <1>w, <2>1, <3>1, <3>2, OneUnmarked
  <2>3. CASE interval[p] = 0 /\ UNCHANGED wheel
    BY <2>1, <2>3, OneUnmarked
  <2> QED
    BY <1>4, <2>2, <2>3 DEF CreateLink, SetLink
<1>5. ASSUME NEW p \in Slots, StopFields(p) \/ WaitDone(p) \/ Cascade(p)
      PROVE  BucketInv'
  <2>1. interval'[p] = 0
    BY <1>5 DEF StopFields, WaitDone, Cascade, TypeOK
  <2>2. /\ UNCHANGED <<tick, cur, st, wheel, agent>>
        /\ \A q \in Slots \ {p} :
              /\ interval'[q] = interval[q]
              /\ deadline'[q] = deadline[q]
              /\ pc'[q] = pc[q]
              /\ q \in done' <=> q \in done
    BY <1>5 DEF StopFields, WaitDone, Cascade, TypeOK
  <2> QED
    BY <2>1, <2>2, OneUnmarked
<1>6. ASSUME NEW p \in Slots, WaitEnter(p) \/ WaitReturn(p) \/ ExitZombie(p)
      PROVE  BucketInv'
  <2>1. /\ ~Locked(p)
        /\ pc[p] \notin {"marked", "armed"}
    BY <1>6 DEF WaitEnter, WaitReturn, ExitZombie, AgentCalling, Calling
  <2>2. /\ UNCHANGED <<tick, cur, wheel, agent, interval, deadline>>
        /\ \A q \in Slots \ {p} :
              /\ pc'[q] = pc[q]
              /\ st'[q] = st[q]
              /\ q \in done' <=> q \in done
    BY <1>6 DEF WaitEnter, WaitReturn, ExitZombie, TypeOK
  <2>3. \/ wheel.bucket[p] = Off
        \/ interval[p] = 0
        \/ deadline[p] = 0
        \/ wheel.bucket[p] = Bucket(deadline[p])
    BY <2>1 DEF BucketInv, TypeOK
  <2> QED
    BY <2>2, <2>3 DEF BucketInv, Locked, Wanted
<1>7. CASE Tick \/ TickNext \/ TickEnd
  <2>1. UNCHANGED <<procVars, beatVars, wheel>> /\ tick # "link"
    BY <1>7 DEF Tick, TickNext, TickEnd
  <2> QED
    BY <2>1 DEF BucketInv, Locked, Wanted
<1>8. CASE TickDetach
  <2>1. \A p \in Slots : wheel'.bucket[p] \in {wheel.bucket[p], Off}
    BY <1>8, DetachType
  <2>2. UNCHANGED <<procVars, beatVars>> /\ tick # "link"
    BY <1>8 DEF TickDetach
  <2> QED
    BY <2>1, <2>2 DEF BucketInv, Locked, Wanted
<1>9. CASE TickLook
  <2>1. wheel'.bucket = wheel.bucket
    BY <1>9, LookType
  <2>2. /\ tick # "link" /\ tick' = "link" /\ cur' = cur /\ cur \in Slots
        /\ UNCHANGED <<procVars, interval, now>>
    BY <1>9 DEF TickLook, TypeOK
  <2>3. CASE Due(cur) /\ deadline' = [deadline EXCEPT ![cur] = now + interval[cur]]
    <3>1. deadline'[cur] = now + interval[cur] /\ \A q \in Slots \ {cur} : deadline'[q] = deadline[q]
      BY <2>2, <2>3 DEF TypeOK
    <3>2. now + interval[cur] > 0
      BY <2>2, <2>3 DEF TypeOK, Due, Wanted
    <3>3. Locked(cur)' /\ Wanted(cur)'
      BY <2>2, <2>3, <3>1, <3>2 DEF Locked, Due, Wanted
    <3> QED
      BY <2>1, <2>2, <3>1, <3>3 DEF BucketInv, Locked, Wanted
  <2>4. CASE UNCHANGED deadline
    BY <2>1, <2>2, <2>4 DEF BucketInv, Locked, Wanted
  <2> QED
    BY <1>9, <2>3, <2>4 DEF TickLook
<1>10. CASE TickLink
  <2>1. /\ tick = "link" /\ tick' = "walk" /\ cur \in Slots
        /\ UNCHANGED <<procVars, beatVars, now>>
    BY <1>10 DEF TickLink, TypeOK
  <2>2. CASE Wanted(cur) /\ Reschedule(cur)
    <3>1. wheel'.bucket = [wheel.bucket EXCEPT ![cur] = Bucket(deadline[cur])]
      BY <2>1, <2>2, RescheduleType
    <3>2. /\ wheel'.bucket[cur] = Bucket(deadline[cur])
          /\ \A q \in Slots \ {cur} : wheel'.bucket[q] = wheel.bucket[q]
      BY <1>w, <2>1, <3>1
    <3> QED
      BY <2>1, <3>2 DEF BucketInv, Locked, Wanted
  <2>3. CASE ~Wanted(cur) /\ UNCHANGED wheel
    BY <2>1, <2>3 DEF BucketInv, Locked, Wanted
  <2> QED
    BY <1>10, <2>2, <2>3 DEF TickLink
<1>11. CASE UNCHANGED vars
  BY <1>11 DEF vars, BucketInv, Locked, Wanted
<1> QED
  BY <1>1, <1>2, <1>3, <1>4, <1>5, <1>6, <1>7, <1>8, <1>9, <1>10, <1>11
     DEF Next, Fork, Reap

\* A process that stays on the wheel is found by agent_tick at its deadline:
\* it is in that bucket, in whatever order calls and agent_tick overlap
\* (agent_loop.c 119 and 610 agree).
THEOREM BucketCorrect == Spec => []InItsBucket
<1>1. Init => BucketInv
  BY DEF Init, BucketInv
<1>2. TypeOK /\ BucketInv /\ [Next]_vars => TypeOK' /\ BucketInv'
  BY TypeStep, BucketStep
<1>3. TypeOK /\ BucketInv => InItsBucket
  BY DEF BucketInv, InItsBucket, Wanted
<1> QED
  BY InitType, <1>1, <1>2, <1>3, PTL DEF Spec

-----------------------------------------------------------------------------

LEMMA QuietStep ==
    ASSUME TypeOK, QuietAfterStop, [Next]_vars
    PROVE  QuietAfterStop'
<1> USE DEF procVars, beatVars, tickVars
<1>1. ASSUME NEW p \in Slots, NEW s \in {"UNUSED", "LIVE"}, NEW a \in BOOLEAN,
             Reset(p, s, a)
      PROVE  QuietAfterStop'
  BY <1>1 DEF Reset, QuietAfterStop, TypeOK
<1>2. ASSUME NEW p \in Slots,
             \/ CreateRemove(p) \/ CreateLink(p) \/ SetLink(p) \/ StopRemove(p)
             \/ WaitEnter(p) \/ WaitReturn(p) \/ ExitRemove(p) \/ ExitZombie(p)
      PROVE  QuietAfterStop'
  BY <1>2 DEF CreateRemove, CreateLink, SetLink, StopRemove, WaitEnter,
              WaitReturn, ExitRemove, ExitZombie, QuietAfterStop
<1>3. ASSUME NEW p \in Slots,
             CreateSet(p) \/ SetFields(p) \/ StopFields(p) \/ WaitDone(p)
      PROVE  QuietAfterStop'
  <2>1. /\ pend' = pend \ {p} /\ killed' = killed
        /\ \A q \in Slots \ {p} : interval'[q] = interval[q]
    BY <1>3 DEF CreateSet, SetFields, StopFields, WaitDone, TypeOK
  <2> QED
    BY <2>1 DEF QuietAfterStop, TypeOK
<1>4. ASSUME NEW p \in Slots, Cascade(p)
      PROVE  QuietAfterStop'
  BY <1>4 DEF Cascade, QuietAfterStop, TypeOK
<1>5. CASE Tick \/ TickDetach \/ TickNext \/ TickLink \/ TickEnd
  BY <1>5 DEF Tick, TickDetach, TickNext, TickLink, TickEnd, QuietAfterStop
<1>6. CASE TickLook
  <2>1. /\ UNCHANGED <<interval, killed>>
        /\ \/ pend' = pend
           \/ pend' = pend \cup {cur} /\ interval[cur] > 0
    BY <1>6 DEF TickLook, Due, Wanted
  <2> QED
    BY <2>1 DEF QuietAfterStop
<1>7. CASE UNCHANGED vars
  BY <1>7 DEF vars, QuietAfterStop
<1> QED
  BY <1>1, <1>2, <1>3, <1>4, <1>5, <1>6, <1>7 DEF Next, Fork, Reap

\* agent_wait never reports a heartbeat that agent_heartbeat_stop or
\* agent_wait(0) should have taken back.
THEOREM QuietCorrect == Spec => []QuietAfterStop
<1>1. Init => QuietAfterStop
  BY DEF Init, QuietAfterStop
<1>2. TypeOK /\ QuietAfterStop /\ [Next]_vars => TypeOK' /\ QuietAfterStop'
  BY TypeStep, QuietStep
<1> QED
  BY InitType, <1>1, <1>2, PTL DEF Spec

----------------------------------------------------------------------------
LEMMA MinNat ==
    ASSUME NEW T \in SUBSET Nat, T # {}
    PROVE  \E x \in T : \A y \in T : x <= y
<1> DEFINE R == {ss \in Nat \X Nat : ss[1] < ss[2]}
<1>1. IsWellFoundedOn(R, Nat)
  <2>1. R = OpToRel(<, Nat)
    BY ZenonT(20) DEF OpToRel
  <2> QED
    BY <2>1, NatLessThanWellFounded, ZenonT(20)
<1>2. PICK x \in T : \A y \in T : ~ (<<y, x>> \in R)
  BY <1>1, WFMin
<1>3. ASSUME NEW m \in Nat, NEW n \in Nat, n < m
      PROVE  <<n, m>> \in R
  <2>1. <<n, m>>[1] = n /\ <<n, m>>[2] = m
    OBVIOUS
  <2>2. <<n, m>> \in Nat \X Nat
    OBVIOUS
  <2> QED
    BY <2>1, <2>2, <1>3
<1>4. \A y \in T : ~ (y < x)
  <2> HIDE DEF R
  <2> QED
    BY <1>2, <1>3
<1> QED
  <2>1. \A y \in T : x \in Int /\ y \in Int
    OBVIOUS
  <2> QED
    BY <2>1, <1>4

\* The list that begins with x, as the sequence of its slots.
List(next, x, s) ==
    /\ x = IF s = <<>> THEN None ELSE s[1]
    /\ \A i \in 1..Len(s) : next[s[i]] = IF i = Len(s) THEN None ELSE s[i + 1]
    /\ \A i, j \in 1..Len(s) : s[i] = s[j] => i = j

LEMMA WalkIs ==
    ASSUME NEW next, NEW x, NEW s \in Seq(Slots), List(next, x, s)
    PROVE  Walk(next, x) = [k \in 0..Cardinality(Slots) |->
                                IF k < Len(s) THEN s[k + 1] ELSE None]
<1> DEFINE n == Cardinality(Slots)
           F(h) == [k \in 0..n |-> IF k = 0 THEN x
                                  ELSE IF h[k - 1] = None THEN None ELSE next[h[k - 1]]]
           g == [k \in 0..n |-> IF k < Len(s) THEN s[k + 1] ELSE None]
<1>1. n \in Nat
  BY WheelAssumption, FS_CardinalityType
<1>2. Walk(next, x) = CHOOSE h : h = F(h)
  BY DEF Walk
<1>3. g = F(g)
  <2>1. Len(s) \in Nat /\ \A i \in 1..Len(s) : s[i] # None
    BY WheelAssumption
  <2>2. ASSUME NEW k \in 0..n
        PROVE  g[k] = F(g)[k]
    <3>1. CASE k = 0
      <4>1. g[0] = IF s = <<>> THEN None ELSE s[1]
        BY <1>1, <2>1
      <4> QED
        BY <1>1, <3>1, <4>1 DEF List
    <3>2. CASE k # 0
      <4>1. k - 1 \in 0..n /\ k \in Nat
        BY <1>1, <3>2
      <4>2. F(g)[k] = IF g[k - 1] = None THEN None ELSE next[g[k - 1]]
        BY <3>2
      <4>3. g[k - 1] = IF k - 1 < Len(s) THEN s[k] ELSE None
        BY <4>1
      <4>4. CASE k - 1 < Len(s)
        <5>1. k \in 1..Len(s) /\ g[k - 1] = s[k]
          BY <2>1, <3>2, <4>1, <4>3, <4>4
        <5>2. next[s[k]] = IF k = Len(s) THEN None ELSE s[k + 1]
          BY <5>1 DEF List
        <5>3. g[k] = IF k = Len(s) THEN None ELSE s[k + 1]
          BY <2>1, <5>1
        <5> QED
          BY <2>1, <4>2, <5>1, <5>2, <5>3
      <4>5. CASE ~(k - 1 < Len(s))
        <5>1. ~(k < Len(s))
          BY <2>1, <4>1, <4>5
        <5> QED
          BY <4>2, <4>3, <4>5, <5>1
      <4> QED
        BY <4>4, <4>5
    <3> QED
      BY <3>1, <3>2
  <2> QED
    BY <2>2
<1>4. PICK h : h = F(h) /\ h = Walk(next, x)
  BY <1>2, <1>3
<1> DEFINE T == {k \in 0..n : h[k] # g[k]}
<1>5. T = {}
  <2> SUFFICES ASSUME T # {} PROVE FALSE
    OBVIOUS
  <2>1. T \in SUBSET Nat
    OBVIOUS
  <2> HIDE DEF T
  <2>2. PICK m \in T : \A y \in T : m <= y
    BY <2>1, MinNat
  <2>3. m \in 0..n /\ h[m] # g[m]
    BY <2>2 DEF T
  <2> HIDE DEF g
  <2>4. h[m] = IF m = 0 THEN x ELSE IF h[m - 1] = None THEN None ELSE next[h[m - 1]]
    BY <1>4, <2>3
  <2>5. g[m] = IF m = 0 THEN x ELSE IF g[m - 1] = None THEN None ELSE next[g[m - 1]]
    BY <1>3, <2>3
  <2>6. m # 0 => m - 1 \in 0..n /\ ~(m <= m - 1)
    BY <1>1, <2>3
  <2>7. m # 0 => h[m - 1] = g[m - 1]
    BY <2>2, <2>6 DEF T
  <2> QED
    BY <2>3, <2>4, <2>5, <2>7
<1> QED
  <2>1. h = [k \in 0..n |-> h[k]]
    BY <1>4
  <2> HIDE DEF g
  <2>2. \A k \in 0..n : h[k] = g[k]
    BY <1>5
  <2>3. h = [k \in 0..n |-> g[k]]
    BY <2>1, <2>2
  <2> QED
    BY <1>4, <2>3 DEF g

\* A list without repetition has at most as many slots as there are.
LEMMA ListFits ==
    ASSUME NEW next, NEW x, NEW s \in Seq(Slots), List(next, x, s)
    PROVE  Len(s) <= Cardinality(Slots)
<1> DEFINE n == Cardinality(Slots)
           m == Len(s)
<1>1. n \in Nat /\ m \in Nat /\ IsFiniteSet(1..m) /\ Cardinality(1..m) = m
  <2>1. n \in Nat /\ m \in Nat
    BY WheelAssumption, FS_CardinalityType
  <2> HIDE DEF m, n
  <2>2. /\ IsFiniteSet(1..m)
        /\ Cardinality(1..m) = IF 1 > m THEN 0 ELSE m - 1 + 1
    <3>1. 1 \in Int /\ m \in Int
      BY <2>1
    <3> QED
      BY <3>1, FS_Interval
  <2> QED
    BY <2>1, <2>2
<1>2. s \in [1..m -> Slots]
  OBVIOUS
<1>3. \A i, j \in 1..m : s[i] = s[j] => i = j
  BY DEF List
<1>4. ASSUME n < m PROVE FALSE
  <2> HIDE DEF m, n
  <2>1. Cardinality(Slots) < Cardinality(1..m) /\ IsFiniteSet(Slots)
    BY <1>1, <1>4, WheelAssumption DEF n
  <2> QED
    BY <1>1, <1>2, <1>3, <2>1, FS_PigeonHole
<1> QED
  BY <1>1, <1>4

\* What the loops over a list see.
Members(s) == {s[i] : i \in 1..Len(s)}

LEMMA ListSeen ==
    ASSUME NEW next, NEW x, NEW s \in Seq(Slots), List(next, x, s)
    PROVE  /\ Ends(next, x)
           /\ From(next, x) = Members(s)
           /\ \A j \in 1..Len(s) : Before(next, x, s[j]) = {s[i] : i \in 1..(j - 1)}
<1> DEFINE n == Cardinality(Slots)
           w == Walk(next, x)
<1>1. n \in Nat /\ Len(s) \in Nat /\ Len(s) <= n
  BY WheelAssumption, FS_CardinalityType, ListFits
<1>2. w = [k \in 0..n |-> IF k < Len(s) THEN s[k + 1] ELSE None]
  BY WalkIs
<1>3. \A k \in 0..n : w[k] = IF k < Len(s) THEN s[k + 1] ELSE None
  BY <1>2
<1>4. \A i \in 1..Len(s) : s[i] \in Slots /\ s[i] # None /\ i - 1 \in 0..n /\ w[i - 1] = s[i]
  BY <1>1, <1>3, WheelAssumption
<1> HIDE DEF w
<1>5. Ends(next, x)
  <2>1. w[n] = None
    BY <1>1, <1>3
  <2> QED
    BY <2>1 DEF Ends, w
<1>6. \A k \in 0..n : w[k] \in Slots => k + 1 \in 1..Len(s) /\ w[k] = s[k + 1]
  BY <1>1, <1>3, WheelAssumption
<1>7. From(next, x) = Members(s)
  <2>1. From(next, x) = {p \in Slots : \E k \in 0..n : w[k] = p}
    BY DEF From, w
  <2>2. ASSUME NEW p \in From(next, x) PROVE p \in Members(s)
    <3>1. PICK k \in 0..n : w[k] = p
      BY <2>1
    <3>2. k + 1 \in 1..Len(s) /\ p = s[k + 1]
      BY <1>6, <2>1, <3>1
    <3> QED
      BY <3>2 DEF Members
  <2>3. ASSUME NEW i \in 1..Len(s) PROVE s[i] \in From(next, x)
    BY <1>4, <2>1
  <2> QED
    BY <2>2, <2>3 DEF Members
<1>8. ASSUME NEW j \in 1..Len(s)
      PROVE  Before(next, x, s[j]) = {s[i] : i \in 1..(j - 1)}
  <2>1. Before(next, x, s[j])
          = {q \in Slots : \E k \in 0..n : w[k] = q /\ \A i \in 0..k : w[i] # s[j]}
    BY DEF Before, w
  <2>2. ASSUME NEW i \in 1..(j - 1)
        PROVE  /\ s[i] \in Slots /\ i - 1 \in 0..n /\ w[i - 1] = s[i]
               /\ \A h \in 0..(i - 1) : w[h] # s[j]
    <3>1. i \in 1..Len(s)
      BY <1>1
    <3>2. \A h \in 0..(i - 1) : h + 1 \in 1..Len(s) /\ h + 1 # j /\ h \in 0..n /\ w[h] = s[h + 1]
      BY <1>1, <1>3
    <3>3. \A h \in 0..(i - 1) : w[h] # s[j]
      BY <3>2 DEF List
    <3> QED
      BY <1>4, <3>1, <3>3
  <2>3. ASSUME NEW k \in 0..n, w[k] \in Slots, \A i \in 0..k : w[i] # s[j]
        PROVE  k + 1 \in 1..(j - 1) /\ w[k] = s[k + 1]
    <3>1. w[j - 1] = s[j] /\ j - 1 \in Nat
      BY <1>1, <1>4
    <3>2. ~(j - 1 \in 0..k)
      BY <2>3, <3>1
    <3> QED
      BY <1>1, <1>6, <2>3, <3>1, <3>2
  <2>4. ASSUME NEW q \in Before(next, x, s[j])
        PROVE  q \in {s[i] : i \in 1..(j - 1)}
    <3>1. PICK k \in 0..n : w[k] = q /\ \A i \in 0..k : w[i] # s[j]
      BY <2>1
    <3>2. k + 1 \in 1..(j - 1) /\ q = s[k + 1]
      BY <2>1, <2>3, <3>1
    <3> QED
      BY <3>2
  <2>5. ASSUME NEW i \in 1..(j - 1)
        PROVE  s[i] \in Before(next, x, s[j])
    BY <2>1, <2>2
  <2> QED
    BY <2>4, <2>5
<1> QED
  BY <1>5, <1>7, <1>8

----------------------------------------------------------------------------
\* A list is kept by what writes none of its links.
LEMMA ListKept ==
    ASSUME NEW next, NEW x, NEW s \in Seq(Slots), List(next, x, s), NEW other,
           \A q \in Members(s) : other[q] = next[q]
    PROVE  List(other, x, s)
BY DEF List, Members

\* A new head.
LEMMA ListPush ==
    ASSUME NEW next, NEW x, NEW s \in Seq(Slots), List(next, x, s),
           NEW p \in Slots \ Members(s), NEW other, other[p] = x,
           \A q \in Members(s) : other[q] = next[q]
    PROVE  \E t \in Seq(Slots) :
              List(other, p, t) /\ Members(t) = Members(s) \cup {p}
<1> DEFINE t == [i \in 1..(Len(s) + 1) |-> IF i = 1 THEN p ELSE s[i - 1]]
<1>1. Len(s) \in Nat /\ \A i \in 1..Len(s) : s[i] \in Slots /\ s[i] \in Members(s)
  BY DEF Members
<1>2. Len(s) + 1 \in Nat /\ \A i \in 1..(Len(s) + 1) : i = 1 \/ i - 1 \in 1..Len(s)
  BY <1>1
<1>3. t \in Seq(Slots) /\ Len(t) = Len(s) + 1
  <2>1. t \in [1..(Len(s) + 1) -> Slots]
    BY <1>1, <1>2
  <2> HIDE DEF t
  <2>2. t \in Seq(Slots)
    BY <1>2, <2>1
  <2> QED
    BY <1>2, <2>1, <2>2
<1>4. t[1] = p /\ \A i \in 1..Len(s) : t[i + 1] = s[i]
  BY <1>1
<1>5. t # <<>>
  BY <1>1, <1>3
<1> HIDE DEF t
<1>6. \A i \in 1..Len(t) : i = 1 \/ (i - 1 \in 1..Len(s) /\ t[i] = s[i - 1])
  <2> TAKE i \in 1..Len(t)
  <2>1. CASE i # 1
    <3>1. i - 1 \in 1..Len(s) /\ (i - 1) + 1 = i
      BY <1>1, <1>3, <2>1
    <3> QED
      BY <1>4, <3>1
  <2> QED
    BY <2>1
<1>7. ASSUME NEW i \in 1..Len(t)
      PROVE  other[t[i]] = IF i = Len(t) THEN None ELSE t[i + 1]
  <2>1. CASE i = 1
    <3>1. other[t[i]] = x
      BY <1>4, <2>1
    <3>2. CASE s = <<>>
      BY <1>3, <2>1, <3>1, <3>2 DEF List
    <3>3. CASE s # <<>>
      <4>1. 1 \in 1..Len(s) /\ i # Len(t)
        BY <1>1, <1>3, <2>1, <3>3
      <4> QED
        BY <1>4, <2>1, <3>1, <3>3, <4>1 DEF List
    <3> QED
      BY <3>2, <3>3
  <2>2. CASE i # 1
    <3>1. i - 1 \in 1..Len(s) /\ t[i] = s[i - 1]
      BY <1>6, <2>2
    <3>2. other[t[i]] = IF i - 1 = Len(s) THEN None ELSE s[(i - 1) + 1]
      BY <1>1, <3>1 DEF List
    <3>3. i # Len(t) => i \in 1..Len(s) /\ (i - 1) + 1 = i
      BY <1>1, <1>3, <3>1
    <3>4. i = Len(t) <=> i - 1 = Len(s)
      BY <1>1, <1>3
    <3> QED
      BY <1>4, <3>2, <3>3, <3>4
  <2> QED
    BY <2>1, <2>2
<1>8. ASSUME NEW i \in 1..Len(t), NEW j \in 1..Len(t), t[i] = t[j]
      PROVE  i = j
  <2>1. \A k \in 1..Len(s) : s[k] # p
    BY <1>1
  <2>2. i = 1 <=> j = 1
    BY <1>4, <1>6, <1>8, <2>1
  <2>3. i # 1 => i - 1 = j - 1
    <3>1. \A a, b \in 1..Len(s) : s[a] = s[b] => a = b
      BY DEF List
    <3> QED
      BY <1>6, <1>8, <2>2, <3>1
  <2> QED
    BY <2>2, <2>3
<1>9. Members(t) = Members(s) \cup {p}
  <2>1. \A i \in 1..Len(t) : t[i] \in Members(s) \cup {p}
    BY <1>1, <1>4, <1>6
  <2>2. 1 \in 1..Len(t) /\ \A i \in 1..Len(s) : i + 1 \in 1..Len(t)
    BY <1>1, <1>3
  <2>3. ASSUME NEW q \in Members(s) PROVE q \in Members(t)
    <3>1. PICK i \in 1..Len(s) : q = s[i]
      BY DEF Members
    <3> QED
      BY <1>4, <2>2, <3>1 DEF Members
  <2>4. p \in Members(t)
    BY <1>4, <2>2 DEF Members
  <2> QED
    BY <2>1, <2>3, <2>4 DEF Members
<1>10. List(other, p, t)
  BY <1>4, <1>5, <1>7, <1>8 DEF List
<1> QED
  BY <1>3, <1>9, <1>10

\* Without its head.
LEMMA ListPop ==
    ASSUME NEW next, NEW x \in Slots, NEW s \in Seq(Slots), List(next, x, s)
    PROVE  /\ x \in Members(s)
           /\ \E t \in Seq(Slots) :
                 List(next, next[x], t) /\ Members(t) = Members(s) \ {x}
<1> DEFINE t == Tail(s)
<1>1. s # <<>> /\ x = s[1] /\ Len(s) \in Nat \ {0}
  BY WheelAssumption DEF List
<1>2. /\ t \in Seq(Slots) /\ Len(t) = Len(s) - 1
      /\ \A i \in 1..Len(t) : t[i] = s[i + 1] /\ i + 1 \in 1..Len(s)
  BY <1>1
<1>3. next[x] = IF t = <<>> THEN None ELSE t[1]
  <2>1. next[s[1]] = IF 1 = Len(s) THEN None ELSE s[1 + 1]
    <3>1. 1 \in 1..Len(s)
      BY <1>1
    <3>2. \A i \in 1..Len(s) : next[s[i]] = IF i = Len(s) THEN None ELSE s[i + 1]
      BY DEF List
    <3> QED
      BY <3>1, <3>2
  <2> HIDE DEF t
  <2>2. t = <<>> <=> 1 = Len(s)
    <3>1. t = <<>> <=> Len(t) = 0
      BY <1>2
    <3> QED
      BY <1>1, <1>2, <3>1
  <2>3. t # <<>> => t[1] = s[1 + 1]
    BY <1>1, <1>2
  <2> QED
    BY <1>1, <2>1, <2>2, <2>3
<1> HIDE DEF t
<1>4. ASSUME NEW i \in 1..Len(t)
      PROVE  next[t[i]] = IF i = Len(t) THEN None ELSE t[i + 1]
  <2>1. i + 1 \in 1..Len(s) /\ t[i] = s[i + 1]
    BY <1>2
  <2>2. next[s[i + 1]] = IF i + 1 = Len(s) THEN None ELSE s[(i + 1) + 1]
    BY <2>1 DEF List
  <2>3. i # Len(t) => i + 1 \in 1..Len(t)
    BY <1>1, <1>2
  <2>4. i = Len(t) <=> i + 1 = Len(s)
    BY <1>1, <1>2
  <2> QED
    BY <1>2, <2>1, <2>2, <2>3, <2>4
<1>5. ASSUME NEW i \in 1..Len(t), NEW j \in 1..Len(t), t[i] = t[j]
      PROVE  i = j
  <2>1. i + 1 = j + 1
    BY <1>2, <1>5 DEF List
  <2> QED
    BY <2>1
<1>6. x \notin Members(t)
  <2>1. \A i \in 1..Len(t) : i + 1 # 1 /\ 1 \in 1..Len(s)
    BY <1>1
  <2> QED
    BY <1>1, <1>2, <2>1 DEF List, Members
<1>7. Members(s) = Members(t) \cup {x}
  <2>1. \A i \in 1..Len(s) : i = 1 \/ (i - 1 \in 1..Len(t) /\ (i - 1) + 1 = i)
    BY <1>1, <1>2
  <2>2. \A i \in 1..Len(s) : s[i] \in Members(t) \cup {x}
    <3> TAKE i \in 1..Len(s)
    <3>1. CASE i = 1
      BY <1>1, <3>1
    <3>2. CASE i # 1
      <4>1. i - 1 \in 1..Len(t) /\ s[i] = t[i - 1]
        BY <1>2, <2>1, <3>2
      <4> QED
        BY <4>1 DEF Members
    <3> QED
      BY <3>1, <3>2
  <2>3. x \in Members(s)
    BY <1>1 DEF Members
  <2>4. \A i \in 1..Len(t) : t[i] \in Members(s)
    BY <1>2 DEF Members
  <2> QED
    BY <2>2, <2>3, <2>4 DEF Members
<1>8. List(next, next[x], t)
  BY <1>3, <1>4, <1>5 DEF List
<1>9. x \in Members(s) /\ Members(t) = Members(s) \ {x}
  BY <1>6, <1>7
<1> QED
  BY <1>2, <1>8, <1>9

\* Without p, as agent_heartbeat_wheel_remove_locked links it.
LEMMA ListDrop ==
    ASSUME NEW next, NEW x, NEW s \in Seq(Slots), List(next, x, s),
           NEW p \in Members(s), NEW other, other[p] = None,
           \A q \in Slots \ {p} :
              other[q] = IF q \in Before(next, x, p) /\ next[q] = p
                         THEN next[p] ELSE next[q]
    PROVE  \E t \in Seq(Slots) :
              /\ List(other, IF x = p THEN next[p] ELSE x, t)
              /\ Members(t) = Members(s) \ {p}
<1>1. PICK j \in 1..Len(s) : s[j] = p
  BY DEF Members
<1> DEFINE m == Len(s) - 1
           t == [i \in 1..m |-> IF i < j THEN s[i] ELSE s[i + 1]]
<1>2. Len(s) \in Nat \ {0} /\ m \in Nat /\ j \in Nat
  BY <1>1
<1>3. \A i \in 1..Len(s) : s[i] \in Slots /\ (s[i] = p => i = j)
  BY <1>1 DEF List
<1>4. \A i \in 1..m : i \in 1..Len(s) /\ i + 1 \in 1..Len(s)
  BY <1>2
<1>5. t \in Seq(Slots) /\ Len(t) = m
  <2>1. t \in [1..m -> Slots]
    BY <1>3, <1>4
  <2> HIDE DEF t, m
  <2>2. t \in Seq(Slots)
    BY <1>2, <2>1
  <2> QED
    BY <1>2, <2>1, <2>2
<1>6. Before(next, x, p) = {s[i] : i \in 1..(j - 1)}
  BY <1>1, ListSeen
<1>7. ASSUME NEW i \in 1..Len(s), i # j
      PROVE  /\ s[i] \in Slots \ {p}
             /\ other[s[i]] = IF i + 1 = j THEN next[p]
                              ELSE IF i = Len(s) THEN None ELSE s[i + 1]
  <2>1. next[s[i]] = IF i = Len(s) THEN None ELSE s[i + 1]
    BY DEF List
  <2>2. s[i] \in Slots \ {p}
    BY <1>3, <1>7
  <2>3. other[s[i]] = IF s[i] \in Before(next, x, p) /\ next[s[i]] = p
                      THEN next[p] ELSE next[s[i]]
    BY <2>2
  <2>4. CASE i + 1 = j
    <3>1. i \in 1..(j - 1) /\ i # Len(s)
      BY <1>2, <2>4
    <3>2. s[i] \in Before(next, x, p) /\ next[s[i]] = p
      BY <1>1, <1>6, <2>1, <2>4, <3>1
    <3> QED
      BY <2>2, <2>3, <2>4, <3>2
  <2>5. CASE i + 1 # j
    <3>1. i # Len(s) => i + 1 \in 1..Len(s)
      BY <1>2
    <3>2. next[s[i]] # p
      BY <1>1, <1>3, <2>1, <2>5, <3>1, WheelAssumption
    <3> QED
      BY <2>1, <2>2, <2>3, <2>5, <3>2
  <2> QED
    BY <2>4, <2>5
<1>8. next[p] = IF j = Len(s) THEN None ELSE s[j + 1]
  BY <1>1 DEF List
<1>9. \A i \in 1..m : t[i] = IF i < j THEN s[i] ELSE s[i + 1]
  OBVIOUS
<1> HIDE DEF t
<1>10. ASSUME NEW i \in 1..m
       PROVE  other[t[i]] = IF i = m THEN None ELSE t[i + 1]
  <2>1. i # m => /\ i + 1 \in 1..m
                 /\ t[i + 1] = IF i + 1 < j THEN s[i + 1] ELSE s[(i + 1) + 1]
    BY <1>2, <1>9
  <2>2. CASE i < j
    <3>1. t[i] = s[i] /\ i \in 1..Len(s) /\ i # j /\ i # Len(s)
      BY <1>2, <1>9, <2>2
    <3>2. other[s[i]] = IF i + 1 = j THEN next[p] ELSE s[i + 1]
      BY <1>7, <3>1
    <3>3. CASE i + 1 = j
      <4>1. i = m <=> j = Len(s)
        BY <1>2, <3>3
      <4> QED
        BY <1>2, <1>8, <2>1, <3>1, <3>2, <3>3, <4>1
    <3>4. CASE i + 1 # j
      <4>1. i # m /\ i + 1 < j
        BY <1>2, <2>2, <3>4
      <4> QED
        BY <2>1, <3>1, <3>2, <3>4, <4>1
    <3> QED
      BY <3>3, <3>4
  <2>3. CASE ~(i < j)
    <3>1. t[i] = s[i + 1] /\ i + 1 \in 1..Len(s) /\ i + 1 # j /\ (i + 1) + 1 # j
      BY <1>2, <1>9, <2>3
    <3>2. other[s[i + 1]] = IF i + 1 = Len(s) THEN None ELSE s[(i + 1) + 1]
      BY <1>7, <3>1
    <3>3. (i = m <=> i + 1 = Len(s)) /\ ~(i + 1 < j)
      BY <1>2, <2>3
    <3> QED
      BY <2>1, <3>1, <3>2, <3>3
  <2> QED
    BY <2>2, <2>3
<1>11. ASSUME NEW i \in 1..m, NEW k \in 1..m, t[i] = t[k]
       PROVE  i = k
  <2>1. \A h \in 1..m : h < j => h \in 1..Len(s) /\ t[h] = s[h]
    BY <1>2, <1>9
  <2>2. \A h \in 1..m : ~(h < j) => h + 1 \in 1..Len(s) /\ t[h] = s[h + 1]
    BY <1>2, <1>9
  <2>3. \A a, b \in 1..Len(s) : s[a] = s[b] => a = b
    BY DEF List
  <2>4. CASE i < j /\ k < j
    BY <1>11, <2>1, <2>3, <2>4
  <2>5. CASE ~(i < j) /\ ~(k < j)
    <3>1. i + 1 = k + 1
      BY <1>11, <2>2, <2>3, <2>5
    <3> QED
      BY <3>1
  <2>6. CASE i < j /\ ~(k < j)
    <3>1. i = k + 1
      BY <1>11, <2>1, <2>2, <2>3, <2>6
    <3> QED
      BY <1>2, <2>6, <3>1
  <2>7. CASE ~(i < j) /\ k < j
    <3>1. k = i + 1
      BY <1>11, <2>1, <2>2, <2>3, <2>7
    <3> QED
      BY <1>2, <2>7, <3>1
  <2> QED
    BY <2>4, <2>5, <2>6, <2>7
<1>12. (IF x = p THEN next[p] ELSE x) = IF t = <<>> THEN None ELSE t[1]
  <2>1. s # <<>> /\ x = s[1] /\ 1 \in 1..Len(s)
    BY <1>2 DEF List
  <2>2. x = p <=> j = 1
    BY <1>1, <1>3, <2>1
  <2>3. t = <<>> <=> Len(s) = 1
    BY <1>2, <1>5
  <2>4. t # <<>> => t[1] = IF 1 < j THEN s[1] ELSE s[1 + 1]
    BY <1>2, <1>5, <1>9
  <2>5. CASE j = 1
    BY <1>2, <1>8, <2>2, <2>3, <2>4, <2>5
  <2>6. CASE j # 1
    <3>1. Len(s) # 1 /\ 1 < j
      BY <1>1, <1>2, <2>6
    <3> QED
      BY <2>1, <2>2, <2>3, <2>4, <2>6, <3>1
  <2> QED
    BY <2>5, <2>6
<1>13. Members(t) = Members(s) \ {p}
  <2>1. ASSUME NEW i \in 1..m PROVE t[i] \in Members(s) \ {p}
    <3>1. \E k \in 1..Len(s) : k # j /\ t[i] = s[k]
      <4>1. CASE i < j
        <5>1. i \in 1..Len(s) /\ i # j /\ t[i] = s[i]
          BY <1>2, <1>9, <4>1
        <5> QED
          BY <5>1
      <4>2. CASE ~(i < j)
        <5>1. i + 1 \in 1..Len(s) /\ i + 1 # j /\ t[i] = s[i + 1]
          BY <1>2, <1>9, <4>2
        <5> QED
          BY <5>1
      <4> QED
        BY <4>1, <4>2
    <3> QED
      BY <1>3, <3>1 DEF Members
  <2>2. ASSUME NEW i \in 1..Len(s), i # j PROVE s[i] \in Members(t)
    <3>1. CASE i < j
      <4>1. i \in 1..Len(t) /\ t[i] = s[i]
        BY <1>2, <1>5, <1>9, <3>1
      <4> QED
        BY <4>1 DEF Members
    <3>2. CASE ~(i < j)
      <4>1. i - 1 \in 1..Len(t) /\ ~(i - 1 < j) /\ (i - 1) + 1 = i
        BY <1>2, <1>5, <2>2, <3>2
      <4>2. t[i - 1] = s[i]
        BY <1>5, <1>9, <4>1
      <4> QED
        BY <4>1, <4>2 DEF Members
    <3> QED
      BY <3>1, <3>2
  <2>3. Members(t) \subseteq Members(s) \ {p}
    BY <1>5, <2>1 DEF Members
  <2>4. ASSUME NEW q \in Members(s) \ {p} PROVE q \in Members(t)
    <3>1. PICK i \in 1..Len(s) : q = s[i]
      BY DEF Members
    <3>2. i # j
      BY <1>1, <3>1
    <3> QED
      BY <2>2, <3>1, <3>2
  <2> QED
    BY <2>3, <2>4
<1>14. List(other, IF x = p THEN next[p] ELSE x, t)
  <2> HIDE DEF m
  <2> QED
    BY <1>5, <1>10, <1>11, <1>12, Zenon DEF List
<1> QED
  BY <1>5, <1>13, <1>14

----------------------------------------------------------------------------
\* The list of bucket b holds the processes that are marked for it.
Linked(w, b) ==
    \E s \in Seq(Slots) : /\ List(w.next, w.heads[b], s)
                          /\ Members(s) = {p \in Slots : w.bucket[p] = b}

Counted(w) == w.count = Cardinality({p \in Slots : w.bucket[p] # Off})

Sound(w) == (\A b \in 0..(Buckets - 1) : Linked(w, b)) /\ Counted(w)

\* What the loops over a sound list do.
LEMMA LinkedSeen ==
    ASSUME NEW w \in WheelType, NEW b \in 0..(Buckets - 1), Linked(w, b)
    PROVE  /\ Ends(w.next, w.heads[b])
           /\ OnList(w, b) = {p \in Slots : w.bucket[p] = b}
BY ListSeen DEF Linked, OnList

\* agent_heartbeat_wheel_remove_locked keeps the lists, and writes no link of
\* a process that is off the wheel.
LEMMA RemoveSound ==
    ASSUME NEW w \in WheelType, NEW p \in Slots, Sound(w)
    PROVE  /\ Sound(Remove(w, p))
           /\ \A q \in Slots : w.bucket[q] = Off => Remove(w, p).next[q] = w.next[q]
<1>1. CASE w.bucket[p] = Off
  BY <1>1 DEF Remove
<1>2. CASE w.bucket[p] # Off
  <2> DEFINE b == w.bucket[p]
             before == Before(w.next, w.heads[b], p)
             on == OnList(w, b)
             next == [q \in Slots |-> IF q = p THEN None
                                      ELSE IF q \in {r \in before : w.next[r] = p} THEN w.next[p]
                                      ELSE w.next[q]]
             heads == [w.heads EXCEPT ![b] = IF @ = p THEN w.next[p] ELSE @]
             r == Remove(w, p)
             S == {q \in Slots : w.bucket[q] # Off}
  <2>1. /\ r = [heads |-> heads, next |-> next,
                bucket |-> [w.bucket EXCEPT ![p] = Off],
                count |-> IF p \in on /\ w.count > 0 THEN w.count - 1 ELSE w.count]
    BY <1>2, Zenon DEF Remove
  <2>2. /\ b \in 0..(Buckets - 1)
        /\ w.heads \in [0..(Buckets - 1) -> Slots \cup {None}]
        /\ w.bucket \in [Slots -> (0..(Buckets - 1)) \cup {Off}]
        /\ w.count \in Nat
    BY <1>2 DEF WheelType
  <2>3. PICK s \in Seq(Slots) : /\ List(w.next, w.heads[b], s)
                                /\ Members(s) = {q \in Slots : w.bucket[q] = b}
    BY <2>2 DEF Sound, Linked
  <2>4. p \in on /\ before \subseteq Members(s) /\ p \in Members(s)
    <3>1. on = Members(s)
      BY <2>3, ListSeen DEF OnList
    <3>2. before \subseteq on
      BY DEF Before, OnList, From
    <3> QED
      BY <2>3, <3>1, <3>2
  <2>5. /\ r.heads = heads /\ r.next = next
        /\ r.bucket = [w.bucket EXCEPT ![p] = Off]
        /\ r.count = IF w.count > 0 THEN w.count - 1 ELSE w.count
    BY <2>1, <2>4
  <2> HIDE DEF r
  <2>6. \A q \in Slots : next[q] = IF q = p THEN None
                                   ELSE IF q \in before /\ w.next[q] = p THEN w.next[p]
                                   ELSE w.next[q]
    OBVIOUS
  <2> HIDE DEF next, on, before
  <2>7. \A q \in Slots : w.bucket[q] # b => next[q] = w.next[q]
    BY <2>3, <2>4, <2>6
  <2>8. ASSUME NEW c \in 0..(Buckets - 1), c # b
        PROVE  Linked(r, c)
    <3>1. PICK u \in Seq(Slots) : /\ List(w.next, w.heads[c], u)
                                  /\ Members(u) = {q \in Slots : w.bucket[q] = c}
      BY DEF Sound, Linked
    <3>2. \A q \in Members(u) : next[q] = w.next[q]
      BY <2>7, <2>8, <3>1
    <3>3. List(next, w.heads[c], u)
      BY <3>1, <3>2, ListKept
    <3>4. r.heads[c] = w.heads[c]
      BY <2>2, <2>5, <2>8
    <3>5. {q \in Slots : r.bucket[q] = c} = {q \in Slots : w.bucket[q] = c}
      <4>1. Off # c
        BY DEF Off
      <4> QED
        BY <2>2, <2>5, <2>8, <4>1
    <3> QED
      BY <2>5, <3>1, <3>3, <3>4, <3>5 DEF Linked
  <2>9. Linked(r, b)
    <3>1. next[p] = None
      BY <2>6
    <3>2. \A q \in Slots \ {p} :
             next[q] = IF q \in Before(w.next, w.heads[b], p) /\ w.next[q] = p
                       THEN w.next[p] ELSE w.next[q]
      BY <2>6 DEF before
    <3>3. PICK t \in Seq(Slots) :
             /\ List(next, IF w.heads[b] = p THEN w.next[p] ELSE w.heads[b], t)
             /\ Members(t) = Members(s) \ {p}
      BY <2>3, <2>4, <3>1, <3>2, ListDrop
    <3>4. r.heads[b] = IF w.heads[b] = p THEN w.next[p] ELSE w.heads[b]
      BY <2>2, <2>5
    <3>5. {q \in Slots : r.bucket[q] = b} = Members(s) \ {p}
      BY <1>2, <2>2, <2>3, <2>5
    <3> QED
      BY <2>5, <3>3, <3>4, <3>5 DEF Linked
  <2>10. Counted(r)
    <3>1. p \in S /\ IsFiniteSet(S)
      BY <1>2, FS_Subset, WheelAssumption
    <3>2. w.count = Cardinality(S)
      BY DEF Sound, Counted
    <3>3. {q \in Slots : r.bucket[q] # Off} = S \ {p}
      BY <2>2, <2>5
    <3> HIDE DEF S
    <3>4. Cardinality(S \ {p}) = Cardinality(S) - 1
      BY <3>1, FS_RemoveElement
    <3>5. Cardinality(S) > 0
      <4>1. S # {} /\ Cardinality(S) \in Nat
        BY <3>1, FS_CardinalityType
      <4>2. Cardinality(S) # 0
        BY <3>1, <4>1, FS_EmptySet
      <4> QED
        BY <4>1, <4>2
    <3> QED
      BY <2>5, <3>2, <3>3, <3>4, <3>5 DEF Counted
  <2>11. \A q \in Slots : w.bucket[q] = Off => r.next[q] = w.next[q]
    BY <1>2, <2>5, <2>7
  <2> QED
    BY <2>8, <2>9, <2>10, <2>11 DEF Sound, r
<1> QED
  BY <1>1, <1>2

\* So does inserting a process that is off the wheel.
LEMMA PushSound ==
    ASSUME NEW w \in WheelType, NEW p \in Slots, NEW b \in 0..(Buckets - 1),
           Sound(w), w.bucket[p] = Off
    PROVE  /\ Sound(Push(w, p, b))
           /\ \A q \in Slots \ {p} : Push(w, p, b).next[q] = w.next[q]
<1> DEFINE r == Push(w, p, b)
           S == {q \in Slots : w.bucket[q] # Off}
<1>1. /\ w.heads \in [0..(Buckets - 1) -> Slots \cup {None}]
      /\ w.next \in [Slots -> Slots \cup {None}]
      /\ w.bucket \in [Slots -> (0..(Buckets - 1)) \cup {Off}]
      /\ w.count \in Nat
      /\ b # Off
  BY DEF WheelType, Off
<1>2. /\ r.heads = [w.heads EXCEPT ![b] = p]
      /\ r.next = [w.next EXCEPT ![p] = w.heads[b]]
      /\ r.bucket = [w.bucket EXCEPT ![p] = b]
      /\ r.count = w.count + 1
  BY DEF Push
<1> HIDE DEF r
<1>3. /\ r.next[p] = w.heads[b]
      /\ \A q \in Slots \ {p} : r.next[q] = w.next[q]
  BY <1>1, <1>2
<1>4. ASSUME NEW c \in 0..(Buckets - 1)
      PROVE  Linked(r, c)
  <2>1. PICK s \in Seq(Slots) : /\ List(w.next, w.heads[c], s)
                                /\ Members(s) = {q \in Slots : w.bucket[q] = c}
    BY DEF Sound, Linked
  <2>2. p \in Slots \ Members(s) /\ c # Off
    BY <2>1, <1>1 DEF Off
  <2>3. \A q \in Members(s) : r.next[q] = w.next[q]
    BY <1>3, <2>1, <2>2
  <2>4. CASE c = b
    <3>1. PICK t \in Seq(Slots) : List(r.next, p, t) /\ Members(t) = Members(s) \cup {p}
      BY <1>3, <2>1, <2>2, <2>3, <2>4, ListPush
    <3>2. r.heads[c] = p
      BY <1>1, <1>2, <2>4
    <3>3. {q \in Slots : r.bucket[q] = c} = Members(s) \cup {p}
      BY <1>1, <1>2, <2>1, <2>4
    <3> QED
      BY <3>1, <3>2, <3>3 DEF Linked
  <2>5. CASE c # b
    <3>1. List(r.next, w.heads[c], s)
      BY <2>1, <2>3, ListKept
    <3>2. r.heads[c] = w.heads[c]
      BY <1>1, <1>2, <2>5
    <3>3. {q \in Slots : r.bucket[q] = c} = Members(s)
      BY <1>1, <1>2, <2>1, <2>2, <2>5
    <3> QED
      BY <3>1, <3>2, <3>3 DEF Linked
  <2> QED
    BY <2>4, <2>5
<1>5. Counted(r)
  <2>1. p \notin S /\ IsFiniteSet(S)
    BY FS_Subset, WheelAssumption
  <2>2. w.count = Cardinality(S)
    BY DEF Sound, Counted
  <2>3. {q \in Slots : r.bucket[q] # Off} = S \cup {p}
    BY <1>1, <1>2
  <2> HIDE DEF S
  <2>4. Cardinality(S \cup {p}) = Cardinality(S) + 1
    BY <2>1, FS_AddElement
  <2> QED
    BY <1>2, <2>2, <2>3, <2>4 DEF Counted
<1> QED
  BY <1>3, <1>4, <1>5 DEF Sound, r

----------------------------------------------------------------------------
LEMMA RescheduleSound ==
    ASSUME TypeOK, NEW p \in Slots, Reschedule(p), Sound(wheel)
    PROVE  /\ Sound(wheel')
           /\ \A q \in Slots \ {p} : wheel.bucket[q] = Off =>
                                        wheel'.next[q] = wheel.next[q]
<1> DEFINE r == Remove(wheel, p)
<1>1. wheel \in WheelType /\ deadline[p] \in Nat
  BY DEF TypeOK
<1>2. /\ r \in WheelType /\ r.bucket = [wheel.bucket EXCEPT ![p] = Off]
      /\ Sound(r)
      /\ \A q \in Slots : wheel.bucket[q] = Off => r.next[q] = wheel.next[q]
  BY <1>1, RemoveType, RemoveSound
<1>3. Bucket(deadline[p]) \in 0..(Buckets - 1)
  BY <1>1, BucketRange
<1>4. wheel' = IF Wanted(p) THEN Push(r, p, Bucket(deadline[p])) ELSE r
  BY Zenon DEF Reschedule
<1> HIDE DEF r
<1>5. r.bucket[p] = Off
  BY <1>1, <1>2 DEF WheelType
<1>6. CASE Wanted(p)
  <2>1. wheel' = Push(r, p, Bucket(deadline[p]))
    BY <1>4, <1>6
  <2>2. /\ Sound(wheel')
        /\ \A q \in Slots \ {p} : wheel'.next[q] = r.next[q]
    <3> DEFINE b == Bucket(deadline[p])
    <3> HIDE DEF b
    <3>1. b \in 0..(Buckets - 1) /\ wheel' = Push(r, p, b)
      BY <1>3, <2>1 DEF b
    <3>2. Sound(Push(r, p, b))
      BY <3>1, <1>2, <1>5, PushSound
    <3>3. \A q \in Slots \ {p} : Push(r, p, b).next[q] = r.next[q]
      BY <1>2 DEF Push, WheelType
    <3> QED
      BY <3>1, <3>2, <3>3
  <2> QED
    BY <2>2, <1>2
<1>7. CASE ~Wanted(p)
  BY <1>2, <1>4, <1>7
<1> QED
  BY <1>6, <1>7

\* Resetting the links of a slot that is off the wheel.
LEMMA ResetSound ==
    ASSUME TypeOK, NEW p \in Slots, ResetLinks(p), Sound(wheel),
           wheel.bucket[p] = Off
    PROVE  /\ Sound(wheel')
           /\ \A q \in Slots \ {p} : wheel'.next[q] = wheel.next[q]
<1>1. /\ wheel.next \in [Slots -> Slots \cup {None}]
      /\ wheel.bucket \in [Slots -> (0..(Buckets - 1)) \cup {Off}]
  BY DEF TypeOK, WheelType
<1>2. wheel' = [wheel EXCEPT !.next = [wheel.next EXCEPT ![p] = None],
                             !.bucket = [wheel.bucket EXCEPT ![p] = Off]]
  BY DEF ResetLinks, TypeOK, WheelType
<1>3. /\ wheel'.next = [wheel.next EXCEPT ![p] = None]
      /\ wheel'.bucket = [wheel.bucket EXCEPT ![p] = Off]
      /\ wheel'.heads = wheel.heads
      /\ wheel'.count = wheel.count
  BY <1>2 DEF TypeOK, WheelType
<1>4. wheel'.bucket = wheel.bucket
  BY <1>1, <1>3
<1>5. \A q \in Slots \ {p} : wheel'.next[q] = wheel.next[q]
  BY <1>1, <1>3
<1>6. ASSUME NEW c \in 0..(Buckets - 1)
      PROVE  Linked(wheel', c)
  <2>1. PICK s \in Seq(Slots) : /\ List(wheel.next, wheel.heads[c], s)
                                /\ Members(s) = {q \in Slots : wheel.bucket[q] = c}
    BY DEF Sound, Linked
  <2>2. \A q \in Members(s) : wheel'.next[q] = wheel.next[q]
    BY <1>5, <2>1 DEF Off
  <2>3. List(wheel'.next, wheel.heads[c], s)
    BY <2>1, <2>2, ListKept
  <2> QED
    BY <1>3, <1>4, <2>1, <2>3 DEF Linked
<1> QED
  BY <1>3, <1>4, <1>5, <1>6 DEF Sound, Counted

\* agent_tick takes one whole list off the wheel.
LEMMA DetachSound ==
    ASSUME TypeOK, TickDetach, Sound(wheel)
    PROVE  /\ Sound(wheel')
           /\ wheel'.next = wheel.next
           /\ cur' = wheel.heads[Bucket(now)]
           /\ Linked(wheel, Bucket(now))
           /\ \A p \in Slots : wheel'.bucket[p] = IF wheel.bucket[p] = Bucket(now)
                                                  THEN Off ELSE wheel.bucket[p]
<1> DEFINE b == Bucket(now)
           list == OnList(wheel, b)
           gone == Cardinality(list)
           bucket == [p \in Slots |-> IF p \in list THEN Off ELSE wheel.bucket[p]]
           count == IF wheel.count > gone THEN wheel.count - gone ELSE 0
           S == {p \in Slots : wheel.bucket[p] # Off}
<1>1. b \in 0..(Buckets - 1) /\ b # Off
  BY BucketRange DEF TypeOK, Off
<1>2. /\ wheel \in WheelType
      /\ wheel.heads \in [0..(Buckets - 1) -> Slots \cup {None}]
      /\ wheel.bucket \in [Slots -> (0..(Buckets - 1)) \cup {Off}]
      /\ wheel.count \in Nat
  BY DEF TypeOK, WheelType
<1>3. /\ wheel' = [heads |-> [wheel.heads EXCEPT ![b] = None],
                   next |-> wheel.next, bucket |-> bucket, count |-> count]
      /\ cur' = wheel.heads[b]
  BY Zenon DEF TickDetach, Bucket
<1>4. Linked(wheel, b)
  BY <1>1 DEF Sound
<1>5. list = {p \in Slots : wheel.bucket[p] = b}
  BY <1>1, <1>2, <1>4, LinkedSeen
<1>6. \A p \in Slots : bucket[p] = IF wheel.bucket[p] = b THEN Off ELSE wheel.bucket[p]
  BY <1>5
<1> HIDE DEF list, bucket, count, b
<1>7. /\ wheel'.heads = [wheel.heads EXCEPT ![b] = None] /\ wheel'.next = wheel.next
      /\ wheel'.bucket = bucket /\ wheel'.count = count
  BY <1>3
<1>8. ASSUME NEW c \in 0..(Buckets - 1)
      PROVE  Linked(wheel', c)
  <2>1. CASE c = b
    <3>1. wheel'.heads[c] = None
      BY <1>1, <1>2, <1>7, <2>1
    <3>2. List(wheel'.next, None, <<>>) /\ <<>> \in Seq(Slots) /\ Members(<<>>) = {}
      BY DEF List, Members
    <3>3. {p \in Slots : wheel'.bucket[p] = c} = {}
      BY <1>1, <1>6, <1>7, <2>1
    <3> QED
      BY <3>1, <3>2, <3>3 DEF Linked
  <2>2. CASE c # b
    <3>1. wheel'.heads[c] = wheel.heads[c] /\ Off # c
      BY <1>2, <1>7, <2>2 DEF Off
    <3>2. {p \in Slots : wheel'.bucket[p] = c} = {p \in Slots : wheel.bucket[p] = c}
      BY <1>6, <1>7, <2>2, <3>1
    <3>3. Linked(wheel, c)
      BY DEF Sound
    <3> QED
      BY <1>7, <3>1, <3>2, <3>3 DEF Linked
  <2> QED
    BY <2>1, <2>2
<1>9. Counted(wheel')
  <2>1. list \subseteq S /\ IsFiniteSet(S)
    BY <1>1, <1>5, FS_Subset, WheelAssumption
  <2>2. wheel.count = Cardinality(S)
    BY DEF Sound, Counted
  <2>3. {p \in Slots : wheel'.bucket[p] # Off} = S \ list
    BY <1>5, <1>6, <1>7
  <2> HIDE DEF S, gone
  <2>4. IsFiniteSet(list) /\ IsFiniteSet(S \ list) /\ S \cap list = list
    BY <2>1, FS_Subset, FS_Difference
  <2>5. Cardinality(S \ list) = Cardinality(S) - gone
    BY <2>1, <2>4, FS_Difference DEF gone
  <2>6. Cardinality(S \ list) \in Nat /\ gone \in Nat /\ Cardinality(S) \in Nat
    BY <2>1, <2>4, FS_CardinalityType DEF gone
  <2>7. count = Cardinality(S) - gone
    BY <2>2, <2>5, <2>6 DEF count
  <2> QED
    BY <1>7, <2>3, <2>5, <2>7 DEF Counted
<1> QED
  BY <1>3, <1>4, <1>6, <1>7, <1>8, <1>9 DEF Sound, b

-----------------------------------------------------------------------------

IsList(next, x) == \E s \in Seq(Slots) : List(next, x, s)

LEMMA FromKept ==
    ASSUME NEW next, NEW x, IsList(next, x), NEW other,
           \A q \in From(next, x) : other[q] = next[q]
    PROVE  IsList(other, x) /\ From(other, x) = From(next, x)
<1>1. PICK s \in Seq(Slots) : List(next, x, s)
  BY DEF IsList
<1>2. From(next, x) = Members(s)
  BY <1>1, ListSeen
<1>3. List(other, x, s)
  BY <1>1, <1>2, ListKept
<1>4. From(other, x) = Members(s)
  BY <1>3, ListSeen
<1> QED
  BY <1>2, <1>3, <1>4 DEF IsList

LEMMA FromPop ==
    ASSUME NEW next, NEW x \in Slots, IsList(next, x)
    PROVE  /\ IsList(next, next[x])
           /\ x \notin From(next, next[x])
           /\ From(next, x) = From(next, next[x]) \cup {x}
<1>1. PICK s \in Seq(Slots) : List(next, x, s)
  BY DEF IsList
<1>2. x \in Members(s) /\ \E t \in Seq(Slots) :
          List(next, next[x], t) /\ Members(t) = Members(s) \ {x}
  BY <1>1, ListPop
<1>3. PICK t \in Seq(Slots) : List(next, next[x], t) /\ Members(t) = Members(s) \ {x}
  BY <1>2
<1>4. From(next, x) = Members(s) /\ From(next, next[x]) = Members(t)
  BY <1>1, <1>3, ListSeen
<1>5. IsList(next, next[x])
  BY <1>3 DEF IsList
<1> QED
  BY <1>2, <1>3, <1>4, <1>5

LEMMA FromNone ==
    ASSUME NEW next
    PROVE  IsList(next, None) /\ From(next, None) = {}
<1>1. <<>> \in Seq(Slots) /\ List(next, None, <<>>) /\ Members(<<>>) = {}
  BY DEF List, Members
<1> QED
  BY <1>1, ListSeen DEF IsList

----------------------------------------------------------------------------
\* What agent_tick has taken off the wheel and not looked at yet.
Rest == IF tick = "walk" THEN cur ELSE nxt

\* That is a list of processes that are not on the wheel.
ChainInv ==
    tick \in {"walk", "look", "link"} =>
        /\ IsList(wheel.next, Rest)
        /\ tick # "walk" => cur \notin From(wheel.next, Rest)
        /\ \A p \in Detached : wheel.bucket[p] = Off

\* A process that has left, or is about to, is nowhere on a list.
AwayInv ==
    \A p \in Slots :
        /\ pc[p] # "user" => st[p] = "LIVE"
        /\ st[p] # "LIVE" \/ pc[p] = "leaving" =>
               wheel.bucket[p] = Off /\ p \notin Detached

\* The inductive invariant.
WheelInv == Sound(wheel) /\ ChainInv /\ AwayInv

NoOverlap == "set" \notin Races /\ "exit" \notin Races

LEMMA DetachedSlots == TypeOK => Detached \subseteq Slots
<1> SUFFICES ASSUME TypeOK PROVE Detached \subseteq Slots
  OBVIOUS
<1>1. From(wheel.next, cur) \subseteq Slots /\ From(wheel.next, nxt) \subseteq Slots
  BY DEF From
<1>2. tick \in {"look", "link"} => cur \in Slots
  BY DEF TypeOK
<1> QED
  BY <1>1, <1>2 DEF Detached

LEMMA DetachedIs ==
    Detached = IF tick = "walk" THEN From(wheel.next, Rest)
               ELSE IF tick \in {"look", "link"} THEN {cur} \cup From(wheel.next, Rest)
               ELSE {}
BY DEF Detached, Rest

\* A step that writes no link that agent_tick has before it.
LEMMA ChainKept ==
    ASSUME ChainInv, UNCHANGED <<tick, cur, nxt>>,
           \A q \in Detached : wheel'.bucket[q] = Off,
           \A q \in Detached : wheel'.next[q] = wheel.next[q]
    PROVE  ChainInv' /\ Detached' = Detached
<1>1. Rest' = Rest
  BY DEF Rest
<1>2. Detached' = IF tick' = "walk" THEN From(wheel'.next, Rest')
               ELSE IF tick' \in {"look", "link"} THEN {cur'} \cup From(wheel'.next, Rest')
               ELSE {}
  BY DEF Detached, Rest
<1>3. CASE tick \in {"walk", "look", "link"}
  <2>1. From(wheel.next, Rest) \subseteq Detached
    BY <1>3, DetachedIs
  <2>2. IsList(wheel.next, Rest) /\ \A q \in From(wheel.next, Rest) : wheel'.next[q] = wheel.next[q]
    BY <1>3, <2>1 DEF ChainInv
  <2>3. IsList(wheel'.next, Rest) /\ From(wheel'.next, Rest) = From(wheel.next, Rest)
    BY <2>2, FromKept
  <2>4. Detached' = Detached
    BY <1>1, <1>2, <2>3, DetachedIs
  <2> QED
    BY <1>1, <1>3, <2>3, <2>4 DEF ChainInv
<1>4. CASE tick \notin {"walk", "look", "link"}
  BY <1>2, <1>4, DetachedIs DEF ChainInv
<1> QED
  BY <1>3, <1>4

\* A step of p leaves the marks of the others, and agent_tick, alone.
Others(p) ==
    /\ UNCHANGED <<tick, cur, nxt>>
    /\ \A q \in Slots \ {p} : /\ wheel'.bucket[q] = wheel.bucket[q]
                              /\ st'[q] = st[q]
                              /\ pc'[q] = pc[q]

LEMMA OneCall ==
    ASSUME TypeOK, WheelInv, NEW p \in Slots, UNCHANGED <<tick, cur, nxt>>,
           Sound(wheel'),
           \A q \in Detached : wheel'.bucket[q] = Off,
           \A q \in Detached : wheel'.next[q] = wheel.next[q],
           \A q \in Slots \ {p} : /\ wheel'.bucket[q] = wheel.bucket[q]
                                  /\ st'[q] = st[q]
                                  /\ pc'[q] = pc[q],
           pc'[p] # "user" => st'[p] = "LIVE",
           st'[p] # "LIVE" \/ pc'[p] = "leaving" =>
               wheel'.bucket[p] = Off /\ p \notin Detached
    PROVE  WheelInv' /\ Detached' = Detached /\ Others(p)
<1>1. ChainInv' /\ Detached' = Detached
  BY ChainKept DEF WheelInv
<1>2. AwayInv'
  BY <1>1 DEF AwayInv, WheelInv
<1> QED
  BY <1>1, <1>2 DEF WheelInv, Others

\* The parts that the steps use.
LEMMA WheelFacts ==
    ASSUME TypeOK, WheelInv
    PROVE  /\ wheel \in WheelType
           /\ wheel.bucket \in [Slots -> (0..(Buckets - 1)) \cup {Off}]
           /\ Detached \subseteq Slots
           /\ Sound(wheel)
           /\ \A q \in Detached : wheel.bucket[q] = Off
           /\ \A q \in Slots :
                 /\ pc[q] # "user" => st[q] = "LIVE"
                 /\ st[q] # "LIVE" \/ pc[q] = "leaving" =>
                        wheel.bucket[q] = Off /\ q \notin Detached
<1>1. wheel \in WheelType /\ wheel.bucket \in [Slots -> (0..(Buckets - 1)) \cup {Off}]
  BY DEF TypeOK, WheelType
<1>2. \A q \in Detached : wheel.bucket[q] = Off
  BY DEF WheelInv, ChainInv, Detached
<1> QED
  BY <1>1, <1>2, DetachedSlots DEF WheelInv, AwayInv

\* The calls of a process.
Call(p) ==
    \/ Fork(p) \/ CreateRemove(p) \/ CreateSet(p) \/ CreateLink(p)
    \/ SetFields(p) \/ SetLink(p) \/ StopRemove(p) \/ StopFields(p)
    \/ WaitDone(p) \/ WaitEnter(p) \/ WaitReturn(p) \/ Cascade(p)
    \/ ExitRemove(p) \/ ExitZombie(p) \/ Reap(p)

LEMMA CallStep ==
    ASSUME TypeOK, WheelInv, NoOverlap, NEW p \in Slots, Call(p)
    PROVE  WheelInv' /\ Detached' = Detached /\ Others(p)
<1> USE DEF procVars, beatVars, tickVars, Goto
<1>w. /\ wheel \in WheelType
      /\ wheel.bucket \in [Slots -> (0..(Buckets - 1)) \cup {Off}]
      /\ pc \in [Slots -> {"user", "made", "marked", "armed", "stopping",
                         "waiting", "leaving"}]
      /\ st \in [Slots -> {"UNUSED", "LIVE", "ZOMBIE"}]
      /\ tick \in {"idle", "detach", "walk", "look", "link"}
  BY DEF TypeOK, WheelType
<1>1. ASSUME NEW s \in {"UNUSED", "LIVE"}, NEW a \in BOOLEAN,
             Reset(p, s, a), st[p] # "LIVE"
      PROVE  WheelInv' /\ Detached' = Detached /\ Others(p)
  <2>1. wheel.bucket[p] = Off /\ p \notin Detached /\ pc[p] = "user"
    BY WheelFacts, <1>1
  <2>2. /\ wheel'.bucket = wheel.bucket /\ Sound(wheel')
        /\ \A q \in Slots \ {p} : wheel'.next[q] = wheel.next[q]
    BY WheelFacts, <1>1, <1>w, <2>1, ResetLinksType, ResetSound DEF Reset
  <2>3. /\ UNCHANGED <<tick, cur, nxt, pc>>
        /\ \A q \in Slots \ {p} : st'[q] = st[q]
    BY <1>1, <1>w DEF Reset
  <2> QED
    BY WheelFacts, <2>1, <2>2, <2>3, OneCall
<1>2. ASSUME CreateRemove(p) \/ StopRemove(p) \/ ExitRemove(p)
      PROVE  WheelInv' /\ Detached' = Detached /\ Others(p)
  <2>1. wheel' = Remove(wheel, p)
    BY <1>2 DEF CreateRemove, StopRemove, ExitRemove
  <2>2. /\ wheel'.bucket = [wheel.bucket EXCEPT ![p] = Off] /\ Sound(wheel')
        /\ \A q \in Slots : wheel.bucket[q] = Off => wheel'.next[q] = wheel.next[q]
    BY WheelFacts, <1>w, <2>1, RemoveType, RemoveSound
  <2>3. UNCHANGED <<tick, cur, nxt, st>> /\ st[p] = "LIVE"
        /\ \A q \in Slots \ {p} : pc'[q] = pc[q]
    BY <1>2, <1>w DEF CreateRemove, StopRemove, ExitRemove, AgentCalling, Calling
  <2>4. /\ pc[p] = "user"
        /\ pc'[p] = "leaving" => p \notin Detached
    BY <1>2, <1>w DEF CreateRemove, StopRemove, ExitRemove, AgentCalling, Calling,
                      Apart, NoOverlap
  <2>5. wheel'.bucket[p] = Off /\ \A q \in Slots \ {p} : wheel'.bucket[q] = wheel.bucket[q]
    BY <1>w, <2>2
  <2> QED
    BY WheelFacts, <2>2, <2>3, <2>4, <2>5, OneCall
<1>3. ASSUME \/ CreateSet(p) \/ SetFields(p) \/ StopFields(p) \/ WaitDone(p)
             \/ WaitEnter(p) \/ WaitReturn(p) \/ Cascade(p)
      PROVE  WheelInv' /\ Detached' = Detached /\ Others(p)
  <2>1. UNCHANGED <<wheel, tick, cur, nxt, st>> /\ \A q \in Slots \ {p} : pc'[q] = pc[q]
    BY <1>3, <1>w DEF CreateSet, SetFields, StopFields, WaitDone, WaitEnter, WaitReturn, Cascade
  <2>2. \/ pc'[p] = pc[p]
        \/ st[p] = "LIVE" /\ pc'[p] # "leaving"
    BY WheelFacts, <1>3, <1>w DEF CreateSet, SetFields, StopFields, WaitDone, WaitEnter,
                            WaitReturn, Cascade, AgentCalling, Calling
  <2>3. ASSUME pc'[p] # "user" PROVE st'[p] = "LIVE"
    BY WheelFacts, <2>1, <2>2, <2>3
  <2>4. ASSUME st'[p] # "LIVE" \/ pc'[p] = "leaving"
        PROVE  wheel'.bucket[p] = Off /\ p \notin Detached
    BY WheelFacts, <2>1, <2>2, <2>4
  <2> QED
    BY WheelFacts, <2>1, <2>3, <2>4, OneCall
<1>4. ASSUME CreateLink(p) \/ SetLink(p)
      PROVE  WheelInv' /\ Detached' = Detached /\ Others(p)
  <2>1. /\ UNCHANGED <<tick, cur, nxt, st>> /\ st[p] = "LIVE" /\ pc'[p] = "user"
        /\ \A q \in Slots \ {p} : pc'[q] = pc[q]
    BY WheelFacts, <1>4, <1>w DEF CreateLink, SetLink
  <2>2. CASE Reschedule(p) /\ p \notin Detached
    <3>1. /\ Sound(wheel')
          /\ \A q \in Slots \ {p} : wheel.bucket[q] = Off =>
                                       wheel'.next[q] = wheel.next[q]
      BY WheelFacts, <2>2, RescheduleSound
    <3>2. \A q \in Slots \ {p} : wheel'.bucket[q] = wheel.bucket[q]
      BY <1>w, <2>2, RescheduleType
    <3> QED
      BY WheelFacts, <2>1, <2>2, <3>1, <3>2, OneCall
  <2>3. CASE UNCHANGED wheel
    BY WheelFacts, <2>1, <2>3, OneCall
  <2> QED
    BY <1>4, <2>2, <2>3 DEF CreateLink, SetLink, Apart, NoOverlap
<1>5. ASSUME ExitZombie(p)
      PROVE  WheelInv' /\ Detached' = Detached /\ Others(p)
  <2>1. /\ UNCHANGED <<wheel, tick, cur, nxt>> /\ pc[p] = "leaving" /\ pc'[p] = "user"
        /\ \A q \in Slots \ {p} : pc'[q] = pc[q] /\ st'[q] = st[q]
    BY <1>5, <1>w DEF ExitZombie
  <2> QED
    BY WheelFacts, <2>1, OneCall
<1> QED
  BY <1>1, <1>2, <1>3, <1>4, <1>5 DEF Call, Fork, Reap

\* The list of the tick's bucket comes before agent_tick.
LEMMA DetachStep ==
    ASSUME TypeOK, WheelInv, TickDetach
    PROVE  /\ WheelInv'
           /\ Detached' = {q \in Slots : wheel.bucket[q] = Bucket(now)}
           /\ \A p \in Slots : wheel'.bucket[p] = IF wheel.bucket[p] = Bucket(now)
                                                  THEN Off ELSE wheel.bucket[p]
<1> USE DEF procVars, beatVars, tickVars, Goto
<1>1. /\ UNCHANGED <<st, pc>> /\ tick = "detach" /\ tick' = "walk"
  BY DEF TickDetach
<1>2. /\ Sound(wheel')
      /\ wheel'.next = wheel.next
      /\ cur' = wheel.heads[Bucket(now)]
      /\ Linked(wheel, Bucket(now))
      /\ \A p \in Slots : wheel'.bucket[p] = IF wheel.bucket[p] = Bucket(now)
                                             THEN Off ELSE wheel.bucket[p]
  BY WheelFacts, DetachSound
<1>3. PICK s \in Seq(Slots) : /\ List(wheel'.next, cur', s)
                              /\ Members(s) = {p \in Slots : wheel.bucket[p] = Bucket(now)}
  BY <1>2 DEF Linked
<1>4. From(wheel'.next, cur') = {p \in Slots : wheel.bucket[p] = Bucket(now)}
  BY <1>3, ListSeen
<1>5. IsList(wheel'.next, cur')
  BY <1>3 DEF IsList
<1>6. Detached' = {p \in Slots : wheel.bucket[p] = Bucket(now)} /\ Rest' = cur'
  BY <1>1, <1>4 DEF Detached, Rest
<1>7. ChainInv'
  BY <1>1, <1>2, <1>5, <1>6 DEF ChainInv
<1>8. Bucket(now) # Off
  BY BucketRange DEF TypeOK, Off
<1>9. AwayInv'
  BY WheelFacts, <1>1, <1>2, <1>6, <1>8 DEF AwayInv
<1> QED
  BY <1>2, <1>7, <1>9, <1>6 DEF WheelInv

\* agent_tick goes on to the next.
LEMMA NextStep ==
    ASSUME TypeOK, WheelInv, TickNext
    PROVE  WheelInv' /\ Detached' = Detached
<1> USE DEF procVars, beatVars, tickVars, Goto
<1>1. /\ UNCHANGED <<st, pc, wheel, cur>> /\ tick = "walk" /\ tick' = "look"
      /\ cur \in Slots /\ nxt' = wheel.next[cur]
  BY DEF TickNext, TypeOK
<1>2. IsList(wheel.next, cur)
  BY <1>1 DEF WheelInv, ChainInv, Rest
<1>3. /\ IsList(wheel.next, nxt') /\ cur \notin From(wheel.next, nxt')
      /\ From(wheel.next, cur) = From(wheel.next, nxt') \cup {cur}
  BY <1>1, <1>2, FromPop
<1>4. Detached' = Detached /\ Rest' = nxt'
  BY <1>1, <1>3 DEF Detached, Rest
<1>5. ChainInv'
  BY WheelFacts, <1>1, <1>3, <1>4 DEF ChainInv
<1> QED
  BY WheelFacts, <1>1, <1>4, <1>5 DEF WheelInv, AwayInv

\* It cuts the link of its current.
LEMMA LookStep ==
    ASSUME TypeOK, WheelInv, TickLook
    PROVE  WheelInv' /\ Detached' = Detached
<1> USE DEF procVars, beatVars, tickVars, Goto
<1>1. /\ UNCHANGED <<st, pc, cur, nxt>> /\ tick = "look" /\ tick' = "link"
      /\ cur \in Slots /\ wheel' = [wheel EXCEPT !.next = [wheel.next EXCEPT ![cur] = None]]
  BY DEF TickLook, TypeOK, WheelType
<1>2. /\ wheel'.bucket = wheel.bucket /\ wheel'.heads = wheel.heads
      /\ wheel'.count = wheel.count
      /\ \A q \in Slots \ {cur} : wheel'.next[q] = wheel.next[q]
  BY WheelFacts, <1>1 DEF WheelType
<1>3. /\ IsList(wheel.next, nxt) /\ cur \notin From(wheel.next, nxt)
      /\ wheel.bucket[cur] = Off
  BY <1>1 DEF WheelInv, ChainInv, Rest, Detached
<1>4. From(wheel.next, nxt) \subseteq Slots
  BY DEF From
<1>5. /\ IsList(wheel'.next, nxt)
      /\ From(wheel'.next, nxt) = From(wheel.next, nxt)
  BY <1>2, <1>3, <1>4, FromKept
<1>6. Detached' = Detached /\ Rest' = nxt
  BY <1>1, <1>5 DEF Detached, Rest
<1>7. ChainInv'
  BY WheelFacts, <1>1, <1>2, <1>3, <1>5, <1>6 DEF ChainInv
<1>8. ASSUME NEW c \in 0..(Buckets - 1) PROVE Linked(wheel', c)
  <2>1. PICK s \in Seq(Slots) : /\ List(wheel.next, wheel.heads[c], s)
                                /\ Members(s) = {q \in Slots : wheel.bucket[q] = c}
    BY WheelFacts DEF Sound, Linked
  <2>2. \A q \in Members(s) : wheel'.next[q] = wheel.next[q]
    BY <1>2, <1>3, <2>1 DEF Off
  <2>3. List(wheel'.next, wheel.heads[c], s)
    BY <2>1, <2>2, ListKept
  <2> QED
    BY <1>2, <2>1, <2>3 DEF Linked
<1>9. Sound(wheel')
  BY WheelFacts, <1>2, <1>8 DEF Sound, Counted
<1> QED
  BY WheelFacts, <1>1, <1>2, <1>6, <1>7, <1>9 DEF WheelInv, AwayInv

\* It puts its current back, and only that.
LEMMA LinkStep ==
    ASSUME TypeOK, WheelInv, TickLink
    PROVE  /\ WheelInv'
           /\ cur \in Detached /\ Detached' = Detached \ {cur}
           /\ \A q \in Slots \ {cur} : wheel'.bucket[q] = wheel.bucket[q]
<1> USE DEF procVars, beatVars, tickVars, Goto
<1>1. /\ UNCHANGED <<st, pc>> /\ tick = "link" /\ tick' = "walk"
      /\ cur \in Slots /\ cur' = nxt
  BY DEF TickLink, TypeOK
<1>2. /\ IsList(wheel.next, nxt) /\ cur \notin From(wheel.next, nxt)
      /\ wheel.bucket[cur] = Off /\ cur \in Detached
      /\ From(wheel.next, nxt) \subseteq Detached
  BY <1>1 DEF WheelInv, ChainInv, Rest, Detached
<1>3. /\ Sound(wheel')
      /\ \A q \in Slots \ {cur} : wheel.bucket[q] = Off => wheel'.next[q] = wheel.next[q]
      /\ \A q \in Slots \ {cur} : wheel'.bucket[q] = wheel.bucket[q]
  <2>1. CASE Reschedule(cur)
    BY WheelFacts, <1>1, <2>1, RescheduleSound, RescheduleType
  <2>2. CASE UNCHANGED wheel
    BY WheelFacts, <2>2
  <2> QED
    BY <2>1, <2>2 DEF TickLink
<1>4. \A q \in From(wheel.next, nxt) : q # cur /\ q \in Slots /\ wheel.bucket[q] = Off
  BY WheelFacts, <1>2
<1>5. /\ IsList(wheel'.next, nxt)
      /\ From(wheel'.next, nxt) = From(wheel.next, nxt)
  BY <1>2, <1>3, <1>4, FromKept
<1>6. Detached' = From(wheel.next, nxt) /\ Rest' = nxt
  BY <1>1, <1>5 DEF Detached, Rest
<1>7. ChainInv'
  BY <1>1, <1>3, <1>4, <1>5, <1>6 DEF ChainInv
<1>8. st[cur] = "LIVE" /\ pc[cur] # "leaving"
  BY WheelFacts, <1>1, <1>2
<1>9. AwayInv'
  BY WheelFacts, <1>1, <1>2, <1>3, <1>6, <1>8 DEF AwayInv
<1>10. Detached' = Detached \ {cur}
  BY <1>1, <1>2, <1>6 DEF Detached
<1> QED
  BY <1>2, <1>3, <1>10, <1>7, <1>9 DEF WheelInv

\* At the end there is nothing left before it.
LEMMA EndStep ==
    ASSUME TypeOK, WheelInv, TickEnd
    PROVE  WheelInv' /\ Detached = {} /\ Detached' = {}
<1> USE DEF procVars, beatVars, tickVars, Goto
<1>1. UNCHANGED <<st, pc, wheel, cur>> /\ tick = "walk" /\ tick' = "idle" /\ cur = None
  BY DEF TickEnd
<1>2. Detached = {} /\ Detached' = {}
  BY <1>1, FromNone DEF Detached
<1> QED
  BY WheelFacts, <1>1, <1>2 DEF WheelInv, ChainInv, AwayInv

LEMMA WheelStep ==
    ASSUME TypeOK, WheelInv, [Next]_vars, NoOverlap
    PROVE  WheelInv'
<1> USE DEF procVars, beatVars, tickVars, Goto
<1>6. CASE Tick \/ UNCHANGED vars
  <2>1. UNCHANGED <<wheel, st, pc, cur, nxt>>
    BY <1>6 DEF Tick, vars
  <2>2. CASE Tick
    <3>1. tick = "idle" /\ tick' = "detach"
      BY <2>2 DEF Tick
    <3>2. Detached = {} /\ Detached' = {}
      BY <3>1 DEF Detached
    <3> QED
      BY WheelFacts, <2>1, <3>1, <3>2 DEF WheelInv, ChainInv, AwayInv
  <2>3. CASE UNCHANGED vars
    <3>1. UNCHANGED tick
      BY <2>3 DEF vars
    <3> QED
      BY WheelFacts, <2>1, <3>1, ChainKept DEF WheelInv, AwayInv
  <2> QED
    BY <1>6, <2>2, <2>3
<1> QED
  BY <1>6, CallStep, DetachStep, NextStep, LookStep, LinkStep, EndStep DEF Next, Call

----------------------------------------------------------------------------
LEMMA WheelInit ==
    Init => WheelInv
<1> SUFFICES ASSUME Init PROVE WheelInv
  OBVIOUS
<1>1. /\ wheel.heads = [b \in 0..(Buckets - 1) |-> None]
      /\ wheel.bucket = [p \in Slots |-> Off] /\ wheel.count = 0
      /\ tick = "idle"
      /\ \A p \in Slots : pc[p] = "user"
  BY DEF Init
<1>2. ASSUME NEW b \in 0..(Buckets - 1) PROVE Linked(wheel, b)
  <2>1. <<>> \in Seq(Slots) /\ List(wheel.next, None, <<>>) /\ Members(<<>>) = {}
    BY DEF List, Members
  <2>2. {p \in Slots : wheel.bucket[p] = b} = {} /\ wheel.heads[b] = None
    BY <1>1 DEF Off
  <2> QED
    BY <2>1, <2>2 DEF Linked
<1>3. Counted(wheel)
  <2>1. {p \in Slots : wheel.bucket[p] # Off} = {}
    BY <1>1
  <2> QED
    BY <1>1, <2>1, FS_EmptySet DEF Counted
<1>4. Detached = {}
  BY <1>1 DEF Detached
<1> QED
  BY <1>1, <1>2, <1>3, <1>4 DEF WheelInv, Sound, ChainInv, AwayInv

LEMMA SoundWheel ==
    TypeOK /\ WheelInv => WheelSound
<1> SUFFICES ASSUME TypeOK, WheelInv PROVE WheelSound
  OBVIOUS
<1>1. \A b \in 0..(Buckets - 1) :
        /\ Ends(wheel.next, wheel.heads[b])
        /\ OnList(wheel, b) = {p \in Slots : wheel.bucket[p] = b}
  BY LinkedSeen DEF TypeOK, WheelInv, Sound
<1> QED
  BY <1>1 DEF WheelSound, ListsEnd, WheelInv, Sound, Counted

\* As long as no process leaves, and none changes its heartbeat, in the very
\* moment in which agent_tick has it off the wheel, inserting, removing and
\* detaching keep the lists apart, without cycles, and counted
\* (agent_loop.c 87-145): every loop over them ends.
THEOREM WheelStaysSound ==
    ASSUME NoOverlap
    PROVE  Spec => []WheelSound
<1>1. TypeOK /\ WheelInv /\ [Next]_vars => TypeOK' /\ WheelInv'
  BY TypeStep, WheelStep
<1> QED
  BY InitType, WheelInit, <1>1, SoundWheel, PTL DEF Spec

-----------------------------------------------------------------------------

\* A deadline is ahead, except for what agent_tick has yet to come to in this
\* tick.
Ahead(p) ==
    \/ deadline[p] > now
    \/ deadline[p] = now /\ (tick = "detach" \/ (p \in Detached /\ ~Locked(p)))

\* Why no heartbeat is missed: an agent whose heartbeat is on is on the wheel
\* or before agent_tick; one that is about to link itself still has time; and
\* one whose loop is DONE has no heartbeat to come back to.
BeatOf(p) ==
    /\ p \in done => interval[p] = 0
    /\ pc[p] \in {"marked", "armed"} /\ Wanted(p) => deadline[p] > now
    /\ st[p] = "LIVE" /\ pc[p] \in {"user", "waiting"} /\ Wanted(p) =>
           (wheel.bucket[p] # Off \/ p \in Detached) /\ Ahead(p)

BeatInv == \A p \in Slots : BeatOf(p)

\* A step of p leaves the others as they are.
LEMMA OthersBeat ==
    ASSUME NEW p \in Slots, BeatInv, Others(p), Detached' = Detached,
           UNCHANGED now,
           \A q \in Slots \ {p} : /\ interval'[q] = interval[q]
                                  /\ deadline'[q] = deadline[q]
                                  /\ q \in agent' <=> q \in agent
                                  /\ q \in done' <=> q \in done,
           BeatOf(p)'
    PROVE  BeatInv'
<1> SUFFICES ASSUME NEW q \in Slots PROVE BeatOf(q)'
  BY DEF BeatInv
<1>1. CASE q = p
  BY <1>1
<1>2. CASE q # p
  <2>1. BeatOf(q) /\ q \in Slots \ {p}
    BY <1>2 DEF BeatInv
  <2>2. Wanted(q)' <=> Wanted(q)
    BY <2>1 DEF Wanted, Others
  <2>3. Ahead(q)' <=> Ahead(q)
    BY <2>1 DEF Ahead, Locked, Others
  <2> QED
    BY <2>1, <2>2, <2>3 DEF BeatOf, Others
<1> QED
  BY <1>1, <1>2

LEMMA BeatCall ==
    ASSUME TypeOK, WheelInv, BeatInv, Races = {}, NEW p \in Slots, Call(p)
    PROVE  BeatInv'
<1> USE DEF procVars, beatVars, tickVars, Goto
<1>1. NoOverlap
  BY DEF NoOverlap
<1>2. Detached' = Detached /\ Others(p)
  BY <1>1, CallStep
<1>3. /\ st \in [Slots -> {"UNUSED", "LIVE", "ZOMBIE"}]
      /\ interval \in [Slots -> Nat] /\ deadline \in [Slots -> Nat] /\ now \in Nat
      /\ pc \in [Slots -> {"user", "made", "marked", "armed", "stopping",
                         "waiting", "leaving"}]
      /\ wheel.bucket \in [Slots -> (0..(Buckets - 1)) \cup {Off}]
  BY DEF TypeOK, WheelType
<1>4. /\ UNCHANGED now
      /\ \A q \in Slots \ {p} : /\ interval'[q] = interval[q]
                                /\ deadline'[q] = deadline[q]
                                /\ q \in agent' <=> q \in agent
                                /\ q \in done' <=> q \in done
  BY <1>3 DEF Call, Fork, Reset, CreateRemove, CreateSet, CreateLink, SetFields,
              SetLink, StopRemove, StopFields, WaitDone, WaitEnter, WaitReturn,
              Cascade, ExitRemove, ExitZombie, Reap
<1>5. BeatOf(p)
  BY DEF BeatInv
<1>6. CASE Fork(p) \/ Reap(p) \/ StopFields(p) \/ WaitDone(p) \/ Cascade(p)
  <2>1. interval'[p] = 0
    BY <1>3, <1>6 DEF Fork, Reap, Reset, StopFields, WaitDone, Cascade
  <2>2. BeatOf(p)'
    BY <2>1 DEF BeatOf, Wanted
  <2> QED
    BY <1>2, <1>4, <2>2, OthersBeat
<1>7. CASE CreateRemove(p) \/ StopRemove(p) \/ ExitRemove(p)
  <2>1. /\ pc'[p] \in {"made", "stopping", "leaving"}
        /\ UNCHANGED <<interval, done>>
    BY <1>3, <1>7 DEF CreateRemove, StopRemove, ExitRemove, AgentCalling, Calling
  <2>2. BeatOf(p)'
    BY <1>5, <2>1 DEF BeatOf
  <2> QED
    BY <1>2, <1>4, <2>2, OthersBeat
<1>8. CASE CreateSet(p) \/ SetFields(p)
  <2>1. /\ pc'[p] \in {"marked", "armed"} /\ p \notin done'
        /\ interval'[p] = 0 \/ deadline'[p] > now
    <3>1. \A i \in Intervals : i \in Nat \ {0}
      BY WheelAssumption
    <3>2. CASE CreateSet(p)
      BY <1>3, <3>1, <3>2 DEF CreateSet
    <3>3. CASE SetFields(p)
      <4>1. p \notin done /\ done' = done
        BY <3>3 DEF SetFields
      <4>2. PICK i \in Intervals : deadline'[p] = now + i + 1
        BY <1>3, <3>3 DEF SetFields
      <4>3. pc'[p] = "armed"
        BY <1>3, <3>3 DEF SetFields
      <4> QED
        BY <1>3, <3>1, <4>1, <4>2, <4>3
    <3> QED
      BY <1>8, <3>2, <3>3
  <2>2. BeatOf(p)'
    BY <1>4, <2>1 DEF BeatOf, Wanted
  <2> QED
    BY <1>2, <1>4, <2>2, OthersBeat
<1>9. CASE CreateLink(p) \/ SetLink(p)
  <2>1. /\ UNCHANGED <<st, agent, done, interval, deadline>>
        /\ pc[p] \in {"marked", "armed"} /\ pc'[p] = "user"
        /\ Reschedule(p) \/ interval[p] = 0
    BY <1>3, <1>9 DEF CreateLink, SetLink
  <2>2. Wanted(p)' <=> Wanted(p)
    BY <2>1 DEF Wanted
  <2>3. Wanted(p) => deadline[p] > now /\ wheel'.bucket[p] # Off
    <3> SUFFICES ASSUME Wanted(p) PROVE deadline[p] > now /\ wheel'.bucket[p] # Off
      OBVIOUS
    <3>1. deadline[p] > now
      BY <1>5, <2>1 DEF BeatOf
    <3>2. Reschedule(p)
      BY <2>1 DEF Wanted
    <3>3. wheel'.bucket[p] = Bucket(deadline[p])
      BY <1>3, <3>2, RescheduleType
    <3> QED
      BY <1>3, <3>1, <3>3, BucketRange DEF Off
  <2>4. BeatOf(p)'
    BY <1>4, <1>5, <2>1, <2>2, <2>3 DEF BeatOf, Ahead
  <2> QED
    BY <1>2, <1>4, <2>4, OthersBeat
<1>10. CASE WaitEnter(p) \/ WaitReturn(p)
  <2>1. /\ UNCHANGED <<st, agent, interval, deadline, wheel>>
        /\ pc[p] \in {"user", "waiting"}
        /\ p \in done' => p \in done
        /\ done' = done \/ done' = done \ {p}
    BY <1>3, <1>10 DEF WaitEnter, WaitReturn, AgentCalling, Calling
  <2>2. Wanted(p)' => Wanted(p)
    BY <1>5, <2>1 DEF Wanted, BeatOf
  <2>3. Ahead(p)' <=> Ahead(p)
    BY <1>2, <1>4, <2>1 DEF Ahead, Locked, Others
  <2>4. pc'[p] \in {"user", "waiting"}
    BY <1>3, <1>10 DEF WaitEnter, WaitReturn
  <2>5. BeatOf(p)'
    BY <1>2, <1>5, <2>1, <2>2, <2>3, <2>4 DEF BeatOf
  <2> QED
    BY <1>2, <1>4, <2>5, OthersBeat
<1>11. CASE ExitZombie(p)
  <2>1. st'[p] = "ZOMBIE" /\ pc'[p] = "user" /\ UNCHANGED <<interval, done>>
    BY <1>3, <1>11 DEF ExitZombie
  <2>2. BeatOf(p)'
    BY <1>5, <2>1 DEF BeatOf
  <2> QED
    BY <1>2, <1>4, <2>2, OthersBeat
<1> QED
  BY <1>6, <1>7, <1>8, <1>9, <1>10, <1>11 DEF Call

LEMMA BeatStep ==
    ASSUME TypeOK, WheelInv, BucketInv, BeatInv, Races = {}, [Next]_vars
    PROVE  BeatInv'
<1> USE DEF procVars, beatVars, tickVars
<1>1. /\ interval \in [Slots -> Nat] /\ deadline \in [Slots -> Nat] /\ now \in Nat
      /\ wheel.bucket \in [Slots -> (0..(Buckets - 1)) \cup {Off}]
  BY DEF TypeOK, WheelType
<1>2. \A p \in Slots : deadline[p] \in Nat /\ interval[p] \in Nat /\ BeatOf(p)
  BY <1>1 DEF BeatInv
<1>3. CASE Tick
  <2>1. /\ UNCHANGED <<procVars, beatVars, wheel>> /\ tick = "idle"
        /\ tick' = "detach" /\ now' = now + 1
        /\ \A p \in Slots : pc[p] \in {"marked", "armed"} /\ Wanted(p) =>
                               now + 1 < deadline[p]
    BY <1>3 DEF Tick
  <2>2. Detached = {} 
    BY <2>1 DEF Detached
  <2> SUFFICES ASSUME NEW p \in Slots PROVE BeatOf(p)'
    BY DEF BeatInv
  <2>3. Wanted(p)' <=> Wanted(p)
    BY <2>1 DEF Wanted
  <2>4. deadline'[p] = deadline[p] /\ deadline[p] \in Nat
    BY <1>2, <2>1
  <2>5. Ahead(p) => Ahead(p)'
    BY <1>1, <2>1, <2>2, <2>4 DEF Ahead
  <2> QED
    BY <1>1, <1>2, <2>1, <2>2, <2>3, <2>4, <2>5 DEF BeatOf
<1>4. CASE TickDetach
  <2>1. /\ UNCHANGED <<procVars, beatVars, now>> /\ tick = "detach" /\ tick' = "walk"
    BY <1>4 DEF TickDetach
  <2>2. /\ Detached' = {q \in Slots : wheel.bucket[q] = Bucket(now)}
        /\ \A p \in Slots : wheel'.bucket[p] = IF wheel.bucket[p] = Bucket(now)
                                               THEN Off ELSE wheel.bucket[p]
    BY <1>4, DetachStep
  <2>3. Detached = {}
    BY <2>1 DEF Detached
  <2> SUFFICES ASSUME NEW p \in Slots PROVE BeatOf(p)'
    BY DEF BeatInv
  <2>4. Wanted(p)' <=> Wanted(p)
    BY <2>1 DEF Wanted
  <2>5. ASSUME st[p] = "LIVE", pc[p] \in {"user", "waiting"}, Wanted(p)
        PROVE  (wheel'.bucket[p] # Off \/ p \in Detached') /\ Ahead(p)'
    <3>1. wheel.bucket[p] # Off /\ Ahead(p)
      BY <1>2, <2>3, <2>5 DEF BeatOf
    <3>2. wheel.bucket[p] = Bucket(deadline[p])
      <4>1. interval[p] > 0 /\ deadline[p] > 0 /\ ~Locked(p)
        BY <2>1, <2>5 DEF Wanted, Locked
      <4>2. pc[p] \notin {"marked", "armed"}
        BY <2>5
      <4> QED
        BY <3>1, <4>1, <4>2 DEF BucketInv
    <3>3. deadline[p] = now => p \in Detached'
      BY <2>2, <3>2
    <3>4. ~Locked(p)'
      BY <2>1 DEF Locked
    <3> QED
      BY <2>1, <2>2, <2>3, <3>1, <3>3, <3>4 DEF Ahead
  <2> QED
    BY <1>2, <2>1, <2>4, <2>5 DEF BeatOf
<1>5. CASE TickNext \/ TickEnd
  <2>1. UNCHANGED <<procVars, beatVars, wheel, now, cur>> /\ tick = "walk" /\ tick' # "link"
        /\ tick' # "detach"
    BY <1>5 DEF TickNext, TickEnd
  <2>2. Detached' = Detached
    BY <1>5, NextStep, EndStep
  <2> SUFFICES ASSUME NEW p \in Slots PROVE BeatOf(p)'
    BY DEF BeatInv
  <2>3. (Wanted(p)' <=> Wanted(p)) /\ (Ahead(p)' <=> Ahead(p))
    BY <2>1, <2>2 DEF Wanted, Ahead, Locked
  <2> QED
    BY <1>2, <2>1, <2>2, <2>3 DEF BeatOf
<1>6. CASE TickLook
  <2>1. UNCHANGED <<procVars, interval, now, cur>> /\ tick = "look" /\ tick' = "link"
        /\ cur \in Slots
    BY <1>6 DEF TickLook, TypeOK
  <2>2. Detached' = Detached /\ wheel'.bucket = wheel.bucket
    BY <1>6, LookStep, LookType
  <2>3. \A q \in Slots \ {cur} : deadline'[q] = deadline[q]
    BY <1>1, <1>6 DEF TickLook
  <2>4. cur \in Detached
    BY <2>1 DEF Detached
  <2>5. Wanted(cur)' => deadline'[cur] > now /\ (Wanted(cur) \/ deadline'[cur] # deadline[cur])
    <3>1. CASE Due(cur) /\ deadline' = [deadline EXCEPT ![cur] = now + interval[cur]]
      <4>1. deadline'[cur] = now + interval[cur] /\ interval[cur] > 0 /\ Wanted(cur)
        BY <1>1, <2>1, <3>1 DEF Due, Wanted
      <4> QED
        BY <1>1, <2>1, <4>1
    <3>2. CASE ~Due(cur) /\ UNCHANGED deadline
      <4>1. Wanted(cur)' <=> Wanted(cur)
        BY <2>1, <3>2 DEF Wanted
      <4> QED
        BY <1>2, <1>1, <2>1, <3>2, <4>1 DEF Due
    <3> QED
      BY <1>6, <3>1, <3>2 DEF TickLook
  <2> SUFFICES ASSUME NEW p \in Slots PROVE BeatOf(p)'
    BY DEF BeatInv
  <2>6. CASE p = cur
    BY <1>2, <2>1, <2>2, <2>4, <2>5, <2>6 DEF BeatOf, Ahead
  <2>7. CASE p # cur
    <3>1. deadline'[p] = deadline[p]
      BY <2>3, <2>7
    <3>2. (Wanted(p)' <=> Wanted(p)) /\ (Ahead(p)' <=> Ahead(p))
      BY <2>1, <2>2, <2>7, <3>1 DEF Wanted, Ahead, Locked
    <3> QED
      BY <1>2, <2>1, <2>2, <3>1, <3>2 DEF BeatOf
  <2> QED
    BY <2>6, <2>7
<1>7. CASE TickLink
  <2>1. UNCHANGED <<procVars, beatVars, now>> /\ tick = "link" /\ tick' = "walk"
        /\ cur \in Slots
    BY <1>7 DEF TickLink, TypeOK
  <2>2. /\ Detached' = Detached \ {cur}
        /\ \A q \in Slots \ {cur} : wheel'.bucket[q] = wheel.bucket[q]
    BY <1>7, LinkStep
  <2> SUFFICES ASSUME NEW p \in Slots PROVE BeatOf(p)'
    BY DEF BeatInv
  <2>3. Wanted(p)' <=> Wanted(p)
    BY <2>1 DEF Wanted
  <2>4. CASE p = cur
    <3>1. Wanted(p) => wheel'.bucket[p] # Off
      <4> SUFFICES ASSUME Wanted(p) PROVE wheel'.bucket[p] # Off
        OBVIOUS
      <4>1. wheel'.bucket[p] = Bucket(deadline[p])
        BY <1>1, <1>7, <2>4, RescheduleType DEF TickLink
      <4> QED
        BY <1>2, <4>1, BucketRange DEF Off
    <3>2. Ahead(p) => deadline[p] > now
      BY <2>1, <2>4 DEF Ahead, Locked
    <3> QED
      BY <1>2, <2>1, <2>3, <3>1, <3>2 DEF BeatOf, Ahead
  <2>5. CASE p # cur
    <3>1. wheel'.bucket[p] = wheel.bucket[p] /\ (p \in Detached' <=> p \in Detached)
      BY <2>2, <2>5
    <3>2. Ahead(p) => Ahead(p)'
      BY <2>1, <2>5, <3>1 DEF Ahead, Locked
    <3> QED
      BY <1>2, <2>1, <2>3, <3>1, <3>2 DEF BeatOf
  <2> QED
    BY <2>4, <2>5
<1>8. CASE UNCHANGED vars
  <2>1. Detached' = Detached
    BY <1>8 DEF vars, Detached
  <2> SUFFICES ASSUME NEW p \in Slots PROVE BeatOf(p)'
    BY DEF BeatInv
  <2>2. (Wanted(p)' <=> Wanted(p)) /\ (Ahead(p)' <=> Ahead(p))
    BY <1>8, <2>1 DEF vars, Wanted, Ahead, Locked
  <2> QED
    BY <1>2, <1>8, <2>1, <2>2 DEF vars, BeatOf
<1> QED
  BY <1>3, <1>4, <1>5, <1>6, <1>7, <1>8, BeatCall DEF Next, Call

LEMMA BeatInit ==
    Init => BeatInv
BY DEF Init, BeatInv, BeatOf, Wanted

\* When agent_tick is through, every due heartbeat has been signalled
\* (agent_loop.c 641-649), as long as agent_tick and the calls of the processes
\* in its hands wait for each other.
THEOREM HeartbeatsComeInTime ==
    ASSUME Races = {}
    PROVE  Spec => []NoHeartbeatMissed
<1>1. NoOverlap
  BY DEF NoOverlap
<1>2. Init => BucketInv
  BY DEF Init, BucketInv
<1>3. TypeOK /\ WheelInv /\ BucketInv /\ BeatInv /\ [Next]_vars
        => TypeOK' /\ WheelInv' /\ BucketInv' /\ BeatInv'
  BY <1>1, TypeStep, WheelStep, BucketStep, BeatStep
<1>4. BeatInv => NoHeartbeatMissed
  BY DEF BeatInv, BeatOf, Ahead, NoHeartbeatMissed, Detached
<1> QED
  BY InitType, WheelInit, BeatInit, <1>2, <1>3, <1>4, PTL DEF Spec
=============================================================================
