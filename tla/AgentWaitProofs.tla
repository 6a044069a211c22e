--------------------------- MODULE AgentWaitProofs ---------------------------
(***************************************************************************)
(* The invariants of AgentWait, for any number of agents, any capacity of  *)
(* the mailbox and any programs.  The argument: a signal makes a sleeping  *)
(* process runnable in the same p->lock region that records its reason,    *)
(* and agent_wait finds no reason in the region in which it goes to sleep. *)
(* WhereInv says that only agent_wait sleeps, SendInv that a mailbox is    *)
(* not over-filled while agent_create clears it without the lock, and      *)
(* SourceInv carries the test of the wake sources, made without the lock,  *)
(* to the moment of the sleep.                                             *)
(* At the end: the rings implement the bounded FIFO queues of Mailboxes.   *)
(***************************************************************************)
EXTENDS AgentWait, TLAPS

\* The constants a step depends on.
LEMMA Sizes ==
    /\ Cap \in Nat /\ Cap > 0 /\ SystemSlots \in Nat
    /\ N \in Nat /\ N > 0 /\ Timeouts \subseteq Nat
BY WaitAssumption

\* The indices of the ring stay inside it.
LEMMA AfterInRing ==
    ASSUME NEW i \in 0..(Cap - 1)
    PROVE  After(i) \in 0..(Cap - 1)
BY Sizes DEF After

\* A mailbox as agent_create leaves it after the memset, and when it is new.
LEMMA NewBoxes == ZeroBox \in Boxes /\ EmptyBox \in Boxes
<1>1. NoMsg \in (Agents \cup {0}) \X Nat /\ 0 \in 0..(Cap - 1) /\ 0 \in 0..Cap
  BY Sizes DEF NoMsg
<1>2. ZeroBox \in Boxes
  BY <1>1 DEF ZeroBox, Boxes
<1>3. ZeroBox.next = 0 /\ EmptyBox = [ZeroBox EXCEPT !.next = 1]
  BY DEF ZeroBox, EmptyBox
<1> HIDE DEF ZeroBox
<1>4. EmptyBox \in Boxes
  BY <1>2, <1>3 DEF Boxes
<1> QED
  BY <1>2, <1>4

\* The counts of a mailbox are numbers.
LEMMA BoxCounts ==
    ASSUME NEW b \in Boxes
    PROVE  b.count \in Nat /\ b.normal \in Nat
BY Sizes DEF Boxes

\* The sequence numbers start again.
LEMMA NextBox ==
    ASSUME NEW b \in Boxes
    PROVE  [b EXCEPT !.next = 1] \in Boxes
BY DEF Boxes

\* A message put into the ring.
LEMMA PutBox ==
    ASSUME NEW b \in Boxes, NEW s \in Agents
    PROVE  [b EXCEPT !.ring[b.tail] = <<s, b.next>>, !.next = @ + 1,
                     !.tail = After(@)] \in Boxes
<1>1. After(b.tail) \in 0..(Cap - 1)
  BY AfterInRing DEF Boxes
<1>2. [b.ring EXCEPT ![b.tail] = <<s, b.next>>] \in
            [0..(Cap - 1) -> (Agents \cup {0}) \X Nat]
  BY DEF Boxes
<1>3. b.next + 1 \in Nat
  BY DEF Boxes
<1> QED
  BY <1>1, <1>2, <1>3 DEF Boxes

\* The message counted.
LEMMA CountBox ==
    ASSUME NEW b \in Boxes, b.count < Cap, b.normal < Cap
    PROVE  [b EXCEPT !.count = @ + 1, !.normal = @ + 1] \in Boxes
<1>1. b.count + 1 \in 0..Cap /\ b.normal + 1 \in 0..Cap
  BY SMTT(30), Sizes DEF Boxes
<1> QED
  BY <1>1 DEF Boxes

\* The oldest message read and taken out.
LEMMA TakeBox ==
    ASSUME NEW b \in Boxes, b.count > 0, b.normal > 0
    PROVE  /\ b.ring[b.head] \in (Agents \cup {0}) \X Nat
           /\ [b EXCEPT !.ring[b.head] = NoMsg, !.head = After(@),
                     !.count = @ - 1, !.normal = @ - 1] \in Boxes
<1>1. After(b.head) \in 0..(Cap - 1)
  BY AfterInRing DEF Boxes
<1>2. [b.ring EXCEPT ![b.head] = NoMsg] \in
            [0..(Cap - 1) -> (Agents \cup {0}) \X Nat]
  BY DEF Boxes, NoMsg
<1>3. b.count - 1 \in 0..Cap /\ b.normal - 1 \in 0..Cap
  BY SMTT(30), Sizes DEF Boxes
<1>4. b.ring[b.head] \in (Agents \cup {0}) \X Nat
  BY DEF Boxes
<1>5. [b EXCEPT !.ring[b.head] = NoMsg, !.head = After(@),
                !.count = @ - 1, !.normal = @ - 1] \in Boxes
  <2> HIDE DEF NoMsg
  <2> QED
    BY <1>1, <1>2, <1>3 DEF Boxes
<1> QED
  BY <1>4, <1>5

\* Every step keeps the types.
LEMMA TypeStep ==
    ASSUME TypeOK, SendInv, [Next]_vars
    PROVE  TypeOK'
<1> USE DEF TypeOK, eventVars, clockVars, Agents
<1>1. ASSUME NEW p \in Agents, MarkBegin(p)
      PROVE  TypeOK'
  BY <1>1 DEF MarkBegin, InUser
<1>2. ASSUME NEW p \in Agents, MarkClear(p)
      PROVE  TypeOK'
  BY <1>2, NewBoxes DEF MarkClear
<1>3. ASSUME NEW p \in Agents, MarkNext(p)
      PROVE  TypeOK'
  <2>1. box' = [box EXCEPT ![p] = [box[p] EXCEPT !.next = 1]]
    BY <1>3 DEF MarkNext
  <2>2. box' \in [Agents -> Boxes]
    BY <2>1, NextBox
  <2>3. deadline' \in [Agents -> Nat]
    BY <1>3 DEF MarkNext
  <2>4. file' \in [Agents -> Files \cup {0}]
    BY <1>3 DEF MarkNext
  <2>5. pc' \in [Agents -> {"none", "user", "mark_clear", "mark_next",
                            "send_count", "wait_lock", "wait"}]
    BY <1>3 DEF MarkNext
  <2>6. UNCHANGED <<st, lock, agent, loop, pend, watch, beats, killed, got, arg,
                    now, scan>>
    BY <1>3 DEF MarkNext
  <2> QED
    BY <2>2, <2>3, <2>4, <2>5, <2>6
<1>4. ASSUME NEW p \in Agents, NEW t \in Agents, SendPut(p, t)
      PROVE  TypeOK'
  <2>1. box' = [box EXCEPT ![t] =
                   [box[t] EXCEPT !.ring[box[t].tail] = <<p, box[t].next>>,
                                  !.next = @ + 1, !.tail = After(@)]]
    BY <1>4 DEF SendPut
  <2>2. box' \in [Agents -> Boxes]
    BY <2>1, PutBox
  <2> QED
    BY SMTT(30), <1>4, <2>2 DEF SendPut, MaySend
<1>5. ASSUME NEW p \in Agents, SendCount(p)
      PROVE  TypeOK'
  <2>1. arg[p] \in Agents /\ box[arg[p]].count < Cap
        /\ box[arg[p]].normal < Cap
    BY <1>5 DEF SendCount, SendInv
  <2>2. box' = [box EXCEPT ![arg[p]] =
                   [box[arg[p]] EXCEPT !.count = @ + 1, !.normal = @ + 1]]
    BY <1>5 DEF SendCount
  <2>3. box' \in [Agents -> Boxes]
    BY <2>1, <2>2, CountBox
  <2> QED
    BY <1>5, <2>1, <2>3 DEF SendCount, Signal, Wakened, Events
<1>6. ASSUME NEW p \in Agents, NEW t \in Agents, SendBusy(p, t)
      PROVE  TypeOK'
  BY <1>6 DEF SendBusy
<1>7. ASSUME NEW p \in Agents, NEW e \in {"MESSAGE", "FILEMOD"}, Watch(p, e)
      PROVE  TypeOK'
  BY <1>7 DEF Watch, AgentCall, InUser, Ready
<1>8. ASSUME NEW p \in Agents, NEW f \in Files, WatchFile(p, f)
      PROVE  TypeOK'
  BY <1>8 DEF WatchFile, AgentCall, InUser, Ready
<1>9. ASSUME NEW p \in Agents, NEW mask \in SUBSET {"MESSAGE", "FILEMOD"}, Unwatch(p, mask)
      PROVE  TypeOK'
  BY <1>9 DEF Unwatch
<1>10. ASSUME NEW p \in Agents, HeartbeatSet(p)
      PROVE  TypeOK'
  BY <1>10 DEF HeartbeatSet, Ready
<1>11. ASSUME NEW p \in Agents, HeartbeatStop(p)
      PROVE  TypeOK'
  BY <1>11 DEF HeartbeatStop
<1>12. ASSUME NEW p \in Agents, WaitDone(p)
      PROVE  TypeOK'
  BY <1>12, NewBoxes DEF WaitDone
<1>13. ASSUME NEW p \in Agents, NEW timeout \in Timeouts, WaitCall(p, timeout)
      PROVE  TypeOK'
  BY <1>13, Sizes DEF WaitCall
<1>14. ASSUME NEW p \in Agents, WaitEnter(p)
      PROVE  TypeOK'
  BY <1>14 DEF WaitEnter
<1>15. ASSUME NEW p \in Agents, WaitMessage(p)
      PROVE  TypeOK'
  <2>1. box[p].count > 0 /\ box[p].normal > 0
    BY <1>15 DEF WaitMessage, Turn, Reason, SendInv
  <2>2. box' = [box EXCEPT ![p] =
                   [box[p] EXCEPT !.ring[box[p].head] = NoMsg,
                                  !.head = After(@),
                                  !.count = @ - 1, !.normal = @ - 1]]
    BY <1>15 DEF WaitMessage
  <2>3. box' \in [Agents -> Boxes]
    BY <2>1, <2>2, TakeBox
  <2>4. box[p].ring[box[p].head] \in (Agents \cup {0}) \X Nat
    BY <2>1, TakeBox
  <2> QED
    BY <1>15, <2>3, <2>4 DEF WaitMessage, Turn, Events
<1>16. ASSUME NEW p \in Agents, NEW e \in {"PARENT_GONE", "FILEMOD", "HEARTBEAT"}, WaitEvent(p, e)
      PROVE  TypeOK'
  BY <1>16 DEF WaitEvent, Turn
<1>17. ASSUME NEW p \in Agents, NEW r \in {"TIMEOUT", "CANCELLED"}, WaitOver(p, r)
      PROVE  TypeOK'
  BY <1>17 DEF WaitOver, Turn
<1>18. ASSUME NEW p \in Agents, WaitSleep(p)
      PROVE  TypeOK'
  BY <1>18 DEF WaitSleep, Turn
<1>19. ASSUME NEW p \in Agents, NEW f \in Files, NotifyFile(p, f)
      PROVE  TypeOK'
  BY <1>19 DEF NotifyFile, Signal, Wakened, Events
<1>20. ASSUME NEW p \in Agents, SignalFilemod(p)
      PROVE  TypeOK'
  BY <1>20 DEF SignalFilemod, Signal, Wakened, Events
<1>21. ASSUME NEW p \in Agents, Heartbeat(p)
      PROVE  TypeOK'
  BY <1>21 DEF Heartbeat, Signal, Wakened, Events
<1>22. ASSUME NEW p \in Agents, ParentGone(p)
      PROVE  TypeOK'
  BY <1>22 DEF ParentGone, Signal, Wakened, Events
<1>23. ASSUME NEW p \in Agents, Kill(p)
      PROVE  TypeOK'
  BY <1>23 DEF Kill, Wakened
<1>24. ASSUME NEW p \in Agents, ChildExit(p)
      PROVE  TypeOK'
  BY <1>24 DEF ChildExit
<1>25. ASSUME NEW p \in Agents, Exit(p)
      PROVE  TypeOK'
  BY <1>25 DEF Exit
<1>26. ASSUME NEW p \in Agents, Reap(p)
      PROVE  TypeOK'
  BY <1>26, NewBoxes DEF Reap
<1>27. ASSUME Tick
      PROVE  TypeOK'
  <2>1. 1 \in Agents
    BY Sizes
  <2> QED
    BY <1>27, <2>1 DEF Tick
<1>28. ASSUME TickStep
      PROVE  TypeOK'
  <2>1. scan # N /\ scan # 0 => scan + 1 \in Agents
    BY Sizes
  <2> QED
    BY <1>28, <2>1 DEF TickStep
<1>29. ASSUME UNCHANGED vars
      PROVE  TypeOK'
  BY <1>29 DEF vars
<1> HIDE DEF TypeOK, eventVars, clockVars, Agents
<1> QED
  BY <1>1, <1>2, <1>3, <1>4, <1>5, <1>6, <1>7, <1>8, <1>9, <1>10, <1>11, <1>12, <1>13, <1>14, <1>15, <1>16, <1>17, <1>18, <1>19, <1>20, <1>21, <1>22, <1>23, <1>24, <1>25, <1>26, <1>27, <1>28, <1>29 DEF Next, Continue, Call, Others

\* Every step keeps the mailboxes counted.
LEMMA SendStep ==
    ASSUME TypeOK, TypeOK', SendInv, [Next]_vars
    PROVE  SendInv'
<1> USE DEF TypeOK, eventVars, clockVars, Agents, SendInv
<1>1. ASSUME NEW p \in Agents, MarkBegin(p)
      PROVE  SendInv'
  BY <1>1 DEF MarkBegin, InUser
<1>2. ASSUME NEW p \in Agents, MarkClear(p)
      PROVE  SendInv'
  <2>1. ZeroBox.count = 0 /\ ZeroBox.normal = 0
    BY DEF ZeroBox
  <2>2. \A q \in Agents : box'[q] = IF q = p THEN ZeroBox ELSE box[q]
    BY <1>2 DEF MarkClear
  <2>3. UNCHANGED <<arg, lock>> /\ pc' = [pc EXCEPT ![p] = "mark_next"]
    BY <1>2 DEF MarkClear
  <2>4. ASSUME NEW q \in Agents
        PROVE  /\ box'[q].count = box'[q].normal
               /\ box[q].count < Cap => box'[q].count < Cap
    <3> HIDE DEF TypeOK
    <3>1. CASE q = p
      <4>1. box'[q] = ZeroBox /\ 0 < Cap
        BY <2>2, <3>1, Sizes
      <4> QED
        BY <2>1, <4>1
    <3>2. CASE q # p
      BY <2>2, <3>2
    <3> QED
      BY <3>1, <3>2
  <2>5. \A s \in Agents : pc'[s] = "send_count" => pc[s] = "send_count"
    BY <2>3
  <2> QED
    BY <2>3, <2>4, <2>5
<1>3. ASSUME NEW p \in Agents, MarkNext(p)
      PROVE  SendInv'
  BY <1>3 DEF MarkNext
<1>4. ASSUME NEW p \in Agents, NEW t \in Agents, SendPut(p, t)
      PROVE  SendInv'
  <2>1. \A q \in Agents : /\ box'[q].count = box[q].count
                           /\ box'[q].normal = box[q].normal
    BY <1>4 DEF SendPut
  <2>2. box[t].count < Cap
    BY SMTT(30), <1>4, Sizes, BoxCounts DEF SendPut, Full
  <2>3. /\ lock[t] = 0 /\ lock' = [lock EXCEPT ![t] = p]
        /\ arg' = [arg EXCEPT ![p] = t]
        /\ pc' = [pc EXCEPT ![p] = "send_count"]
    BY <1>4 DEF SendPut, MaySend
  <2>4. \A q \in Agents : box'[q].count = box'[q].normal
    BY <2>1
  <2>5. ASSUME NEW s \in Agents, pc'[s] = "send_count"
        PROVE  arg'[s] \in Agents /\ lock'[arg'[s]] = s /\ box'[arg'[s]].count < Cap
    <3>1. CASE s = p
      BY <2>1, <2>2, <2>3, <3>1
    <3>2. CASE s # p
      <4>1. arg'[s] = arg[s] /\ arg[s] \in Agents /\ lock[arg[s]] = s
            /\ box[arg[s]].count < Cap
        BY <2>3, <2>5, <3>2
      <4>2. arg[s] # t
        BY <2>3, <4>1
      <4> QED
        BY <2>1, <2>3, <4>1, <4>2
    <3> QED
      BY <3>1, <3>2
  <2> QED
    BY <2>4, <2>5
<1>5. ASSUME NEW p \in Agents, SendCount(p)
      PROVE  SendInv'
  BY <1>5 DEF SendCount
<1>6. ASSUME NEW p \in Agents, NEW t \in Agents, SendBusy(p, t)
      PROVE  SendInv'
  BY <1>6 DEF SendBusy
<1>7. ASSUME NEW p \in Agents, NEW e \in {"MESSAGE", "FILEMOD"}, Watch(p, e)
      PROVE  SendInv'
  BY <1>7 DEF Watch
<1>8. ASSUME NEW p \in Agents, NEW f \in Files, WatchFile(p, f)
      PROVE  SendInv'
  BY <1>8 DEF WatchFile
<1>9. ASSUME NEW p \in Agents, NEW mask \in SUBSET {"MESSAGE", "FILEMOD"}, Unwatch(p, mask)
      PROVE  SendInv'
  BY <1>9 DEF Unwatch
<1>10. ASSUME NEW p \in Agents, HeartbeatSet(p)
      PROVE  SendInv'
  BY <1>10 DEF HeartbeatSet
<1>11. ASSUME NEW p \in Agents, HeartbeatStop(p)
      PROVE  SendInv'
  BY <1>11 DEF HeartbeatStop
<1>12. ASSUME NEW p \in Agents, WaitDone(p)
      PROVE  SendInv'
  BY <1>12 DEF WaitDone, AgentCall, InUser, EmptyBox, ZeroBox
<1>13. ASSUME NEW p \in Agents, NEW timeout \in Timeouts, WaitCall(p, timeout)
      PROVE  SendInv'
  BY <1>13 DEF WaitCall, InUser
<1>14. ASSUME NEW p \in Agents, WaitEnter(p)
      PROVE  SendInv'
  BY <1>14 DEF WaitEnter
<1>15. ASSUME NEW p \in Agents, WaitMessage(p)
      PROVE  SendInv'
  <2>1. \A q \in Agents : q # p => box'[q] = box[q]
    BY <1>15 DEF WaitMessage
  <2>2. box[p].count > 0 /\ lock[p] \in {0, p} /\ pc[p] = "wait"
    BY <1>15 DEF WaitMessage, Turn, Reason
  <2>3. box'[p].count = box[p].count - 1 /\ box'[p].normal = box[p].normal - 1
    BY <1>15 DEF WaitMessage
  <2>4. /\ lock' = [lock EXCEPT ![p] = 0] /\ arg' = arg
        /\ pc' = [pc EXCEPT ![p] = "user"]
    BY <1>15 DEF WaitMessage, Turn
  <2>5. \A q \in Agents : box'[q].count = box'[q].normal
    BY <2>1, <2>3
  <2>6. ASSUME NEW s \in Agents, pc'[s] = "send_count"
        PROVE  arg'[s] \in Agents /\ lock'[arg'[s]] = s /\ box'[arg'[s]].count < Cap
    <3>1. s # p /\ pc[s] = "send_count"
      BY <2>4, <2>6
    <3>2. arg[s] \in Agents /\ lock[arg[s]] = s /\ box[arg[s]].count < Cap
      BY <3>1
    <3>3. arg[s] # p
      BY <2>2, <3>1, <3>2
    <3> QED
      BY <2>1, <2>4, <3>2, <3>3
  <2> QED
    BY <2>5, <2>6
<1>16. ASSUME NEW p \in Agents, NEW e \in {"PARENT_GONE", "FILEMOD", "HEARTBEAT"}, WaitEvent(p, e)
      PROVE  SendInv'
  BY <1>16 DEF WaitEvent, Turn
<1>17. ASSUME NEW p \in Agents, NEW r \in {"TIMEOUT", "CANCELLED"}, WaitOver(p, r)
      PROVE  SendInv'
  BY <1>17 DEF WaitOver, Turn
<1>18. ASSUME NEW p \in Agents, WaitSleep(p)
      PROVE  SendInv'
  BY <1>18 DEF WaitSleep, Turn
<1>19. ASSUME NEW p \in Agents, NEW f \in Files, NotifyFile(p, f)
      PROVE  SendInv'
  BY <1>19 DEF NotifyFile
<1>20. ASSUME NEW p \in Agents, SignalFilemod(p)
      PROVE  SendInv'
  BY <1>20 DEF SignalFilemod
<1>21. ASSUME NEW p \in Agents, Heartbeat(p)
      PROVE  SendInv'
  BY <1>21 DEF Heartbeat
<1>22. ASSUME NEW p \in Agents, ParentGone(p)
      PROVE  SendInv'
  BY <1>22 DEF ParentGone
<1>23. ASSUME NEW p \in Agents, Kill(p)
      PROVE  SendInv'
  BY <1>23 DEF Kill
<1>24. ASSUME NEW p \in Agents, ChildExit(p)
      PROVE  SendInv'
  BY <1>24 DEF ChildExit
<1>25. ASSUME NEW p \in Agents, Exit(p)
      PROVE  SendInv'
  BY <1>25 DEF Exit
<1>26. ASSUME NEW p \in Agents, Reap(p)
      PROVE  SendInv'
  BY <1>26 DEF Reap, EmptyBox, ZeroBox
<1>27. ASSUME Tick
      PROVE  SendInv'
  BY <1>27 DEF Tick
<1>28. ASSUME TickStep
      PROVE  SendInv'
  BY <1>28 DEF TickStep
<1>29. ASSUME UNCHANGED vars
      PROVE  SendInv'
  BY <1>29 DEF vars
<1> HIDE DEF TypeOK, eventVars, clockVars, Agents, SendInv
<1> QED
  BY <1>1, <1>2, <1>3, <1>4, <1>5, <1>6, <1>7, <1>8, <1>9, <1>10, <1>11, <1>12, <1>13, <1>14, <1>15, <1>16, <1>17, <1>18, <1>19, <1>20, <1>21, <1>22, <1>23, <1>24, <1>25, <1>26, <1>27, <1>28, <1>29 DEF Next, Continue, Call, Others

\* Every step keeps sleepers in agent_wait.
LEMMA WhereStep ==
    ASSUME TypeOK, TypeOK', WhereInv, [Next]_vars
    PROVE  WhereInv'
<1> USE DEF TypeOK, eventVars, clockVars, Agents, WhereInv
<1>1. ASSUME NEW p \in Agents, MarkBegin(p)
      PROVE  WhereInv'
  BY <1>1 DEF MarkBegin, InUser
<1>2. ASSUME NEW p \in Agents, MarkClear(p)
      PROVE  WhereInv'
  BY <1>2 DEF MarkClear
<1>3. ASSUME NEW p \in Agents, MarkNext(p)
      PROVE  WhereInv'
  BY <1>3 DEF MarkNext
<1>4. ASSUME NEW p \in Agents, NEW t \in Agents, SendPut(p, t)
      PROVE  WhereInv'
  BY <1>4 DEF SendPut, MaySend, InUser
<1>5. ASSUME NEW p \in Agents, SendCount(p)
      PROVE  WhereInv'
  BY <1>5 DEF SendCount, Signal, Wakened
<1>6. ASSUME NEW p \in Agents, NEW t \in Agents, SendBusy(p, t)
      PROVE  WhereInv'
  BY <1>6 DEF SendBusy, MaySend, InUser
<1>7. ASSUME NEW p \in Agents, NEW e \in {"MESSAGE", "FILEMOD"}, Watch(p, e)
      PROVE  WhereInv'
  BY <1>7 DEF Watch, AgentCall, InUser
<1>8. ASSUME NEW p \in Agents, NEW f \in Files, WatchFile(p, f)
      PROVE  WhereInv'
  BY <1>8 DEF WatchFile, AgentCall, InUser
<1>9. ASSUME NEW p \in Agents, NEW mask \in SUBSET {"MESSAGE", "FILEMOD"}, Unwatch(p, mask)
      PROVE  WhereInv'
  BY <1>9 DEF Unwatch, AgentCall, InUser
<1>10. ASSUME NEW p \in Agents, HeartbeatSet(p)
      PROVE  WhereInv'
  BY <1>10 DEF HeartbeatSet, AgentCall, InUser
<1>11. ASSUME NEW p \in Agents, HeartbeatStop(p)
      PROVE  WhereInv'
  BY <1>11 DEF HeartbeatStop, AgentCall, InUser
<1>12. ASSUME NEW p \in Agents, WaitDone(p)
      PROVE  WhereInv'
  BY <1>12 DEF WaitDone, AgentCall, InUser
<1>13. ASSUME NEW p \in Agents, NEW timeout \in Timeouts, WaitCall(p, timeout)
      PROVE  WhereInv'
  BY <1>13 DEF WaitCall, InUser
<1>14. ASSUME NEW p \in Agents, WaitEnter(p)
      PROVE  WhereInv'
  BY <1>14 DEF WaitEnter
<1>15. ASSUME NEW p \in Agents, WaitMessage(p)
      PROVE  WhereInv'
  BY <1>15 DEF WaitMessage, Turn
<1>16. ASSUME NEW p \in Agents, NEW e \in {"PARENT_GONE", "FILEMOD", "HEARTBEAT"}, WaitEvent(p, e)
      PROVE  WhereInv'
  BY <1>16 DEF WaitEvent, Turn
<1>17. ASSUME NEW p \in Agents, NEW r \in {"TIMEOUT", "CANCELLED"}, WaitOver(p, r)
      PROVE  WhereInv'
  BY <1>17 DEF WaitOver, Turn
<1>18. ASSUME NEW p \in Agents, WaitSleep(p)
      PROVE  WhereInv'
  BY <1>18 DEF WaitSleep, Turn
<1>19. ASSUME NEW p \in Agents, NEW f \in Files, NotifyFile(p, f)
      PROVE  WhereInv'
  BY <1>19 DEF NotifyFile, Signal, Wakened
<1>20. ASSUME NEW p \in Agents, SignalFilemod(p)
      PROVE  WhereInv'
  BY <1>20 DEF SignalFilemod, Signal, Wakened
<1>21. ASSUME NEW p \in Agents, Heartbeat(p)
      PROVE  WhereInv'
  BY <1>21 DEF Heartbeat, Signal, Wakened
<1>22. ASSUME NEW p \in Agents, ParentGone(p)
      PROVE  WhereInv'
  BY <1>22 DEF ParentGone, Signal, Wakened
<1>23. ASSUME NEW p \in Agents, Kill(p)
      PROVE  WhereInv'
  BY <1>23 DEF Kill, Wakened
<1>24. ASSUME NEW p \in Agents, ChildExit(p)
      PROVE  WhereInv'
  BY <1>24 DEF ChildExit
<1>25. ASSUME NEW p \in Agents, Exit(p)
      PROVE  WhereInv'
  BY <1>25 DEF Exit
<1>26. ASSUME NEW p \in Agents, Reap(p)
      PROVE  WhereInv'
  BY <1>26 DEF Reap
<1>27. ASSUME Tick
      PROVE  WhereInv'
  BY <1>27 DEF Tick
<1>28. ASSUME TickStep
      PROVE  WhereInv'
  BY <1>28 DEF TickStep
<1>29. ASSUME UNCHANGED vars
      PROVE  WhereInv'
  BY <1>29 DEF vars
<1> HIDE DEF TypeOK, eventVars, clockVars, Agents, WhereInv
<1> QED
  BY <1>1, <1>2, <1>3, <1>4, <1>5, <1>6, <1>7, <1>8, <1>9, <1>10, <1>11, <1>12, <1>13, <1>14, <1>15, <1>16, <1>17, <1>18, <1>19, <1>20, <1>21, <1>22, <1>23, <1>24, <1>25, <1>26, <1>27, <1>28, <1>29 DEF Next, Continue, Call, Others

\* Every step keeps what agent_wait waits for.
LEMMA SourceStep ==
    ASSUME TypeOK, TypeOK', WhereInv, SourceInv, [Next]_vars
    PROVE  SourceInv'
<1> USE DEF TypeOK, eventVars, clockVars, Agents, SourceInv
<1>1. ASSUME NEW p \in Agents, MarkBegin(p)
      PROVE  SourceInv'
  BY <1>1 DEF MarkBegin, InUser
<1>2. ASSUME NEW p \in Agents, MarkClear(p)
      PROVE  SourceInv'
  BY <1>2 DEF MarkClear
<1>3. ASSUME NEW p \in Agents, MarkNext(p)
      PROVE  SourceInv'
  BY <1>3 DEF MarkNext
<1>4. ASSUME NEW p \in Agents, NEW t \in Agents, SendPut(p, t)
      PROVE  SourceInv'
  BY <1>4 DEF SendPut, MaySend, InUser
<1>5. ASSUME NEW p \in Agents, SendCount(p)
      PROVE  SourceInv'
  <2>1. \A q \in Agents : box[q].count > 0 => box'[q].count > 0
    <3>1. \A q \in Agents : box'[q].count \in {box[q].count, box[q].count + 1}
      BY <1>5 DEF SendCount
    <3>2. \A q \in Agents : box[q].count \in Nat
      BY BoxCounts
    <3> QED
      BY SMTT(30), <3>1, <3>2
  <2> QED
    BY <1>5, <2>1 DEF SendCount, Signal
<1>6. ASSUME NEW p \in Agents, NEW t \in Agents, SendBusy(p, t)
      PROVE  SourceInv'
  BY <1>6 DEF SendBusy, MaySend, InUser
<1>7. ASSUME NEW p \in Agents, NEW e \in {"MESSAGE", "FILEMOD"}, Watch(p, e)
      PROVE  SourceInv'
  BY <1>7 DEF Watch, AgentCall, InUser
<1>8. ASSUME NEW p \in Agents, NEW f \in Files, WatchFile(p, f)
      PROVE  SourceInv'
  BY <1>8 DEF WatchFile, AgentCall, InUser
<1>9. ASSUME NEW p \in Agents, NEW mask \in SUBSET {"MESSAGE", "FILEMOD"}, Unwatch(p, mask)
      PROVE  SourceInv'
  BY <1>9 DEF Unwatch, AgentCall, InUser
<1>10. ASSUME NEW p \in Agents, HeartbeatSet(p)
      PROVE  SourceInv'
  BY <1>10 DEF HeartbeatSet, AgentCall, InUser
<1>11. ASSUME NEW p \in Agents, HeartbeatStop(p)
      PROVE  SourceInv'
  BY <1>11 DEF HeartbeatStop, AgentCall, InUser
<1>12. ASSUME NEW p \in Agents, WaitDone(p)
      PROVE  SourceInv'
  BY <1>12 DEF WaitDone, AgentCall, InUser
<1>13. ASSUME NEW p \in Agents, NEW timeout \in Timeouts, WaitCall(p, timeout)
      PROVE  SourceInv'
  <2>1. box[p].count # 0 => box[p].count > 0
    BY BoxCounts
  <2> QED
    BY SMTT(30), <1>13, <2>1, Sizes DEF WaitCall, InUser, HasSource
<1>14. ASSUME NEW p \in Agents, WaitEnter(p)
      PROVE  SourceInv'
  BY <1>14 DEF WaitEnter
<1>15. ASSUME NEW p \in Agents, WaitMessage(p)
      PROVE  SourceInv'
  BY <1>15 DEF WaitMessage, Turn
<1>16. ASSUME NEW p \in Agents, NEW e \in {"PARENT_GONE", "FILEMOD", "HEARTBEAT"}, WaitEvent(p, e)
      PROVE  SourceInv'
  BY <1>16 DEF WaitEvent, Turn
<1>17. ASSUME NEW p \in Agents, NEW r \in {"TIMEOUT", "CANCELLED"}, WaitOver(p, r)
      PROVE  SourceInv'
  BY <1>17 DEF WaitOver, Turn
<1>18. ASSUME NEW p \in Agents, WaitSleep(p)
      PROVE  SourceInv'
  BY <1>18 DEF WaitSleep, Turn
<1>19. ASSUME NEW p \in Agents, NEW f \in Files, NotifyFile(p, f)
      PROVE  SourceInv'
  BY <1>19 DEF NotifyFile, Signal, Wakened
<1>20. ASSUME NEW p \in Agents, SignalFilemod(p)
      PROVE  SourceInv'
  BY <1>20 DEF SignalFilemod, Signal, Wakened
<1>21. ASSUME NEW p \in Agents, Heartbeat(p)
      PROVE  SourceInv'
  BY <1>21 DEF Heartbeat, Signal, Wakened
<1>22. ASSUME NEW p \in Agents, ParentGone(p)
      PROVE  SourceInv'
  BY <1>22 DEF ParentGone, Signal, Wakened
<1>23. ASSUME NEW p \in Agents, Kill(p)
      PROVE  SourceInv'
  BY <1>23 DEF Kill, Wakened
<1>24. ASSUME NEW p \in Agents, ChildExit(p)
      PROVE  SourceInv'
  BY <1>24 DEF ChildExit
<1>25. ASSUME NEW p \in Agents, Exit(p)
      PROVE  SourceInv'
  BY <1>25 DEF Exit
<1>26. ASSUME NEW p \in Agents, Reap(p)
      PROVE  SourceInv'
  BY <1>26 DEF Reap, WhereInv
<1>27. ASSUME Tick
      PROVE  SourceInv'
  BY <1>27 DEF Tick
<1>28. ASSUME TickStep
      PROVE  SourceInv'
  BY <1>28 DEF TickStep
<1>29. ASSUME UNCHANGED vars
      PROVE  SourceInv'
  BY <1>29 DEF vars
<1> HIDE DEF TypeOK, eventVars, clockVars, Agents, SourceInv
<1> QED
  BY <1>1, <1>2, <1>3, <1>4, <1>5, <1>6, <1>7, <1>8, <1>9, <1>10, <1>11, <1>12, <1>13, <1>14, <1>15, <1>16, <1>17, <1>18, <1>19, <1>20, <1>21, <1>22, <1>23, <1>24, <1>25, <1>26, <1>27, <1>28, <1>29 DEF Next, Continue, Call, Others

\* Every step wakes the sleeper it gives a reason to wake.
LEMMA WakeStep ==
    ASSUME TypeOK, TypeOK', WhereInv, NoLostWakeup, [Next]_vars
    PROVE  NoLostWakeup'
<1> USE DEF TypeOK, eventVars, clockVars, Agents, NoLostWakeup
<1>1. ASSUME NEW p \in Agents, MarkBegin(p)
      PROVE  NoLostWakeup'
  BY <1>1 DEF MarkBegin, InUser
<1>2. ASSUME NEW p \in Agents, MarkClear(p)
      PROVE  NoLostWakeup'
  BY <1>2 DEF MarkClear, WhereInv
<1>3. ASSUME NEW p \in Agents, MarkNext(p)
      PROVE  NoLostWakeup'
  BY <1>3 DEF MarkNext, WhereInv
<1>4. ASSUME NEW p \in Agents, NEW t \in Agents, SendPut(p, t)
      PROVE  NoLostWakeup'
  BY <1>4 DEF SendPut, MaySend, InUser
<1>5. ASSUME NEW p \in Agents, SendCount(p)
      PROVE  NoLostWakeup'
  BY <1>5 DEF SendCount, Signal, Wakened
<1>6. ASSUME NEW p \in Agents, NEW t \in Agents, SendBusy(p, t)
      PROVE  NoLostWakeup'
  BY <1>6 DEF SendBusy
<1>7. ASSUME NEW p \in Agents, NEW e \in {"MESSAGE", "FILEMOD"}, Watch(p, e)
      PROVE  NoLostWakeup'
  BY <1>7 DEF Watch
<1>8. ASSUME NEW p \in Agents, NEW f \in Files, WatchFile(p, f)
      PROVE  NoLostWakeup'
  BY <1>8 DEF WatchFile
<1>9. ASSUME NEW p \in Agents, NEW mask \in SUBSET {"MESSAGE", "FILEMOD"}, Unwatch(p, mask)
      PROVE  NoLostWakeup'
  BY <1>9 DEF Unwatch, AgentCall, InUser
<1>10. ASSUME NEW p \in Agents, HeartbeatSet(p)
      PROVE  NoLostWakeup'
  BY <1>10 DEF HeartbeatSet, AgentCall, InUser
<1>11. ASSUME NEW p \in Agents, HeartbeatStop(p)
      PROVE  NoLostWakeup'
  BY <1>11 DEF HeartbeatStop, AgentCall, InUser
<1>12. ASSUME NEW p \in Agents, WaitDone(p)
      PROVE  NoLostWakeup'
  BY <1>12 DEF WaitDone, AgentCall, InUser
<1>13. ASSUME NEW p \in Agents, NEW timeout \in Timeouts, WaitCall(p, timeout)
      PROVE  NoLostWakeup'
  BY <1>13 DEF WaitCall
<1>14. ASSUME NEW p \in Agents, WaitEnter(p)
      PROVE  NoLostWakeup'
  BY <1>14 DEF WaitEnter
<1>15. ASSUME NEW p \in Agents, WaitMessage(p)
      PROVE  NoLostWakeup'
  BY <1>15 DEF WaitMessage, Turn
<1>16. ASSUME NEW p \in Agents, NEW e \in {"PARENT_GONE", "FILEMOD", "HEARTBEAT"}, WaitEvent(p, e)
      PROVE  NoLostWakeup'
  BY <1>16 DEF WaitEvent, Turn
<1>17. ASSUME NEW p \in Agents, NEW r \in {"TIMEOUT", "CANCELLED"}, WaitOver(p, r)
      PROVE  NoLostWakeup'
  BY <1>17 DEF WaitOver, Turn
<1>18. ASSUME NEW p \in Agents, WaitSleep(p)
      PROVE  NoLostWakeup'
  <2>1. Reason(p) = "NONE"
    BY <1>18 DEF WaitSleep, Turn
  <2>2. box[p].count = 0
    BY SMTT(30), <2>1, BoxCounts DEF Reason
  <2>3. /\ p \notin killed
        /\ "PARENT_GONE" \notin pend[p] /\ "FILEMOD" \notin pend[p]
        /\ "HEARTBEAT" \notin pend[p]
    BY <2>1 DEF Reason
  <2>4. pend[p] \subseteq {"MESSAGE"}
    <3>1. pend[p] \in SUBSET Events
      OBVIOUS
    <3> HIDE DEF TypeOK
    <3> QED
      BY <2>3, <3>1 DEF Events
  <2> QED
    BY <1>18, <2>2, <2>3, <2>4 DEF WaitSleep
<1>19. ASSUME NEW p \in Agents, NEW f \in Files, NotifyFile(p, f)
      PROVE  NoLostWakeup'
  BY <1>19 DEF NotifyFile, Signal, Wakened
<1>20. ASSUME NEW p \in Agents, SignalFilemod(p)
      PROVE  NoLostWakeup'
  BY <1>20 DEF SignalFilemod, Signal, Wakened
<1>21. ASSUME NEW p \in Agents, Heartbeat(p)
      PROVE  NoLostWakeup'
  BY <1>21 DEF Heartbeat, Signal, Wakened
<1>22. ASSUME NEW p \in Agents, ParentGone(p)
      PROVE  NoLostWakeup'
  BY <1>22 DEF ParentGone, Signal, Wakened
<1>23. ASSUME NEW p \in Agents, Kill(p)
      PROVE  NoLostWakeup'
  BY <1>23 DEF Kill, Wakened
<1>24. ASSUME NEW p \in Agents, ChildExit(p)
      PROVE  NoLostWakeup'
  BY <1>24 DEF ChildExit
<1>25. ASSUME NEW p \in Agents, Exit(p)
      PROVE  NoLostWakeup'
  BY <1>25 DEF Exit
<1>26. ASSUME NEW p \in Agents, Reap(p)
      PROVE  NoLostWakeup'
  BY <1>26 DEF Reap
<1>27. ASSUME Tick
      PROVE  NoLostWakeup'
  BY <1>27 DEF Tick
<1>28. ASSUME TickStep
      PROVE  NoLostWakeup'
  BY <1>28 DEF TickStep
<1>29. ASSUME UNCHANGED vars
      PROVE  NoLostWakeup'
  BY <1>29 DEF vars
<1> HIDE DEF TypeOK, eventVars, clockVars, Agents, NoLostWakeup
<1> QED
  BY <1>1, <1>2, <1>3, <1>4, <1>5, <1>6, <1>7, <1>8, <1>9, <1>10, <1>11, <1>12, <1>13, <1>14, <1>15, <1>16, <1>17, <1>18, <1>19, <1>20, <1>21, <1>22, <1>23, <1>24, <1>25, <1>26, <1>27, <1>28, <1>29 DEF Next, Continue, Call, Others

\* Every step leaves a sleeper something to wait for.
LEMMA SourcedStep ==
    ASSUME TypeOK, TypeOK', WhereInv, SourceInv, SleeperHasSource, [Next]_vars
    PROVE  SleeperHasSource'
<1> USE DEF TypeOK, eventVars, clockVars, Agents, SleeperHasSource
<1>1. ASSUME NEW p \in Agents, MarkBegin(p)
      PROVE  SleeperHasSource'
  BY <1>1 DEF MarkBegin, InUser
<1>2. ASSUME NEW p \in Agents, MarkClear(p)
      PROVE  SleeperHasSource'
  BY <1>2 DEF MarkClear
<1>3. ASSUME NEW p \in Agents, MarkNext(p)
      PROVE  SleeperHasSource'
  BY <1>3 DEF MarkNext, WhereInv
<1>4. ASSUME NEW p \in Agents, NEW t \in Agents, SendPut(p, t)
      PROVE  SleeperHasSource'
  BY <1>4 DEF SendPut, MaySend, InUser
<1>5. ASSUME NEW p \in Agents, SendCount(p)
      PROVE  SleeperHasSource'
  BY <1>5 DEF SendCount, Signal, Wakened
<1>6. ASSUME NEW p \in Agents, NEW t \in Agents, SendBusy(p, t)
      PROVE  SleeperHasSource'
  BY <1>6 DEF SendBusy
<1>7. ASSUME NEW p \in Agents, NEW e \in {"MESSAGE", "FILEMOD"}, Watch(p, e)
      PROVE  SleeperHasSource'
  BY <1>7 DEF Watch, AgentCall, InUser
<1>8. ASSUME NEW p \in Agents, NEW f \in Files, WatchFile(p, f)
      PROVE  SleeperHasSource'
  BY <1>8 DEF WatchFile, AgentCall, InUser
<1>9. ASSUME NEW p \in Agents, NEW mask \in SUBSET {"MESSAGE", "FILEMOD"}, Unwatch(p, mask)
      PROVE  SleeperHasSource'
  BY <1>9 DEF Unwatch, AgentCall, InUser
<1>10. ASSUME NEW p \in Agents, HeartbeatSet(p)
      PROVE  SleeperHasSource'
  BY <1>10 DEF HeartbeatSet, AgentCall, InUser
<1>11. ASSUME NEW p \in Agents, HeartbeatStop(p)
      PROVE  SleeperHasSource'
  BY <1>11 DEF HeartbeatStop, AgentCall, InUser
<1>12. ASSUME NEW p \in Agents, WaitDone(p)
      PROVE  SleeperHasSource'
  BY <1>12 DEF WaitDone, AgentCall, InUser
<1>13. ASSUME NEW p \in Agents, NEW timeout \in Timeouts, WaitCall(p, timeout)
      PROVE  SleeperHasSource'
  BY <1>13 DEF WaitCall
<1>14. ASSUME NEW p \in Agents, WaitEnter(p)
      PROVE  SleeperHasSource'
  BY <1>14 DEF WaitEnter, WhereInv
<1>15. ASSUME NEW p \in Agents, WaitMessage(p)
      PROVE  SleeperHasSource'
  BY <1>15 DEF WaitMessage, Turn
<1>16. ASSUME NEW p \in Agents, NEW e \in {"PARENT_GONE", "FILEMOD", "HEARTBEAT"}, WaitEvent(p, e)
      PROVE  SleeperHasSource'
  BY <1>16 DEF WaitEvent, Turn
<1>17. ASSUME NEW p \in Agents, NEW r \in {"TIMEOUT", "CANCELLED"}, WaitOver(p, r)
      PROVE  SleeperHasSource'
  BY <1>17 DEF WaitOver, Turn
<1>18. ASSUME NEW p \in Agents, WaitSleep(p)
      PROVE  SleeperHasSource'
  BY <1>18 DEF WaitSleep, Turn, Reason, SourceInv
<1>19. ASSUME NEW p \in Agents, NEW f \in Files, NotifyFile(p, f)
      PROVE  SleeperHasSource'
  BY <1>19 DEF NotifyFile, Signal, Wakened
<1>20. ASSUME NEW p \in Agents, SignalFilemod(p)
      PROVE  SleeperHasSource'
  BY <1>20 DEF SignalFilemod, Signal, Wakened
<1>21. ASSUME NEW p \in Agents, Heartbeat(p)
      PROVE  SleeperHasSource'
  BY <1>21 DEF Heartbeat, Signal, Wakened
<1>22. ASSUME NEW p \in Agents, ParentGone(p)
      PROVE  SleeperHasSource'
  BY <1>22 DEF ParentGone, Signal, Wakened
<1>23. ASSUME NEW p \in Agents, Kill(p)
      PROVE  SleeperHasSource'
  BY <1>23 DEF Kill, Wakened
<1>24. ASSUME NEW p \in Agents, ChildExit(p)
      PROVE  SleeperHasSource'
  BY <1>24 DEF ChildExit
<1>25. ASSUME NEW p \in Agents, Exit(p)
      PROVE  SleeperHasSource'
  BY <1>25 DEF Exit
<1>26. ASSUME NEW p \in Agents, Reap(p)
      PROVE  SleeperHasSource'
  BY <1>26 DEF Reap
<1>27. ASSUME Tick
      PROVE  SleeperHasSource'
  BY <1>27 DEF Tick
<1>28. ASSUME TickStep
      PROVE  SleeperHasSource'
  BY <1>28 DEF TickStep
<1>29. ASSUME UNCHANGED vars
      PROVE  SleeperHasSource'
  BY <1>29 DEF vars
<1> HIDE DEF TypeOK, eventVars, clockVars, Agents, SleeperHasSource
<1> QED
  BY <1>1, <1>2, <1>3, <1>4, <1>5, <1>6, <1>7, <1>8, <1>9, <1>10, <1>11, <1>12, <1>13, <1>14, <1>15, <1>16, <1>17, <1>18, <1>19, <1>20, <1>21, <1>22, <1>23, <1>24, <1>25, <1>26, <1>27, <1>28, <1>29 DEF Next, Continue, Call, Others

\* Every step leaves a sleeper that is due to the scan of the clock.
LEMMA DueStep ==
    ASSUME TypeOK, TypeOK', WhereInv, NoLostWakeup, TimeoutNotMissed, [Next]_vars
    PROVE  TimeoutNotMissed'
<1> USE DEF TypeOK, eventVars, clockVars, Agents, TimeoutNotMissed
<1>1. ASSUME NEW p \in Agents, MarkBegin(p)
      PROVE  TimeoutNotMissed'
  BY <1>1 DEF MarkBegin, InUser
<1>2. ASSUME NEW p \in Agents, MarkClear(p)
      PROVE  TimeoutNotMissed'
  BY <1>2 DEF MarkClear
<1>3. ASSUME NEW p \in Agents, MarkNext(p)
      PROVE  TimeoutNotMissed'
  BY SMTT(30), <1>3 DEF MarkNext, WhereInv
<1>4. ASSUME NEW p \in Agents, NEW t \in Agents, SendPut(p, t)
      PROVE  TimeoutNotMissed'
  BY <1>4 DEF SendPut, MaySend, InUser
<1>5. ASSUME NEW p \in Agents, SendCount(p)
      PROVE  TimeoutNotMissed'
  BY <1>5 DEF SendCount, Signal, Wakened
<1>6. ASSUME NEW p \in Agents, NEW t \in Agents, SendBusy(p, t)
      PROVE  TimeoutNotMissed'
  BY <1>6 DEF SendBusy
<1>7. ASSUME NEW p \in Agents, NEW e \in {"MESSAGE", "FILEMOD"}, Watch(p, e)
      PROVE  TimeoutNotMissed'
  BY <1>7 DEF Watch, AgentCall, InUser
<1>8. ASSUME NEW p \in Agents, NEW f \in Files, WatchFile(p, f)
      PROVE  TimeoutNotMissed'
  BY <1>8 DEF WatchFile, AgentCall, InUser
<1>9. ASSUME NEW p \in Agents, NEW mask \in SUBSET {"MESSAGE", "FILEMOD"}, Unwatch(p, mask)
      PROVE  TimeoutNotMissed'
  BY <1>9 DEF Unwatch
<1>10. ASSUME NEW p \in Agents, HeartbeatSet(p)
      PROVE  TimeoutNotMissed'
  BY <1>10 DEF HeartbeatSet
<1>11. ASSUME NEW p \in Agents, HeartbeatStop(p)
      PROVE  TimeoutNotMissed'
  BY <1>11 DEF HeartbeatStop
<1>12. ASSUME NEW p \in Agents, WaitDone(p)
      PROVE  TimeoutNotMissed'
  BY <1>12 DEF WaitDone, AgentCall, InUser
<1>13. ASSUME NEW p \in Agents, NEW timeout \in Timeouts, WaitCall(p, timeout)
      PROVE  TimeoutNotMissed'
  BY <1>13 DEF WaitCall
<1>14. ASSUME NEW p \in Agents, WaitEnter(p)
      PROVE  TimeoutNotMissed'
  BY <1>14 DEF WaitEnter, WhereInv
<1>15. ASSUME NEW p \in Agents, WaitMessage(p)
      PROVE  TimeoutNotMissed'
  BY <1>15 DEF WaitMessage, Turn
<1>16. ASSUME NEW p \in Agents, NEW e \in {"PARENT_GONE", "FILEMOD", "HEARTBEAT"}, WaitEvent(p, e)
      PROVE  TimeoutNotMissed'
  BY <1>16 DEF WaitEvent, Turn
<1>17. ASSUME NEW p \in Agents, NEW r \in {"TIMEOUT", "CANCELLED"}, WaitOver(p, r)
      PROVE  TimeoutNotMissed'
  BY <1>17 DEF WaitOver, Turn
<1>18. ASSUME NEW p \in Agents, WaitSleep(p)
      PROVE  TimeoutNotMissed'
  BY <1>18 DEF WaitSleep, Turn, Reason, Expired
<1>19. ASSUME NEW p \in Agents, NEW f \in Files, NotifyFile(p, f)
      PROVE  TimeoutNotMissed'
  BY <1>19 DEF NotifyFile, Signal, Wakened
<1>20. ASSUME NEW p \in Agents, SignalFilemod(p)
      PROVE  TimeoutNotMissed'
  BY <1>20 DEF SignalFilemod, Signal, Wakened
<1>21. ASSUME NEW p \in Agents, Heartbeat(p)
      PROVE  TimeoutNotMissed'
  BY <1>21 DEF Heartbeat, Signal, Wakened
<1>22. ASSUME NEW p \in Agents, ParentGone(p)
      PROVE  TimeoutNotMissed'
  BY <1>22 DEF ParentGone, Signal, Wakened
<1>23. ASSUME NEW p \in Agents, Kill(p)
      PROVE  TimeoutNotMissed'
  BY <1>23 DEF Kill, Wakened
<1>24. ASSUME NEW p \in Agents, ChildExit(p)
      PROVE  TimeoutNotMissed'
  BY <1>24 DEF ChildExit
<1>25. ASSUME NEW p \in Agents, Exit(p)
      PROVE  TimeoutNotMissed'
  BY <1>25 DEF Exit
<1>26. ASSUME NEW p \in Agents, Reap(p)
      PROVE  TimeoutNotMissed'
  BY <1>26 DEF Reap
<1>27. ASSUME Tick
      PROVE  TimeoutNotMissed'
  BY <1>27 DEF Tick
<1>28. ASSUME TickStep
      PROVE  TimeoutNotMissed'
  BY <1>28 DEF TickStep, Expired, WhereInv, NoLostWakeup
<1>29. ASSUME UNCHANGED vars
      PROVE  TimeoutNotMissed'
  BY <1>29 DEF vars
<1> HIDE DEF TypeOK, eventVars, clockVars, Agents, TimeoutNotMissed
<1> QED
  BY <1>1, <1>2, <1>3, <1>4, <1>5, <1>6, <1>7, <1>8, <1>9, <1>10, <1>11, <1>12, <1>13, <1>14, <1>15, <1>16, <1>17, <1>18, <1>19, <1>20, <1>21, <1>22, <1>23, <1>24, <1>25, <1>26, <1>27, <1>28, <1>29 DEF Next, Continue, Call, Others

-----------------------------------------------------------------------------
(* The theorems.                                                           *)

\* The inductive invariant.
WaitInv ==
    /\ TypeOK /\ SendInv /\ WhereInv /\ SourceInv
    /\ NoLostWakeup /\ SleeperHasSource /\ TimeoutNotMissed

\* It holds in every reachable state.
LEMMA WaitInductive == Spec => []WaitInv
<1>1. Init => TypeOK
  <2>1. Init => box \in [Agents -> Boxes]
    BY NewBoxes DEF Init
  <2> QED
    BY <2>1, WaitAssumption DEF Init, TypeOK, NoMsg
<1>2. Init => SendInv /\ WhereInv /\ SourceInv
  BY DEF Init, SendInv, WhereInv, SourceInv, EmptyBox, ZeroBox
<1>3. Init => NoLostWakeup /\ SleeperHasSource /\ TimeoutNotMissed
  BY DEF Init, NoLostWakeup, SleeperHasSource, TimeoutNotMissed
<1>4. WaitInv /\ [Next]_vars => WaitInv'
  <2>1. WaitInv /\ [Next]_vars => TypeOK'
    BY TypeStep DEF WaitInv
  <2>2. WaitInv /\ [Next]_vars => SendInv' /\ WhereInv' /\ SourceInv'
    BY <2>1, SendStep, WhereStep, SourceStep DEF WaitInv
  <2>3. WaitInv /\ [Next]_vars =>
          NoLostWakeup' /\ SleeperHasSource' /\ TimeoutNotMissed'
    BY <2>1, WakeStep, SourcedStep, DueStep DEF WaitInv
  <2> QED
    BY <2>1, <2>2, <2>3 DEF WaitInv
<1> QED
  BY <1>1, <1>2, <1>3, <1>4, PTL DEF Spec, WaitInv

\* Types, and the indices of the mailboxes, whatever agent_create clears
\* while a message is put into the ring.
THEOREM WaitTypes == Spec => []TypeOK
BY WaitInductive, PTL DEF WaitInv

\* agent_proc_wait loses no wakeup.
THEOREM NoWakeupIsLost == Spec => []NoLostWakeup
BY WaitInductive, PTL DEF WaitInv

\* agent_proc_wait never sleeps without a source of events.
THEOREM SleepersHaveSources == Spec => []SleeperHasSource
BY WaitInductive, PTL DEF WaitInv

\* agent_tick and agent_proc_wait between them miss no timeout.
THEOREM TimeoutsAreNotMissed == Spec => []TimeoutNotMissed
BY WaitInductive, PTL DEF WaitInv

----------------------------------------------------------------------------
\* The slot of the i-th message of a mailbox whose head is h, and the messages
\* of b, if there are n.
At(h, i) == IF h + i - 1 < Cap THEN h + i - 1 ELSE h + i - 1 - Cap
View(b, n) == [i \in 1..n |-> b.ring[At(b.head, i)]]

Messages == (Agents \cup {0}) \X Nat

LEMMA SeqIsFunction ==
    ASSUME NEW S, NEW s \in Seq(S), NEW n \in Nat, Len(s) = n
    PROVE  s = [i \in 1..n |-> s[i]]
OBVIOUS

LEMMA SlotIs ==
    ASSUME NEW h \in 0..(Cap - 1), NEW i \in 1..Cap
    PROVE  (h + i - 1) % Cap = At(h, i)
<1> DEFINE x == h + i - 1
           d == x \div Cap
<1>1. Cap \in Nat /\ Cap > 0 /\ x \in Nat /\ x < Cap + Cap
  BY Sizes
<1> HIDE DEF x
<1>2. d \in Nat /\ Cap * d <= x /\ x < Cap * d + Cap /\ x % Cap = x - Cap * d
  BY <1>1
<1> HIDE DEF d
<1>3. CASE d = 0
  <2>1. Cap * d = 0
    BY <1>1, <1>3
  <2> QED
    BY <1>1, <1>2, <2>1 DEF At, x
<1>4. CASE d = 1
  <2>1. Cap * d = Cap
    BY <1>1, <1>4
  <2> QED
    BY <1>1, <1>2, <2>1 DEF At, x
<1>5. CASE d >= 2
  <2>1. PICK e \in Nat : d = 2 + e
    BY <1>2, <1>5
  <2>2. Cap * d = Cap + Cap + Cap * e /\ Cap * e \in Nat
    BY <1>1, <2>1
  <2> QED
    BY <1>1, <1>2, <2>2
<1> QED
  BY <1>2, <1>3, <1>4, <1>5

LEMMA AtInRing ==
    ASSUME NEW h \in 0..(Cap - 1)
    PROVE  /\ \A i \in 1..(Cap + 1) : At(h, i) \in 0..(Cap - 1)
           /\ \A i \in 1..(Cap + 1), j \in 1..(Cap + 1) :
                i < j /\ j < i + Cap => At(h, i) # At(h, j)
           /\ \A i \in 1..Cap : After(At(h, i)) = At(h, i + 1) /\ At(After(h), i) = At(h, i + 1)
           /\ At(h, 1) = h
BY Sizes DEF At, After

LEMMA ViewType ==
    ASSUME NEW b \in Boxes, NEW n \in 0..Cap
    PROVE  View(b, n) \in Seq(Messages) /\ Len(View(b, n)) = n
<1>1. n \in Nat /\ b.head \in 0..(Cap - 1)
  BY Sizes DEF Boxes
<1>2. \A i \in 1..n : i \in 1..(Cap + 1)
  BY Sizes
<1>3. \A i \in 1..n : b.ring[At(b.head, i)] \in Messages
  BY <1>1, <1>2, AtInRing DEF Boxes, Messages
<1> QED
  BY <1>1, <1>3 DEF View

LEMMA ViewPut ==
    ASSUME NEW b \in Boxes, NEW n \in 0..(Cap - 1), NEW m \in Messages, NEW c,
           b.tail = At(b.head, n + 1), c.head = b.head, c.tail = After(b.tail),
           c.ring = [b.ring EXCEPT ![b.tail] = m]
    PROVE  View(c, n + 1) = Append(View(b, n), m) /\ c.tail = At(c.head, n + 2)
<1>0. n \in Nat /\ n \in 0..Cap /\ n + 1 \in 1..Cap /\ n + 1 \in 1..(Cap + 1) /\ n + 1 + 1 = n + 2
  BY Sizes
<1>1. b.head \in 0..(Cap - 1) /\ b.tail \in 0..(Cap - 1)
      /\ b.ring \in [0..(Cap - 1) -> Messages]
  BY DEF Boxes, Messages
<1>2. c.tail = At(c.head, n + 2)
  BY <1>0, <1>1, AtInRing
<1>3. View(b, n) \in Seq(Messages) /\ Len(View(b, n)) = n
  BY <1>0, ViewType
<1>4. ASSUME NEW i \in 1..(n + 1)
      PROVE  c.ring[At(c.head, i)] = IF i <= n THEN View(b, n)[i] ELSE m
  <2>1. i \in 1..(Cap + 1) /\ (i <= n => i < n + 1 /\ n + 1 < i + Cap /\ i \in 1..n)
    BY <1>0, Sizes
  <2>2. At(b.head, i) \in 0..(Cap - 1)
    BY <1>1, <2>1, AtInRing
  <2>3. CASE i <= n
    <3>1. i < n + 1 /\ n + 1 < i + Cap /\ n + 1 \in 1..(Cap + 1)
      BY <1>0, <2>1, <2>3
    <3>2. At(b.head, i) # At(b.head, n + 1)
      <4>1. \A k \in 1..(Cap + 1), j \in 1..(Cap + 1) :
                k < j /\ j < k + Cap => At(b.head, k) # At(b.head, j)
        BY <1>1, AtInRing
      <4> QED
        BY <2>1, <3>1, <4>1
    <3>3. At(b.head, i) # b.tail
      BY <3>2
    <3> QED
      BY <1>1, <2>1, <2>2, <2>3, <3>3 DEF View
  <2>4. CASE ~(i <= n)
    <3>1. i = n + 1
      BY <1>0, <2>4
    <3> QED
      BY <1>1, <2>4, <3>1
  <2> QED
    BY <2>3, <2>4
<1>5. Append(View(b, n), m) = [i \in 1..(n + 1) |-> IF i <= n THEN View(b, n)[i] ELSE m]
  <2> DEFINE s == View(b, n)
  <2>1. s \in Seq(Messages) /\ Len(s) = n
    BY <1>3
  <2> HIDE DEF s
  <2>2. Append(s, m) \in Seq(Messages) /\ Len(Append(s, m)) = n + 1
    BY <2>1
  <2>3. \A i \in 1..(n + 1) : Append(s, m)[i] = IF i <= n THEN s[i] ELSE m
    BY <1>0, <2>1
  <2>4. Append(s, m) = [i \in 1..(n + 1) |-> Append(s, m)[i]]
    <3> DEFINE t == Append(s, m)
    <3>1. t \in Seq(Messages) /\ Len(t) = n + 1 /\ n + 1 \in Nat
      BY <1>0, <2>2
    <3> HIDE DEF t
    <3>2. t = [i \in 1..(n + 1) |-> t[i]]
      BY <3>1, SeqIsFunction
    <3> QED
      BY <3>2 DEF t
  <2> QED
    BY <2>3, <2>4, Zenon DEF s
<1>6. View(c, n + 1) = [i \in 1..(n + 1) |-> IF i <= n THEN View(b, n)[i] ELSE m]
  <2> HIDE DEF View
  <2> QED
    BY <1>4, Zenon DEF View
<1> QED
  BY <1>2, <1>5, <1>6

LEMMA ViewTake ==
    ASSUME NEW b \in Boxes, NEW n \in 1..Cap, NEW c, NEW m,
           c.head = After(b.head), c.ring = [b.ring EXCEPT ![b.head] = m]
    PROVE  /\ View(c, n - 1) = Tail(View(b, n)) /\ Head(View(b, n)) = b.ring[b.head]
           /\ View(b, n) # <<>>
<1>0. n \in Nat /\ n \in 0..Cap /\ 1 \in 1..n /\ 1 \in 1..(Cap + 1) /\ n # 0 /\ n - 1 \in Nat
  BY Sizes
<1>1. b.head \in 0..(Cap - 1) /\ b.ring \in [0..(Cap - 1) -> Messages]
  BY DEF Boxes, Messages
<1> DEFINE s == View(b, n)
<1>3. s \in Seq(Messages) /\ Len(s) = n
  BY <1>0, ViewType
<1>4. s[1] = b.ring[b.head] /\ \A i \in 1..(n - 1) : s[i + 1] = b.ring[At(b.head, i + 1)]
  <2>1. At(b.head, 1) = b.head
    BY <1>1, AtInRing
  <2>2. \A i \in 1..(n - 1) : i + 1 \in 1..n
    BY <1>0
  <2> QED
    BY <1>0, <2>1, <2>2 DEF View
<1> HIDE DEF s
<1>5. ASSUME NEW i \in 1..(n - 1)
      PROVE  c.ring[At(c.head, i)] = s[i + 1]
  <2>1. /\ i \in 1..Cap /\ i + 1 \in 1..(Cap + 1) /\ 1 < i + 1 /\ i + 1 < 1 + Cap
    BY <1>0, Sizes
  <2>2. /\ At(c.head, i) = At(b.head, i + 1) /\ At(b.head, i + 1) # b.head
        /\ At(b.head, i + 1) \in 0..(Cap - 1)
    BY <1>0, <1>1, <2>1, AtInRing
  <2> QED
    BY <1>1, <1>4, <2>2
<1>6. Tail(s) = [i \in 1..(n - 1) |-> s[i + 1]] /\ Head(s) = s[1] /\ s # <<>>
  <2>1. Tail(s) \in Seq(Messages) /\ Len(Tail(s)) = n - 1 /\ Head(s) = s[1] /\ s # <<>>
    BY <1>0, <1>3
  <2>2. \A i \in 1..(n - 1) : Tail(s)[i] = s[i + 1]
    BY <1>0, <1>3
  <2>3. Tail(s) = [i \in 1..(n - 1) |-> Tail(s)[i]]
    <3> DEFINE t == Tail(s)
    <3>1. t \in Seq(Messages) /\ Len(t) = n - 1
      BY <2>1
    <3> HIDE DEF t
    <3>2. t = [i \in 1..(n - 1) |-> t[i]]
      BY <1>0, <3>1, SeqIsFunction
    <3> QED
      BY <3>2 DEF t
  <2> QED
    BY <2>1, <2>2, <2>3, Zenon
<1>7. View(c, n - 1) = [i \in 1..(n - 1) |-> s[i + 1]]
  BY <1>5, Zenon DEF View
<1> QED
  BY <1>4, <1>6, <1>7 DEF s

----------------------------------------------------------------------------
\* Who is written to; and the messages in a mailbox, with the one that its
\* sender has not counted.
Targets == {t \in Agents : \E s \in Agents : <<s, t>> \in Peers}
Written(t) == box[t].count + (IF Putting(t) THEN 1 ELSE 0)

\* The tail of a mailbox is where its messages end; a process that is written
\* to is in none of the parts of agent_create; who is not has no message.
MailInv ==
    /\ \A s \in Agents : pc[s] = "send_count" => arg[s] \in Targets
    /\ \A t \in Targets : /\ pc[t] # "mark_clear" /\ pc[t] # "mark_next"
                          /\ box[t].tail = At(box[t].head, Written(t) + 1)
    /\ \A t \in Agents : t \notin Targets =>
          /\ box[t].count = 0
          /\ pc[t] # "mark_next" => box[t].next = 1

\* No program writes to one that calls agent_create.
Apart == \A t \in Targets : Calls[t] \cap {"begin", "create"} = {}

LEMMA Waiting ==
    ASSUME TypeOK, SendInv, MailInv
    PROVE  \A t \in Agents :
             /\ Written(t) \in 0..Cap /\ box[t] \in Boxes
             /\ Putting(t) => lock[t] # 0 /\ Written(t) = box[t].count + 1 /\ t \in Targets
             /\ ~ Putting(t) => Written(t) = box[t].count
             /\ t \notin Targets => Written(t) = 0
<1> TAKE t \in Agents
<1>1. box[t] \in Boxes /\ box[t].count \in 0..Cap /\ Cap \in Nat
  BY Sizes DEF TypeOK, Boxes
<1>2. CASE Putting(t)
  <2>1. PICK s \in Agents : pc[s] = "send_count" /\ arg[s] = t
    BY <1>2 DEF Putting
  <2>2. lock[t] = s /\ box[t].count < Cap /\ t \in Targets
    BY <2>1 DEF SendInv, MailInv
  <2>3. s # 0
    BY DEF Agents
  <2> QED
    BY <1>1, <1>2, <2>2, <2>3 DEF Written
<1>3. CASE ~ Putting(t)
  BY <1>1, <1>3 DEF Written, MailInv
<1> QED
  BY <1>2, <1>3

LEMMA QueueIsView ==
    ASSUME TypeOK, SendInv, MailInv, NEW t \in Agents
    PROVE  Queue(t) = View(box[t], Written(t))
<1>1. /\ Written(t) \in 0..Cap /\ box[t] \in Boxes
  BY Waiting
<1>2. box[t].head \in 0..(Cap - 1)
  BY <1>1 DEF Boxes
<1>3. \A i \in 1..Written(t) : (box[t].head + i - 1) % Cap = At(box[t].head, i)
  <2>1. \A i \in 1..Written(t) : i \in 1..Cap
    BY <1>1, Sizes
  <2> QED
    BY <1>2, <2>1, SlotIs
<1>4. Queue(t) = [i \in 1..Written(t) |-> box[t].ring[(box[t].head + i - 1) % Cap]]
  BY DEF Queue, Written
<1> QED
  BY <1>3, <1>4, Zenon DEF View

QueuesAreViews == \A t \in Agents : Queue(t) = View(box[t], Written(t))

LEMMA QueuesNow == TypeOK /\ SendInv /\ MailInv => QueuesAreViews
BY QueueIsView DEF QueuesAreViews

LEMMA QueuesNext == TypeOK' /\ SendInv' /\ MailInv' => QueuesAreViews'
BY QueuesNow, PTL

LEMMA QueuesBefore ==
    ASSUME TypeOK, SendInv, MailInv, TypeOK', SendInv', MailInv'
    PROVE  \A t \in Agents : /\ Queue(t) = View(box[t], Written(t))
                             /\ Queue(t)' = View(box'[t], Written(t)')
<1>1. QueuesAreViews /\ QueuesAreViews'
  BY QueuesNow, QueuesNext
<1> QED
  BY <1>1 DEF QueuesAreViews, View, At

\* The number of the next message, as Mailboxes sees it.
Numbered(t) == IF pc[t] = "mark_next" THEN 1 ELSE box[t].next
Over == {t \in Agents : loop[t] = "DONE" \/ st[t] = "UNUSED"}

AbstractStep ==
    [Fifo!Next]_<<[t \in Agents |-> Queue(t)], [t \in Agents |-> Numbered(t)], got, Over>>

LEMMA ChangeStep ==
    ASSUME \A t \in Agents : Queue(t)' = Queue(t) /\ Numbered(t)' = Numbered(t), got' = got
    PROVE  AbstractStep
<1>1. [t \in Agents |-> Queue(t)]' = [t \in Agents |-> Queue(t)]
  BY Zenon DEF Agents
<1>2. [t \in Agents |-> Numbered(t)]' = [t \in Agents |-> Numbered(t)]
  BY Zenon DEF Agents
<1>3. Over' \subseteq Agents
  BY DEF Over, Agents
<1>4. Fifo!Next
  <2> HIDE DEF Agents, Queue, Numbered, Over
  <2>1. Fifo!Change
    BY <1>1, <1>2, Zenon DEF Fifo!Change, Numbered
  <2> QED
    BY <1>3, <2>1, Zenon DEF Fifo!Next, Over
<1> QED
  BY <1>4 DEF AbstractStep

----------------------------------------------------------------------------
\* A step that leaves the mailboxes and what is on the way to them.
Quiet ==
    /\ box' = box /\ got' = got
    /\ \A s \in Agents :
         /\ (pc'[s] = "send_count") <=> (pc[s] = "send_count")
         /\ pc[s] = "send_count" => arg'[s] = arg[s]
         /\ (pc'[s] = "mark_next") <=> (pc[s] = "mark_next")
         /\ pc'[s] = "mark_clear" => pc[s] = "mark_clear" \/ s \notin Targets

LEMMA NextMail ==
    ASSUME \A s \in Agents : pc'[s] = "send_count" => arg'[s] \in Targets,
           \A t \in Targets : /\ pc'[t] # "mark_clear" /\ pc'[t] # "mark_next"
                              /\ box'[t].tail = At(box'[t].head, Written(t)' + 1),
           \A t \in Agents : t \notin Targets =>
              /\ box'[t].count = 0
              /\ pc'[t] # "mark_next" => box'[t].next = 1
    PROVE  MailInv'
BY DEF MailInv

LEMMA QuietStep ==
    ASSUME MailInv, Quiet
    PROVE  MailInv' /\ AbstractStep
<1>1. \A t : Putting(t)' <=> Putting(t)
  BY DEF Quiet, Putting
<1>2. \A t \in Agents : Written(t)' = Written(t) /\ Queue(t)' = Queue(t)
  BY <1>1, Zenon DEF Written, Queue, Quiet
<1>3. \A t \in Agents : Numbered(t)' = Numbered(t)
  BY Zenon DEF Numbered, Quiet
<1>4. AbstractStep
  BY <1>2, <1>3, ChangeStep, Zenon DEF Quiet
<1>5. \A s \in Agents : pc'[s] = "send_count" => arg'[s] \in Targets
  BY Zenon DEF MailInv, Quiet
<1>6. ASSUME NEW t \in Targets
      PROVE  /\ pc'[t] # "mark_clear" /\ pc'[t] # "mark_next"
             /\ box'[t].tail = At(box'[t].head, Written(t)' + 1)
  <2>1. t \in Agents
    BY DEF Targets
  <2>2. pc[t] # "mark_clear" /\ pc[t] # "mark_next"
        /\ box[t].tail = At(box[t].head, Written(t) + 1)
    BY DEF MailInv
  <2>3. box' = box /\ Written(t)' = Written(t)
    BY <1>2, <2>1 DEF Quiet
  <2>4. pc'[t] # "mark_clear" /\ pc'[t] # "mark_next"
    BY <2>1, <2>2, Zenon DEF Quiet
  <2> QED
    BY <2>2, <2>3, <2>4
<1>7. ASSUME NEW t \in Agents, t \notin Targets
      PROVE  /\ box'[t].count = 0
             /\ pc'[t] # "mark_next" => box'[t].next = 1
  BY <1>7, Zenon DEF MailInv, Quiet
<1>8. MailInv'
  BY <1>5, <1>6, <1>7, NextMail
<1> QED
  BY <1>4, <1>8

\* The steps that are quiet, each for a process p.
LEMMA QuietSteps ==
    ASSUME TypeOK, Apart, NEW p \in Agents
    PROVE  /\ MarkBegin(p) => Quiet
           /\ \A t \in Agents : SendBusy(p, t) => Quiet
           /\ \A e : Watch(p, e) => Quiet
           /\ \A f : WatchFile(p, f) => Quiet
           /\ \A mask : Unwatch(p, mask) => Quiet
           /\ HeartbeatSet(p) => Quiet
           /\ HeartbeatStop(p) => Quiet
           /\ \A timeout \in Timeouts : WaitCall(p, timeout) => Quiet
           /\ WaitEnter(p) => Quiet
           /\ \A e : WaitEvent(p, e) => Quiet
           /\ \A r : WaitOver(p, r) => Quiet
           /\ WaitSleep(p) => Quiet
           /\ Exit(p) => Quiet
<1>0. pc \in [Agents -> {"none", "user", "mark_clear", "mark_next",
                          "send_count", "wait_lock", "wait"}]
      /\ arg \in [Agents -> Nat]
  BY DEF TypeOK
<1> USE DEF Quiet
<1>1. MarkBegin(p) => Quiet
  <2>1. MarkBegin(p) => p \notin Targets
    BY DEF Apart, MarkBegin
  <2> QED
    BY <1>0, <2>1 DEF MarkBegin, InUser
<1>2. ASSUME NEW t \in Agents PROVE SendBusy(p, t) => Quiet
  BY DEF SendBusy
<1>3. ASSUME NEW e PROVE Watch(p, e) => Quiet
  BY DEF Watch
<1>4. ASSUME NEW f PROVE WatchFile(p, f) => Quiet
  BY DEF WatchFile
<1>5. ASSUME NEW mask PROVE Unwatch(p, mask) => Quiet
  BY DEF Unwatch
<1>6. (HeartbeatSet(p) => Quiet) /\ (HeartbeatStop(p) => Quiet)
  BY DEF HeartbeatSet, HeartbeatStop
<1>7. ASSUME NEW timeout \in Timeouts PROVE WaitCall(p, timeout) => Quiet
  BY <1>0 DEF WaitCall, InUser
<1>8. WaitEnter(p) => Quiet
  BY <1>0 DEF WaitEnter
<1>9. ASSUME NEW e PROVE WaitEvent(p, e) => Quiet
  BY <1>0 DEF WaitEvent, Turn
<1>10. ASSUME NEW r PROVE WaitOver(p, r) => Quiet
  BY <1>0 DEF WaitOver, Turn
<1>11. WaitSleep(p) => Quiet
  BY DEF WaitSleep
<1>12. Exit(p) => Quiet
  BY <1>0 DEF Exit
<1> QED
  BY <1>1, <1>2, <1>3, <1>4, <1>5, <1>6, <1>7, <1>8, <1>9, <1>10, <1>11, <1>12, Zenon

LEMMA QuietOthers ==
    ASSUME NEW q \in Agents
    PROVE  /\ \A f : NotifyFile(q, f) => Quiet
           /\ SignalFilemod(q) => Quiet
           /\ Heartbeat(q) => Quiet
           /\ ParentGone(q) => Quiet
           /\ Kill(q) => Quiet
           /\ ChildExit(q) => Quiet
           /\ Tick => Quiet
           /\ TickStep => Quiet
           /\ UNCHANGED vars => Quiet
<1> USE DEF Quiet
<1>1. ASSUME NEW f PROVE NotifyFile(q, f) => Quiet
  BY Zenon DEF NotifyFile
<1>2. SignalFilemod(q) => Quiet
  BY Zenon DEF SignalFilemod
<1>3. Heartbeat(q) => Quiet
  BY Zenon DEF Heartbeat
<1>4. ParentGone(q) => Quiet
  BY Zenon DEF ParentGone
<1>5. Kill(q) => Quiet
  BY Zenon DEF Kill
<1>6. ChildExit(q) => Quiet
  BY Zenon DEF ChildExit
<1>7. Tick => Quiet
  BY Zenon DEF Tick
<1>8. TickStep => Quiet
  BY Zenon DEF TickStep
<1>9. UNCHANGED vars => Quiet
  BY DEF vars
<1> QED
  BY <1>1, <1>2, <1>3, <1>4, <1>5, <1>6, <1>7, <1>8, <1>9, Zenon

----------------------------------------------------------------------------
LEMMA AcceptStep ==
    ASSUME NEW s \in Agents, NEW t \in Agents, Fifo!Accept(s, t)
    PROVE  AbstractStep
<1>1. Over' \subseteq Agents
  BY DEF Over, Agents
<1>2. Fifo!Next
  BY <1>1, Zenon DEF Fifo!Next, Over
<1> QED
  BY <1>2 DEF AbstractStep

LEMMA ReceiveStep ==
    ASSUME NEW t \in Agents, Fifo!Receive(t) \/ Fifo!Discard(t)
    PROVE  AbstractStep
<1>1. Over' \subseteq Agents
  BY DEF Over, Agents
<1>2. Fifo!Next
  BY <1>1, Zenon DEF Fifo!Next, Over
<1> QED
  BY <1>2 DEF AbstractStep

LEMMA SendPutStep ==
    ASSUME TypeOK, SendInv, MailInv, TypeOK', SendInv', NEW s \in Agents, NEW t \in Agents,
           SendPut(s, t)
    PROVE  MailInv' /\ AbstractStep
<1> DEFINE n == box[t].count
           m == <<s, box[t].next>>
<1>1. /\ pc[s] = "user" /\ t \in Targets /\ lock[t] = 0 /\ ~ Full(box[t])
      /\ arg' = [arg EXCEPT ![s] = t] /\ pc' = [pc EXCEPT ![s] = "send_count"]
      /\ got' = got
      /\ box' = [box EXCEPT ![t] = [box[t] EXCEPT !.ring[box[t].tail] = m,
                                                  !.next = @ + 1, !.tail = After(@)]]
  BY DEF SendPut, MaySend, InUser, Targets
<1>2. /\ pc \in [Agents -> {"none", "user", "mark_clear", "mark_next",
                            "send_count", "wait_lock", "wait"}]
      /\ arg \in [Agents -> Nat] /\ box[t] \in Boxes /\ box \in [Agents -> Boxes]
      /\ box[t].count = box[t].normal
  BY DEF TypeOK, SendInv
<1>3. /\ Written(t) \in 0..Cap /\ ~ Putting(t) /\ Written(t) = n
  BY <1>1, Waiting
<1>4. n \in 0..(Cap - 1) /\ n < Cap - SystemSlots
  BY <1>1, <1>2, <1>3, Sizes DEF Full
<1>5. /\ box[t].next \in Nat /\ m \in Messages
      /\ \A q \in Agents : q # t => box'[q] = box[q]
      /\ box'[t] = [box[t] EXCEPT !.ring[box[t].tail] = m, !.next = @ + 1, !.tail = After(@)]
  BY <1>1, <1>2 DEF Boxes, Messages
<1>6. /\ box'[t].head = box[t].head /\ box'[t].tail = After(box[t].tail)
      /\ box'[t].ring = [box[t].ring EXCEPT ![box[t].tail] = m]
      /\ box'[t].next = box[t].next + 1 /\ box'[t].count = n
  BY <1>2, <1>5 DEF Boxes
<1> HIDE DEF m
<1>7. box[t].tail = At(box[t].head, n + 1)
  BY <1>1, <1>3 DEF MailInv
<1>8. /\ View(box'[t], n + 1) = Append(View(box[t], n), m)
      /\ box'[t].tail = At(box'[t].head, n + 2)
  <2> DEFINE c == box'[t]
  <2>1. c.head = box[t].head /\ c.tail = After(box[t].tail)
        /\ c.ring = [box[t].ring EXCEPT ![box[t].tail] = m]
    BY <1>6
  <2> HIDE DEF c, n
  <2>2. View(c, n + 1) = Append(View(box[t], n), m) /\ c.tail = At(c.head, n + 2)
    BY <1>2, <1>4, <1>5, <1>7, <2>1, ViewPut
  <2> QED
    BY <2>2 DEF c
<1>9. Putting(t)' /\ \A q \in Agents : q # t => (Putting(q)' <=> Putting(q))
  <2>1. pc'[s] = "send_count" /\ arg'[s] = t /\ \A r \in Agents : r # s => pc'[r] = pc[r] /\ arg'[r] = arg[r]
    BY <1>1, <1>2
  <2> QED
    BY <1>1, <2>1 DEF Putting
<1>10. Written(t)' = n + 1 /\ \A q \in Agents : q # t => Written(q)' = Written(q)
  BY <1>5, <1>6, <1>9 DEF Written
<1>11. MailInv'
  <2>1. \A r \in Agents : pc'[r] = "send_count" => arg'[r] \in Targets
    BY <1>1, <1>2 DEF MailInv
  <2>2. ASSUME NEW q \in Targets
        PROVE  /\ pc'[q] # "mark_clear" /\ pc'[q] # "mark_next"
               /\ box'[q].tail = At(box'[q].head, Written(q)' + 1)
    <3>1. q \in Agents /\ pc[q] # "mark_clear" /\ pc[q] # "mark_next"
          /\ box[q].tail = At(box[q].head, Written(q) + 1)
      BY DEF MailInv, Targets
    <3>2. CASE q = t
      <4>1. n + 1 + 1 = n + 2
        BY <1>4
      <4> QED
        BY <1>1, <1>2, <1>8, <1>10, <3>1, <3>2, <4>1
    <3>3. CASE q # t
      <4>1. box'[q] = box[q] /\ Written(q)' = Written(q)
        BY <1>5, <1>10, <3>1, <3>3
      <4>2. pc'[q] # "mark_clear" /\ pc'[q] # "mark_next"
        BY <1>1, <1>2, <3>1
      <4> QED
        BY <3>1, <4>1, <4>2
    <3> QED
      BY <3>2, <3>3
  <2>3. ASSUME NEW q \in Agents, q \notin Targets
        PROVE  box'[q].count = 0 /\ (pc'[q] # "mark_next" => box'[q].next = 1)
    <3>1. q # t /\ box'[q] = box[q]
      BY <1>1, <1>5, <2>3
    <3>2. pc'[q] # "mark_next" => pc[q] # "mark_next"
      BY <1>1, <1>2
    <3> QED
      BY <2>3, <3>1, <3>2 DEF MailInv
  <2> QED
    BY <2>1, <2>2, <2>3, NextMail
<1>12. \A q \in Agents : /\ Queue(q) = View(box[q], Written(q))
                          /\ Queue(q)' = View(box'[q], Written(q)')
  BY <1>11, QueuesBefore
<1>13. \A q \in Agents : Queue(q)' = IF q = t THEN Append(Queue(t), m) ELSE Queue(q)
  BY <1>3, <1>5, <1>8, <1>10, <1>12, Zenon
<1>14. \A q \in Agents : Numbered(q)' = IF q = t THEN Numbered(t) + 1 ELSE Numbered(q)
  <2>1. pc'[t] # "mark_next" /\ pc[t] # "mark_next"
    BY <1>1, <1>11 DEF MailInv
  <2>2. \A q \in Agents : (pc'[q] = "mark_next") <=> (pc[q] = "mark_next")
    BY <1>1, <1>2
  <2> QED
    BY <1>5, <1>6, <2>1, <2>2, Zenon DEF Numbered
<1>15. Numbered(t) = box[t].next /\ Len(Queue(t)) < Cap - SystemSlots
  <2>1. Len(View(box[t], n)) = n
    BY <1>2, <1>3, ViewType
  <2>2. Queue(t) = View(box[t], n)
    BY <1>3, <1>12
  <2> QED
    BY <1>1, <1>4, <2>1, <2>2 DEF MailInv, Numbered
<1> HIDE DEF n
<1>16. Fifo!Accept(s, t)
  <2> DEFINE Q == [q \in Agents |-> Queue(q)]
             F == [q \in Agents |-> Numbered(q)]
  <2>1. Q' = [Q EXCEPT ![t] = Append(Q[t], m)] /\ Q[t] = Queue(t)
    BY <1>13, Zenon DEF Agents
  <2>2. F' = [F EXCEPT ![t] = F[t] + 1] /\ F[t] = box[t].next
    BY <1>14, <1>15, Zenon DEF Agents
  <2>3. Len(Q[t]) < Cap - SystemSlots /\ m = <<s, F[t]>>
    BY <1>15, <2>1, <2>2, Zenon DEF m
  <2> QED
    BY <1>1, <2>1, <2>2, <2>3, Zenon DEF Fifo!Accept, Numbered
<1> QED
  BY <1>11, <1>16, AcceptStep

----------------------------------------------------------------------------
\* The mailbox of p alone changes, and nobody begins or ends to send.
LEMMA OneBox ==
    ASSUME TypeOK, SendInv, MailInv, NEW p \in Agents,
           \A q \in Agents : q # p => box'[q] = box[q],
           \A s \in Agents : /\ (pc'[s] = "send_count") <=> (pc[s] = "send_count")
                             /\ pc[s] = "send_count" => arg'[s] = arg[s]
                             /\ s # p => pc'[s] = pc[s],
           p \in Targets => /\ pc'[p] # "mark_clear" /\ pc'[p] # "mark_next"
                            /\ box'[p].tail = At(box'[p].head, Written(p)' + 1),
           p \notin Targets => /\ box'[p].count = 0
                               /\ pc'[p] # "mark_next" => box'[p].next = 1
    PROVE  /\ MailInv' /\ \A t \in Agents : Putting(t)' <=> Putting(t)
           /\ \A t \in Agents : t # p => Written(t)' = Written(t)
           /\ \A t \in Agents : t # p => Numbered(t)' = Numbered(t)
<1>1. \A t \in Agents : Putting(t)' <=> Putting(t)
  BY DEF Putting
<1>2. \A t \in Agents : t # p => Written(t)' = Written(t)
  BY <1>1, Zenon DEF Written
<1>3. \A t \in Agents : t # p => Numbered(t)' = Numbered(t)
  BY Zenon DEF Numbered
<1>4. \A s \in Agents : pc'[s] = "send_count" => arg'[s] \in Targets
  BY Zenon DEF MailInv
<1>5. ASSUME NEW t \in Targets
      PROVE  /\ pc'[t] # "mark_clear" /\ pc'[t] # "mark_next"
             /\ box'[t].tail = At(box'[t].head, Written(t)' + 1)
  <2>1. CASE t = p
    BY <2>1
  <2>2. CASE t # p
    <3>1. t \in Agents /\ pc[t] # "mark_clear" /\ pc[t] # "mark_next"
          /\ box[t].tail = At(box[t].head, Written(t) + 1)
      BY DEF MailInv, Targets
    <3>2. box'[t] = box[t] /\ Written(t)' = Written(t) /\ pc'[t] = pc[t]
      BY <1>2, <2>2, <3>1
    <3> QED
      BY <3>1, <3>2
  <2> QED
    BY <2>1, <2>2
<1>6. ASSUME NEW t \in Agents, t \notin Targets
      PROVE  box'[t].count = 0 /\ (pc'[t] # "mark_next" => box'[t].next = 1)
  <2>1. CASE t = p
    BY <1>6, <2>1
  <2>2. CASE t # p
    BY <1>6, <2>2, Zenon DEF MailInv
  <2> QED
    BY <2>1, <2>2
<1>7. MailInv'
  BY <1>4, <1>5, <1>6, NextMail
<1> QED
  BY <1>1, <1>2, <1>3, <1>7

LEMMA SendCountStep ==
    ASSUME TypeOK, SendInv, MailInv, TypeOK', SendInv', NEW s \in Agents, SendCount(s)
    PROVE  MailInv' /\ AbstractStep
<1>0. PICK t : t = arg[s]
  OBVIOUS
<1> DEFINE n == box[t].count
<1>1. /\ pc[s] = "send_count" /\ pc' = [pc EXCEPT ![s] = "user"] /\ got' = got
      /\ box' = [box EXCEPT ![t].count = @ + 1, ![t].normal = @ + 1]
      /\ arg' = [arg EXCEPT ![s] = 0]
  BY <1>0 DEF SendCount
<1>2. /\ pc \in [Agents -> {"none", "user", "mark_clear", "mark_next",
                            "send_count", "wait_lock", "wait"}]
      /\ arg \in [Agents -> Nat] /\ box \in [Agents -> Boxes]
      /\ t \in Targets /\ t \in Agents /\ lock[t] = s
  BY <1>0, <1>1 DEF TypeOK, SendInv, MailInv
<1>3. /\ box[t] \in Boxes /\ n \in Nat
      /\ \A q \in Agents : q # t => box'[q] = box[q]
      /\ box'[t] = [box[t] EXCEPT !.count = @ + 1, !.normal = @ + 1]
  BY <1>1, <1>2, BoxCounts
<1>4. /\ box'[t].head = box[t].head /\ box'[t].tail = box[t].tail
      /\ box'[t].ring = box[t].ring
      /\ box'[t].next = box[t].next /\ box'[t].count = n + 1
  BY <1>3 DEF Boxes
<1>5. \A r \in Agents : r # s => pc'[r] = pc[r] /\ arg'[r] = arg[r]
  BY <1>1, <1>2
<1>6. Putting(t) /\ ~ Putting(t)' /\ \A q \in Agents : q # t => (Putting(q)' <=> Putting(q))
  <2>1. Putting(t)
    BY <1>0, <1>1 DEF Putting
  <2>2. \A r \in Agents : pc[r] = "send_count" /\ arg[r] = t => r = s
    BY <1>2 DEF SendInv
  <2>3. pc'[s] # "send_count" /\ arg[s] = t
    BY <1>0, <1>1, <1>2
  <2>4. ~ Putting(t)'
    BY <1>5, <2>2, <2>3 DEF Putting
  <2>5. \A q \in Agents : q # t => (Putting(q)' <=> Putting(q))
    BY <1>5, <2>3 DEF Putting
  <2> QED
    BY <2>1, <2>4, <2>5
<1>7. \A q \in Agents : Written(q)' = Written(q)
  <2>1. Written(t)' = Written(t)
    BY <1>3, <1>4, <1>6 DEF Written
  <2>2. \A q \in Agents : q # t => Written(q)' = Written(q)
    BY <1>3, <1>6, Zenon DEF Written
  <2> QED
    BY <2>1, <2>2
<1>8. \A q \in Agents : /\ box'[q].head = box[q].head /\ box'[q].tail = box[q].tail
                        /\ box'[q].ring = box[q].ring /\ box'[q].next = box[q].next
                        /\ q # t => box'[q].count = box[q].count
  BY <1>3, <1>4
<1>9. \A q \in Agents : /\ (pc'[q] = "mark_next") <=> (pc[q] = "mark_next")
                        /\ (pc'[q] = "mark_clear") <=> (pc[q] = "mark_clear")
  BY <1>1, <1>2
<1>10. MailInv'
  <2>1. \A r \in Agents : pc'[r] = "send_count" => arg'[r] \in Targets
    BY <1>1, <1>2 DEF MailInv
  <2>2. ASSUME NEW q \in Targets
        PROVE  /\ pc'[q] # "mark_clear" /\ pc'[q] # "mark_next"
               /\ box'[q].tail = At(box'[q].head, Written(q)' + 1)
    <3>1. q \in Agents /\ pc[q] # "mark_clear" /\ pc[q] # "mark_next"
          /\ box[q].tail = At(box[q].head, Written(q) + 1)
      BY DEF MailInv, Targets
    <3>2. pc'[q] # "mark_clear" /\ pc'[q] # "mark_next"
      BY <1>9, <3>1
    <3> QED
      BY <1>7, <1>8, <3>1, <3>2
  <2>3. ASSUME NEW q \in Agents, q \notin Targets
        PROVE  box'[q].count = 0 /\ (pc'[q] # "mark_next" => box'[q].next = 1)
    BY <1>2, <1>8, <1>9, <2>3 DEF MailInv
  <2> QED
    BY <2>1, <2>2, <2>3, NextMail
<1>11. \A q \in Agents : Queue(q)' = Queue(q)
  <2>1. \A q \in Agents : /\ Queue(q) = View(box[q], Written(q))
                          /\ Queue(q)' = View(box'[q], Written(q)')
    BY <1>10, QueuesBefore
  <2> QED
    BY <1>7, <1>8, <2>1, Zenon DEF View
<1>12. \A q \in Agents : Numbered(q)' = Numbered(q)
  BY <1>8, <1>9, Zenon DEF Numbered
<1> QED
  BY <1>1, <1>10, <1>11, <1>12, ChangeStep

LEMMA WaitMessageStep ==
    ASSUME TypeOK, SendInv, MailInv, TypeOK', SendInv', NEW p \in Agents, WaitMessage(p)
    PROVE  MailInv' /\ AbstractStep
<1> DEFINE n == box[p].count
<1>1. /\ pc[p] = "wait" /\ lock[p] \in {0, p} /\ n > 0
      /\ got' = [got EXCEPT ![p] = box[p].ring[box[p].head]]
      /\ box' = [box EXCEPT ![p] = [box[p] EXCEPT !.ring[box[p].head] = NoMsg,
                              !.head = After(@), !.count = @ - 1, !.normal = @ - 1]]
      /\ pc' = [pc EXCEPT ![p] = "user"] /\ arg' = arg
  BY DEF WaitMessage, Turn, Reason
<1>2. /\ pc \in [Agents -> {"none", "user", "mark_clear", "mark_next",
                            "send_count", "wait_lock", "wait"}]
      /\ box \in [Agents -> Boxes] /\ box[p] \in Boxes
  BY DEF TypeOK
<1>3. ~ Putting(p)
  BY <1>1 DEF Putting, SendInv, Agents
<1>4. Written(p) = n /\ n \in 1..Cap /\ p \in Targets /\ box[p].tail = At(box[p].head, n + 1)
  <2>1. Written(p) = n /\ n \in 0..Cap /\ p \in Targets
    BY <1>1, <1>3, Waiting DEF MailInv
  <2> QED
    BY <1>1, <2>1, Sizes DEF MailInv
<1>5. /\ \A q \in Agents : q # p => box'[q] = box[q]
      /\ box'[p] = [box[p] EXCEPT !.ring[box[p].head] = NoMsg,
                              !.head = After(@), !.count = @ - 1, !.normal = @ - 1]
  BY <1>1, <1>2
<1>6. /\ box'[p].head = After(box[p].head) /\ box'[p].tail = box[p].tail
      /\ box'[p].ring = [box[p].ring EXCEPT ![box[p].head] = NoMsg]
      /\ box'[p].next = box[p].next /\ box'[p].count = n - 1
  BY <1>2, <1>5 DEF Boxes
<1>7. /\ View(box'[p], n - 1) = Tail(View(box[p], n))
      /\ Head(View(box[p], n)) = box[p].ring[box[p].head]
      /\ View(box[p], n) # <<>> /\ box'[p].tail = At(box'[p].head, n)
  <2> DEFINE c == box'[p]
  <2>1. c.head = After(box[p].head) /\ c.tail = box[p].tail
        /\ c.ring = [box[p].ring EXCEPT ![box[p].head] = NoMsg]
    BY <1>6
  <2> HIDE DEF c, n
  <2>2. /\ View(c, n - 1) = Tail(View(box[p], n))
        /\ Head(View(box[p], n)) = box[p].ring[box[p].head]
        /\ View(box[p], n) # <<>> /\ c.tail = At(c.head, n)
    <3> DEFINE b == box[p]
               m == NoMsg
    <3>1. /\ b \in Boxes /\ n \in 1..Cap /\ c.head = After(b.head)
          /\ c.ring = [b.ring EXCEPT ![b.head] = m]
      BY <1>2, <1>4, <2>1
    <3> HIDE DEF b, m
    <3>2. /\ View(c, n - 1) = Tail(View(b, n)) /\ Head(View(b, n)) = b.ring[b.head]
          /\ View(b, n) # <<>>
      BY <3>1, ViewTake
    <3>3. box[p].head \in 0..(Cap - 1)
      BY <1>2 DEF Boxes
    <3>4. At(After(box[p].head), n) = At(box[p].head, n + 1)
      BY <1>4, <3>3, AtInRing
    <3> QED
      BY <1>4, <2>1, <3>2, <3>4 DEF b
  <2> QED
    BY <2>2 DEF c
<1>8. \A s \in Agents : /\ (pc'[s] = "send_count") <=> (pc[s] = "send_count")
                        /\ pc[s] = "send_count" => arg'[s] = arg[s]
                        /\ s # p => pc'[s] = pc[s]
  BY <1>1, <1>2
<1>9. Written(p)' = n - 1
  <2>1. ~ Putting(p)'
    BY <1>3, <1>8 DEF Putting
  <2> QED
    BY <1>4, <1>6, <2>1 DEF Written
<1>10. /\ pc'[p] # "mark_clear" /\ pc'[p] # "mark_next"
       /\ box'[p].tail = At(box'[p].head, Written(p)' + 1)
  <2>1. n - 1 + 1 = n /\ pc'[p] = "user"
    BY <1>1, <1>2, <1>4
  <2> QED
    BY <1>7, <1>9, <2>1
<1> HIDE DEF n
<1>11. /\ MailInv' /\ \A t \in Agents : t # p => Written(t)' = Written(t)
       /\ \A t \in Agents : t # p => Numbered(t)' = Numbered(t)
  BY <1>4, <1>5, <1>8, <1>10, OneBox
<1>12. \A q \in Agents : /\ Queue(q) = View(box[q], Written(q))
                          /\ Queue(q)' = View(box'[q], Written(q)')
  BY <1>11, QueuesBefore
<1>13. \A q \in Agents : Queue(q)' = IF q = p THEN Tail(Queue(p)) ELSE Queue(q)
  BY <1>4, <1>5, <1>7, <1>9, <1>11, <1>12, Zenon
<1>14. Numbered(p)' = Numbered(p)
  BY <1>1, <1>6, <1>10, Zenon DEF Numbered
<1>15. Queue(p) # <<>> /\ Head(Queue(p)) = box[p].ring[box[p].head]
  BY <1>4, <1>7, <1>12
<1>16. Fifo!Receive(p)
  <2> DEFINE Q == [q \in Agents |-> Queue(q)]
             F == [q \in Agents |-> Numbered(q)]
  <2>1. Q' = [Q EXCEPT ![p] = Tail(Q[p])] /\ Q[p] = Queue(p)
    BY <1>13, Zenon DEF Agents
  <2>2. F' = F
    BY <1>11, <1>14, Zenon DEF Agents
  <2>3. Q[p] # <<>> /\ got' = [got EXCEPT ![p] = Head(Q[p])]
    BY <1>1, <1>15, <2>1
  <2> QED
    BY <2>1, <2>2, <2>3, Zenon DEF Fifo!Receive, Numbered
<1> QED
  BY <1>11, <1>16, ReceiveStep

----------------------------------------------------------------------------
LEMMA ViewNone ==
    ASSUME NEW b, NEW c
    PROVE  View(b, 0) = View(c, 0) /\ View(b, 0) = <<>>
BY DEF View

\* The mailbox is new again, while nobody sends to it.
LEMMA DiscardStep ==
    ASSUME TypeOK, SendInv, MailInv, TypeOK', SendInv', NEW p \in Agents, lock[p] = 0,
           box' = [box EXCEPT ![p] = EmptyBox], pc' = pc, arg' = arg, got' = got,
           pc[p] # "mark_clear", pc[p] # "mark_next", p \in Over'
    PROVE  MailInv' /\ AbstractStep
<1>1. ~ Putting(p)
  BY Waiting
<1>2. /\ box'[p] = EmptyBox /\ EmptyBox.count = 0 /\ EmptyBox.next = 1
      /\ EmptyBox.head = 0 /\ EmptyBox.tail = 0
      /\ \A q \in Agents : q # p => box'[q] = box[q]
  BY DEF TypeOK, EmptyBox, ZeroBox
<1>3. \A s \in Agents : /\ (pc'[s] = "send_count") <=> (pc[s] = "send_count")
                        /\ pc[s] = "send_count" => arg'[s] = arg[s]
                        /\ s # p => pc'[s] = pc[s]
  OBVIOUS
<1>4. Written(p)' = 0
  <2>1. ~ Putting(p)'
    BY <1>1 DEF Putting
  <2> QED
    BY <1>2, <2>1 DEF Written
<1>5. At(0, 0 + 1) = 0
  BY Sizes DEF At
<1> HIDE DEF EmptyBox
<1>6. /\ pc'[p] # "mark_clear" /\ pc'[p] # "mark_next"
      /\ box'[p].tail = At(box'[p].head, Written(p)' + 1)
  BY <1>2, <1>4, <1>5
<1>7. box'[p].count = 0 /\ box'[p].next = 1
  BY <1>2
<1>8. /\ MailInv' /\ \A t \in Agents : t # p => Written(t)' = Written(t)
      /\ \A t \in Agents : t # p => Numbered(t)' = Numbered(t)
  BY <1>2, <1>3, <1>6, <1>7, OneBox
<1>9. \A q \in Agents : /\ Queue(q) = View(box[q], Written(q))
                        /\ Queue(q)' = View(box'[q], Written(q)')
  BY <1>8, QueuesBefore
<1>10. \A q \in Agents : Queue(q)' = IF q = p THEN <<>> ELSE Queue(q)
  BY <1>2, <1>4, <1>8, <1>9, ViewNone, Zenon
<1>11. \A q \in Agents : Numbered(q)' = IF q = p THEN 1 ELSE Numbered(q)
  BY <1>6, <1>7, <1>8, Zenon DEF Numbered
<1>12. Fifo!Discard(p)
  <2> DEFINE Q == [q \in Agents |-> Queue(q)]
             F == [q \in Agents |-> Numbered(q)]
  <2>1. Q' = [Q EXCEPT ![p] = <<>>] /\ F' = [F EXCEPT ![p] = 1]
    BY <1>10, <1>11, Zenon DEF Agents
  <2> QED
    BY <2>1, Zenon DEF Fifo!Discard, Numbered, Over
<1> QED
  BY <1>8, <1>12, ReceiveStep

\* agent_create clears a mailbox in which there is nothing.
LEMMA MarkStep ==
    ASSUME TypeOK, SendInv, MailInv, TypeOK', SendInv', NEW p \in Agents,
           MarkClear(p) \/ MarkNext(p)
    PROVE  MailInv' /\ AbstractStep
<1>1. /\ pc[p] \in {"mark_clear", "mark_next"} /\ arg' = arg /\ got' = got
      /\ pc' = [pc EXCEPT ![p] = IF pc[p] = "mark_clear" THEN "mark_next" ELSE "user"]
      /\ box' = [box EXCEPT ![p] = IF pc[p] = "mark_clear" THEN ZeroBox
                                    ELSE [box[p] EXCEPT !.next = 1]]
  BY DEF MarkClear, MarkNext
<1>2. /\ pc \in [Agents -> {"none", "user", "mark_clear", "mark_next",
                            "send_count", "wait_lock", "wait"}]
      /\ box \in [Agents -> Boxes] /\ box[p] \in Boxes
  BY DEF TypeOK
<1>3. p \notin Targets
  BY <1>1 DEF MailInv
<1>4. box[p].count = 0 /\ (pc[p] # "mark_next" => box[p].next = 1)
  BY <1>3 DEF MailInv
<1>5. \A q \in Agents : q # p => box'[q] = box[q]
  BY <1>1, <1>2
<1>6. box'[p].count = 0 /\ (pc'[p] # "mark_next" => box'[p].next = 1)
  <2>1. ZeroBox.count = 0
    BY DEF ZeroBox
  <2>2. CASE pc[p] = "mark_clear"
    <3>1. box'[p] = ZeroBox /\ pc'[p] = "mark_next"
      BY <1>1, <1>2, <2>2
    <3> QED
      BY <2>1, <3>1
  <2>3. CASE pc[p] = "mark_next"
    <3>1. box'[p] = [box[p] EXCEPT !.next = 1]
      BY <1>1, <1>2, <2>3
    <3> QED
      BY <1>2, <1>4, <3>1 DEF Boxes
  <2> QED
    BY <1>1, <2>2, <2>3
<1>7. \A s \in Agents : /\ (pc'[s] = "send_count") <=> (pc[s] = "send_count")
                        /\ pc[s] = "send_count" => arg'[s] = arg[s]
                        /\ s # p => pc'[s] = pc[s]
  BY <1>1, <1>2
<1>8. /\ MailInv' /\ \A t \in Agents : Putting(t)' <=> Putting(t)
      /\ \A t \in Agents : t # p => Written(t)' = Written(t)
      /\ \A t \in Agents : t # p => Numbered(t)' = Numbered(t)
  BY <1>3, <1>5, <1>6, <1>7, OneBox
<1>9. Written(p) = 0 /\ Written(p)' = 0
  <2>1. ~ Putting(p)
    BY <1>3, Waiting
  <2>2. ~ Putting(p)'
    BY <1>8, <2>1
  <2> QED
    BY <1>4, <1>6, <2>1, <2>2 DEF Written
<1>10. \A q \in Agents : /\ Queue(q) = View(box[q], Written(q))
                         /\ Queue(q)' = View(box'[q], Written(q)')
  BY <1>8, QueuesBefore
<1>11. \A q \in Agents : Queue(q)' = Queue(q)
  BY <1>5, <1>8, <1>9, <1>10, ViewNone, Zenon
<1>12. Numbered(p)' = Numbered(p)
  BY <1>4, <1>6 DEF Numbered
<1>13. \A q \in Agents : Numbered(q)' = Numbered(q)
  BY <1>8, <1>12, Zenon
<1> QED
  BY <1>1, <1>8, <1>11, <1>13, ChangeStep

LEMMA MailStep ==
    ASSUME WaitInv, WaitInv', MailInv, Apart, [Next]_vars
    PROVE  MailInv' /\ AbstractStep
<1>0. TypeOK /\ SendInv /\ WhereInv /\ TypeOK' /\ SendInv'
  BY DEF WaitInv
<1> DEFINE Goal == MailInv' /\ AbstractStep
<1>1. Quiet => Goal
  BY QuietStep
<1>2. ASSUME NEW p \in Agents, Continue(p) PROVE Goal
  <2>1. MarkClear(p) \/ MarkNext(p) => Goal
    BY <1>0, MarkStep
  <2>2. SendCount(p) => Goal
    BY <1>0, SendCountStep
  <2>3. WaitMessage(p) => Goal
    BY <1>0, WaitMessageStep
  <2>4. /\ WaitEnter(p) => Quiet
        /\ \A e : WaitEvent(p, e) => Quiet
        /\ \A r : WaitOver(p, r) => Quiet
        /\ WaitSleep(p) => Quiet
    BY <1>0, QuietSteps, Zenon
  <2> HIDE DEF Goal
  <2> QED
    BY <1>1, <1>2, <2>1, <2>2, <2>3, <2>4, Zenon DEF Continue
<1>3. ASSUME NEW p \in Agents, Call(p) PROVE Goal
  <2>1. \A t \in Agents : SendPut(p, t) => Goal
    BY <1>0, SendPutStep
  <2>2. WaitDone(p) => Goal
    <3> SUFFICES ASSUME WaitDone(p) PROVE Goal
      OBVIOUS
    <3>1. /\ lock[p] = 0 /\ box' = [box EXCEPT ![p] = EmptyBox] /\ pc' = pc /\ arg' = arg
          /\ got' = got /\ pc[p] = "user"
      BY Zenon DEF WaitDone, AgentCall, InUser
    <3>2. p \in Over'
      <4>1. loop \in [Agents -> {"READY", "WAITING", "DONE"}] /\ loop' = [loop EXCEPT ![p] = "DONE"]
        BY <1>0, Zenon DEF TypeOK, WaitDone
      <4>2. loop'[p] = "DONE"
        BY <4>1
      <4> QED
        BY <4>2 DEF Over, Agents
    <3>3. pc[p] # "mark_clear" /\ pc[p] # "mark_next"
      BY <3>1
    <3> QED
      BY <1>0, <3>1, <3>2, <3>3, DiscardStep
  <2>3. /\ MarkBegin(p) => Quiet
        /\ \A t \in Agents : SendBusy(p, t) => Quiet
        /\ \A e : Watch(p, e) => Quiet
        /\ \A f : WatchFile(p, f) => Quiet
        /\ \A mask : Unwatch(p, mask) => Quiet
        /\ HeartbeatSet(p) => Quiet
        /\ HeartbeatStop(p) => Quiet
        /\ \A timeout \in Timeouts : WaitCall(p, timeout) => Quiet
        /\ Exit(p) => Quiet
    BY <1>0, QuietSteps, Zenon
  <2> HIDE DEF Goal
  <2> QED
    BY <1>1, <1>3, <2>1, <2>2, <2>3, Zenon DEF Call
<1>4. ASSUME NEW q \in Agents, Others(q) PROVE Goal
  <2>1. Reap(q) => Goal
    <3> SUFFICES ASSUME Reap(q) PROVE Goal
      OBVIOUS
    <3>1. /\ lock[q] = 0 /\ box' = [box EXCEPT ![q] = EmptyBox] /\ pc' = pc /\ arg' = arg
          /\ got' = got /\ st[q] = "ZOMBIE"
      BY Zenon DEF Reap
    <3>2. q \in Over'
      <4>1. /\ st \in [Agents -> {"RUNNABLE", "SLEEPING", "ZOMBIE", "UNUSED"}]
            /\ st' = [st EXCEPT ![q] = "UNUSED"]
        BY <1>0, Zenon DEF TypeOK, Reap
      <4>2. st'[q] = "UNUSED"
        BY <4>1
      <4> QED
        BY <4>2 DEF Over, Agents
    <3>3. pc[q] # "mark_clear" /\ pc[q] # "mark_next"
      BY <1>0, <3>1 DEF WhereInv
    <3> QED
      BY <1>0, <3>1, <3>2, <3>3, DiscardStep
  <2>2. /\ \A f : NotifyFile(q, f) => Quiet
        /\ SignalFilemod(q) => Quiet
        /\ Heartbeat(q) => Quiet
        /\ ParentGone(q) => Quiet
        /\ Kill(q) => Quiet
        /\ ChildExit(q) => Quiet
    BY QuietOthers, Zenon
  <2> HIDE DEF Goal
  <2> QED
    BY <1>1, <1>4, <2>1, <2>2, Zenon DEF Others
<1>5. Tick \/ TickStep \/ UNCHANGED vars => Goal
  <2>1. 1 \in Agents
    BY Sizes DEF Agents
  <2> HIDE DEF Goal
  <2> QED
    BY <1>1, <2>1, QuietOthers, Zenon
<1> HIDE DEF Goal
<1>6. Goal
  BY <1>2, <1>3, <1>4, <1>5, Zenon DEF Next
<1> QED
  BY <1>6 DEF Goal

\* The mailboxes are bounded FIFO queues: send_message and agent_wait together
\* lose, reorder and duplicate nothing while the receiver's loop goes on, for
\* any number of agents and any capacity.  What is sent to a process that calls
\* agent_create is left out: that clears the mailbox without p->lock.
THEOREM MailboxesAreFifo ==
    ASSUME Apart
    PROVE  Spec => FifoSpec
<1>1. Init => MailInv
  <2> SUFFICES ASSUME Init PROVE MailInv
    OBVIOUS
  <2>1. /\ EmptyBox.count = 0 /\ EmptyBox.next = 1 /\ EmptyBox.head = 0 /\ EmptyBox.tail = 0
    BY DEF EmptyBox, ZeroBox
  <2>2. \A t \in Agents : pc[t] = "user" /\ box[t] = EmptyBox
    BY DEF Init
  <2>3. \A t \in Agents : Written(t) = 0
    BY <2>1, <2>2 DEF Written, Putting
  <2>4. At(0, 0 + 1) = 0
    BY Sizes DEF At
  <2>5. \A t \in Targets : t \in Agents
    BY DEF Targets
  <2> HIDE DEF EmptyBox
  <2> QED
    BY <2>1, <2>2, <2>3, <2>4, <2>5 DEF MailInv
<1>2. Init => Fifo!Init
  <2> SUFFICES ASSUME Init PROVE Fifo!Init
    OBVIOUS
  <2>1. \A t \in Agents : pc[t] = "user" /\ box[t] = EmptyBox /\ got[t] = NoMsg
                          /\ loop[t] = "READY" /\ st[t] = "RUNNABLE"
    BY DEF Init
  <2>2. EmptyBox.count = 0 /\ EmptyBox.next = 1
    BY DEF EmptyBox, ZeroBox
  <2>3. \A t \in Agents : Queue(t) = <<>>
    BY <2>1, <2>2 DEF Queue, Putting
  <2>4. [t \in Agents |-> Queue(t)] = [t \in Agents |-> <<>>]
    BY <2>3, Zenon
  <2>5. [t \in Agents |-> IF pc[t] = "mark_next" THEN 1 ELSE box[t].next] = [t \in Agents |-> 1]
    BY <2>1, <2>2
  <2>6. {t \in Agents : loop[t] = "DONE" \/ st[t] = "UNUSED"} = {}
    BY <2>1
  <2>7. got \in [Agents -> {<<0, 0>>}]
    BY DEF Init, NoMsg
  <2> QED
    BY <2>4, <2>5, <2>6, <2>7, Zenon DEF Fifo!Init
<1>3. WaitInv /\ WaitInv' /\ MailInv /\ [Next]_vars => MailInv' /\ AbstractStep
  BY MailStep
<1> QED
  BY <1>1, <1>2, <1>3, WaitInductive, PTL
     DEF Spec, FifoSpec, Fifo!Spec, AbstractStep, Numbered, Over
=============================================================================
