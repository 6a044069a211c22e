--------------------------- MODULE StorageProofs ----------------------------
(* What a crash leaves is what the operations that had been committed wrote,  *)
(* and what begin_op lets in fits into the log, for every number of           *)
(* operations, blocks and log blocks (DiskLog); and the mappings of files     *)
(* stay sound, for every number of processes and areas (Mmap).                *)
EXTENDS DiskLog, Mmap, FiniteSetTheorems, WellFoundedInduction, TLAPS

(* The inductive invariant.  A block of the log is pinned until it has been   *)
(* installed, a block that is not pinned is clean, and the disk's log holds   *)
(* what the buffers of its blocks held.                                       *)
NoTwice(s) == \A i, j \in 1 .. Len(s) : s[i] = s[j] => i = j

PinnedOK == /\ phase.at \in {"ready", "log"} => pinned = InLog(lh)
            /\ phase.at = "install" => pinned = {lh[i] : i \in phase.tail + 1 .. Len(lh)}
            /\ phase.at \in {"head", "down", "recover", "panic"} => pinned = {}

CacheOK == /\ ~ Up => cache = NoCache
           /\ Up => \A b \in Blocks : IF b \in pinned THEN cache[b] # None
                                      ELSE cache[b] \in {None, home[b]}

LogOK == /\ phase.at \in {"ready", "log", "head"} => head = <<>>
         /\ phase.at = "head" => lh = <<>>
         /\ phase.at \in {"log", "install", "recover"} => phase.tail <= Len(lh)
         /\ phase.at = "log" => \A i \in 1 .. phase.tail : slot[i] = cache[lh[i]]
         /\ phase.at = "install" => \A i \in 1 .. Len(lh) : slot[i] = Current(lh[i])
         /\ phase.at \in {"install", "recover"} =>
              head = lh /\ \A i \in 1 .. phase.tail : home[lh[i]] = slot[i]
         /\ phase.at # "ready" => Active = {}

Inv == TypeOK /\ NoTwice(lh) /\ NoTwice(head) /\ PinnedOK /\ CacheOK /\ LogOK

----------------------------------------------------------------------------
LEMMA InitInv == Init => Inv
BY DiskLogAssumption DEF Init, Inv, TypeOK, NoTwice, PinnedOK, CacheOK, LogOK, InLog, At,
     Out, NoCache, Up, Active, Current

----------------------------------------------------------------------------
(* What AfterCrash is, block by block.                                        *)
LEMMA CrashOfLogged ==
    ASSUME TypeOK, NoTwice(head), NEW i \in 1 .. Len(head)
    PROVE  head[i] \in Blocks /\ AfterCrash[head[i]] = slot[i]
<1>1. head[i] \in Blocks /\ head[i] \in InLog(head)
  BY DEF TypeOK, InLog
<1>2. (CHOOSE j \in 1 .. Len(head) : head[j] = head[i]) = i
  BY DEF NoTwice
<1> QED BY <1>1, <1>2 DEF AfterCrash

LEMMA CrashOfOthers ==
    ASSUME NEW b \in Blocks, b \notin InLog(head)
    PROVE  AfterCrash[b] = home[b]
BY DEF AfterCrash

(* Two states with the same home, slot and head crash alike.                  *)
LEMMA SameDisk == ASSUME UNCHANGED disk PROVE AfterCrash' = AfterCrash
BY DEF disk, AfterCrash, InLog

LEMMA EmptyLog == ASSUME head = <<>>, home \in [Blocks -> Values] PROVE AfterCrash = home
BY DEF AfterCrash, InLog
----------------------------------------------------------------------------
(* The two actions of the cache: nothing is seen of them.                     *)
LEMMA FetchStep ==
    ASSUME Inv, NEW b \in Blocks, Fetch(b)
    PROVE  Inv' /\ UNCHANGED Promise!vars
<1> USE DEF Fetch, Inv
<1>1. /\ Up /\ Up' /\ cache \in [Blocks -> Values \cup {None}]
      /\ home \in [Blocks -> Values] /\ cache[b] = None
      /\ UNCHANGED <<disk, pinned, lh, op, phase>>
  BY DEF Up, TypeOK
<1>2. \A c \in Blocks : cache'[c] = IF c = b THEN home[b] ELSE cache[c]
  BY <1>1
<1>3. \A c \in Blocks : Current(c)' = Current(c)
  BY <1>1, <1>2, DiskLogAssumption DEF Current, disk
<1>4. Contents' = Contents /\ AfterCrash' = AfterCrash /\ Active' = Active
  BY <1>1, <1>3, SameDisk DEF Contents, Active
<1>5. b \notin pinned
  BY <1>1 DEF CacheOK
<1>6. TypeOK'
  BY <1>1 DEF TypeOK, disk
<1>7. CacheOK'
  BY <1>1, <1>2, <1>5, DiskLogAssumption DEF CacheOK, disk
<1>8. NoTwice(lh)' /\ NoTwice(head)' /\ PinnedOK'
  BY <1>1 DEF NoTwice, PinnedOK, InLog, disk
<1>9. phase.at = "log" => \A i \in 1 .. phase.tail : lh[i] \in Blocks /\ lh[i] \in pinned
  BY DEF LogOK, PinnedOK, InLog, TypeOK
<1>10. phase.at = "install" => \A i \in 1 .. Len(lh) : lh[i] \in Blocks
  BY DEF TypeOK
<1>11. LogOK'
  BY <1>1, <1>2, <1>3, <1>4, <1>5, <1>9, <1>10 DEF LogOK, disk
<1> QED BY <1>4, <1>6, <1>7, <1>8, <1>11 DEF Promise!vars

LEMMA RecycleStep ==
    ASSUME Inv, NEW b \in Blocks, Recycle(b)
    PROVE  Inv' /\ UNCHANGED Promise!vars
<1> USE DEF Recycle, Inv
<1>1. /\ Up /\ Up' /\ cache \in [Blocks -> Values \cup {None}]
      /\ home \in [Blocks -> Values] /\ b \notin pinned
      /\ UNCHANGED <<disk, pinned, lh, op, phase>>
  BY DEF Up, TypeOK
<1>2. \A c \in Blocks : cache'[c] = IF c = b THEN None ELSE cache[c]
  BY <1>1
<1>3. cache[b] \in {None, home[b]}
  BY <1>1 DEF CacheOK
<1>4. \A c \in Blocks : Current(c)' = Current(c)
  BY <1>1, <1>2, <1>3 DEF Current, disk
<1>5. Contents' = Contents /\ AfterCrash' = AfterCrash /\ Active' = Active
  BY <1>1, <1>4, SameDisk DEF Contents, Active
<1>6. TypeOK'
  BY <1>1 DEF TypeOK, disk
<1>7. CacheOK'
  BY <1>1, <1>2 DEF CacheOK, disk
<1>8. NoTwice(lh)' /\ NoTwice(head)' /\ PinnedOK'
  BY <1>1 DEF NoTwice, PinnedOK, InLog, disk
<1>9. phase.at = "log" => \A i \in 1 .. phase.tail : lh[i] \in Blocks /\ lh[i] \in pinned
  BY DEF LogOK, PinnedOK, InLog, TypeOK
<1>10. phase.at = "install" => \A i \in 1 .. Len(lh) : lh[i] \in Blocks
  BY DEF TypeOK
<1>11. LogOK'
  BY <1>1, <1>2, <1>4, <1>5, <1>9, <1>10 DEF LogOK, disk
<1> QED BY <1>5, <1>6, <1>7, <1>8, <1>11 DEF Promise!vars

----------------------------------------------------------------------------
(* Operations.  Those that only move an operation leave the rest alone.       *)
LEMMA OpMoves ==
    ASSUME Inv, UNCHANGED <<disk, cache, pinned, lh, phase>>,
           op' \in [Ops -> [at: {"out", "asleep", "in"}, wrote: SUBSET Blocks]],
           phase.at # "ready" => Active' = {}
    PROVE  Inv' /\ Contents' = Contents /\ AfterCrash' = AfterCrash
<1> USE DEF Inv, disk
<1>1. TypeOK'
  BY DEF TypeOK
<1>2. Up' = Up /\ \A b \in Blocks : Current(b)' = Current(b)
  BY DEF Up, Current
<1>3. NoTwice(lh)' /\ NoTwice(head)' /\ PinnedOK' /\ CacheOK'
  BY <1>2 DEF NoTwice, PinnedOK, InLog, CacheOK, NoCache
<1>4. phase.at = "install" => \A i \in 1 .. Len(lh) : lh[i] \in Blocks
  BY DEF TypeOK
<1>5. LogOK'
  BY <1>2, <1>4 DEF LogOK
<1>6. AfterCrash' = AfterCrash
  BY SameDisk
<1>7. Contents' = Contents
  BY <1>2, <1>6 DEF Contents
<1> QED BY <1>1, <1>3, <1>5, <1>6, <1>7

LEMMA WokenOps ==
    ASSUME NEW f \in [Ops -> [at: {"out", "asleep", "in"}, wrote: SUBSET Blocks]]
    PROVE  /\ Woken(f) \in [Ops -> [at: {"out", "asleep", "in"}, wrote: SUBSET Blocks]]
           /\ \A p \in Ops : Woken(f)[p].at = "in" <=> f[p].at = "in"
BY DEF Woken, Out

LEMMA BeginStep ==
    ASSUME Inv, NEW p \in Ops, BeginOp(p) \/ BeginSleeps(p)
    PROVE  Inv' /\ (Promise!Begin(p) \/ UNCHANGED Promise!vars)
<1>1. op \in [Ops -> [at: {"out", "asleep", "in"}, wrote: SUBSET Blocks]]
  BY DEF Inv, TypeOK
<1>2. CASE BeginOp(p)
  <2>1. /\ op' \in [Ops -> [at: {"out", "asleep", "in"}, wrote: SUBSET Blocks]]
        /\ Active' = Active \cup {p} /\ p \notin Active
    BY <1>1, <1>2 DEF BeginOp, Active
  <2>2. Inv' /\ Contents' = Contents /\ AfterCrash' = AfterCrash
    BY <1>2, <2>1, OpMoves DEF BeginOp
  <2> QED BY <2>1, <2>2 DEF Promise!Begin
<1>3. CASE BeginSleeps(p)
  <2>1. /\ op' \in [Ops -> [at: {"out", "asleep", "in"}, wrote: SUBSET Blocks]]
        /\ Active' = Active
    BY <1>1, <1>3 DEF BeginSleeps, Active
  <2>2. Inv' /\ Contents' = Contents /\ AfterCrash' = AfterCrash
    BY <1>3, <2>1, OpMoves DEF BeginSleeps, Inv, LogOK
  <2> QED BY <2>1, <2>2 DEF Promise!vars
<1> QED BY <1>2, <1>3

LEMMA EndStep ==
    ASSUME Inv, NEW p \in Ops, EndOp(p)
    PROVE  Inv' /\ Promise!End(p)
<1> DEFINE f == [op EXCEPT ![p] = Out]
<1>1. op \in [Ops -> [at: {"out", "asleep", "in"}, wrote: SUBSET Blocks]]
  BY DEF Inv, TypeOK
<1>2. f \in [Ops -> [at: {"out", "asleep", "in"}, wrote: SUBSET Blocks]]
  BY <1>1 DEF Out
<1>3. op' = Woken(f)
  BY DEF EndOp
<1>4. \A q \in Ops : op'[q].at = "in" <=> f[q].at = "in"
  BY <1>2, <1>3, WokenOps
<1>5. \A q \in Ops : f[q] = IF q = p THEN Out ELSE op[q]
  BY <1>1
<1> HIDE DEF f
<1>6. Active' = Active \ {p} /\ p \in Active
  <2>1. \A q \in Ops : op'[q].at = "in" <=> q # p /\ op[q].at = "in"
    BY <1>4, <1>5 DEF Out
  <2>2. op[p].at = "in"
    BY DEF EndOp
  <2> QED BY <2>1, <2>2, Zenon DEF Active
<1>7. Inv' /\ Contents' = Contents /\ AfterCrash' = AfterCrash
  <2>1. phase.at = "ready" /\ UNCHANGED <<disk, cache, pinned, lh, phase>>
    BY DEF EndOp
  <2> QED BY <1>2, <1>3, <2>1, WokenOps, OpMoves
<1> QED BY <1>6, <1>7 DEF Promise!End

LEMMA EndLastStep ==
    ASSUME Inv, NEW p \in Ops, EndOpLast(p)
    PROVE  Inv' /\ Promise!End(p)
<1> USE DEF EndOpLast, Inv, disk
<1>1. /\ op \in [Ops -> [at: {"out", "asleep", "in"}, wrote: SUBSET Blocks]]
      /\ Active = {p} /\ phase' = [at |-> "log", tail |-> 0] /\ phase.at = "ready"
  BY DEF TypeOK, At
<1>2. Active' = {}
  BY <1>1 DEF Active, Out
<1>3. TypeOK'
  BY <1>1, DiskLogAssumption DEF TypeOK, Out
<1>4. Up /\ Up' /\ \A b \in Blocks : Current(b)' = Current(b)
  BY <1>1 DEF Up, Current
<1>5. NoTwice(lh)' /\ NoTwice(head)' /\ PinnedOK' /\ CacheOK'
  BY <1>1, <1>4 DEF NoTwice, PinnedOK, InLog, CacheOK
<1>6. LogOK'
  BY <1>1, <1>2, <1>3 DEF LogOK, TypeOK
<1>7. AfterCrash' = AfterCrash /\ Contents' = Contents
  BY <1>4, SameDisk DEF Contents
<1> QED BY <1>1, <1>2, <1>3, <1>5, <1>6, <1>7 DEF Promise!End
LEMMA LogWriteStep ==
    ASSUME Inv, NEW p \in Ops, NEW b \in Blocks, NEW v \in Values, LogWrite(p, b, v)
    PROVE  Inv' /\ Promise!Write(b, v)
<1> USE DEF LogWrite, Inv, disk
<1>1. /\ op \in [Ops -> [at: {"out", "asleep", "in"}, wrote: SUBSET Blocks]]
      /\ cache \in [Blocks -> Values \cup {None}] /\ home \in [Blocks -> Values]
      /\ lh \in Seq(Blocks) /\ pinned \subseteq Blocks
      /\ phase' = phase /\ phase.at = "ready" /\ op[p].at = "in"
  BY DEF TypeOK
<1>2. lh' \in Seq(Blocks) /\ Len(lh') <= DataBlocks
  <2>1. CASE b \in InLog(lh)
    BY <2>1 DEF TypeOK
  <2>2. CASE b \notin InLog(lh)
    <3>1. lh' = Append(lh, b) /\ Len(lh) \in Nat /\ Len(lh) < DataBlocks
      BY <1>1, <2>2, DiskLogAssumption DEF TooBig
    <3> QED BY <1>1, <3>1, DiskLogAssumption
  <2> QED BY <2>1, <2>2
<1>3. InLog(lh') = InLog(lh) \cup {b} /\ NoTwice(lh')
  <2>1. CASE b \in InLog(lh)
    BY <2>1 DEF NoTwice
  <2>2. CASE b \notin InLog(lh)
    <3>1. lh' = Append(lh, b) /\ Len(lh) \in Nat /\ Len(lh') = Len(lh) + 1
      BY <1>1, <2>2
    <3>2. \A i \in 1 .. Len(lh') : lh'[i] = IF i = Len(lh) + 1 THEN b ELSE lh[i]
      BY <1>1, <3>1
    <3>3. \A i \in 1 .. Len(lh) : lh[i] # b /\ lh'[i] = lh[i] /\ i \in 1 .. Len(lh')
      BY <2>2, <3>1, <3>2 DEF InLog
    <3>4. lh'[Len(lh) + 1] = b /\ Len(lh) + 1 \in 1 .. Len(lh')
      BY <3>1, <3>2
    <3>5. \A i \in 1 .. Len(lh') : i \in 1 .. Len(lh) \/ i = Len(lh) + 1
      BY <3>1
    <3>6. InLog(lh') = InLog(lh) \cup {b}
      BY <3>3, <3>4, <3>5 DEF InLog
    <3>7. NoTwice(lh')
      BY <3>3, <3>4, <3>5 DEF NoTwice
    <3> QED BY <3>6, <3>7
  <2> QED BY <2>1, <2>2
<1>4. /\ op' \in [Ops -> [at: {"out", "asleep", "in"}, wrote: SUBSET Blocks]]
      /\ \A q \in Ops : op'[q].at = "in" <=> op[q].at = "in"
  <2>1. op[p].wrote \cup {b} \in SUBSET Blocks
    BY <1>1
  <2>2. \A q \in Ops : op'[q] = IF q = p THEN [at |-> "in", wrote |-> op[p].wrote \cup {b}]
                                ELSE op[q]
    BY <1>1
  <2>3. op' \in [Ops -> [at: {"out", "asleep", "in"}, wrote: SUBSET Blocks]]
    BY <1>1, <2>1
  <2> QED BY <1>1, <2>2, <2>3
<1>5. Active' = Active /\ p \in Active
  BY <1>1, <1>4, Zenon DEF Active
<1>6. TypeOK'
  BY <1>1, <1>2, <1>4 DEF TypeOK
<1>7. \A c \in Blocks : cache'[c] = IF c = b THEN v ELSE cache[c]
  BY <1>1
<1>8. Up /\ Up' /\ head = <<>>
  BY <1>1 DEF Up, LogOK
<1>9. PinnedOK' /\ NoTwice(lh)' /\ NoTwice(head)'
  BY <1>1, <1>3 DEF PinnedOK, NoTwice, InLog
<1>10. CacheOK'
  BY <1>1, <1>7, <1>8, DiskLogAssumption DEF CacheOK
<1>11. LogOK'
  BY <1>1, <1>8 DEF LogOK
<1>12. AfterCrash' = AfterCrash
  BY SameDisk
<1>13. Contents' = [Contents EXCEPT ![b] = v]
  <2>1. \A c \in Blocks : Current(c)' = IF c = b THEN v ELSE Current(c)
    BY <1>7, DiskLogAssumption DEF Current
  <2> QED BY <1>8, <2>1 DEF Contents
<1> QED BY <1>5, <1>6, <1>9, <1>10, <1>11, <1>12, <1>13 DEF Promise!Write

----------------------------------------------------------------------------
(* A crash takes back everything since the last commit.                       *)
LEMMA CrashStep ==
    ASSUME Inv, Crash \/ \E p \in Ops, b \in Blocks : Panic(p, b)
    PROVE  Inv' /\ Promise!Crash
<1>1. /\ UNCHANGED disk /\ cache' = NoCache /\ pinned' = {} /\ lh' = <<>>
      /\ op' = [p \in Ops |-> Out]
      /\ phase' \in {[at |-> "down", tail |-> 0], [at |-> "panic", tail |-> 0]}
  BY DEF Crash, Panic, At
<1>2. TypeOK'
  BY <1>1, DiskLogAssumption DEF Inv, TypeOK, disk, NoCache, Out
<1>3. ~ Up' /\ phase'.at \in {"down", "panic"}
  BY <1>1 DEF Up
<1>4. Active' = {}
  BY <1>1 DEF Active, Out
<1>5. NoTwice(lh)' /\ NoTwice(head)' /\ PinnedOK' /\ CacheOK'
  BY <1>1, <1>3 DEF Inv, NoTwice, PinnedOK, CacheOK, disk, NoCache
<1>6. LogOK'
  BY <1>3, <1>4 DEF LogOK
<1>7. AfterCrash' = AfterCrash
  BY <1>1, SameDisk
<1>8. Contents' = AfterCrash
  BY <1>3, <1>7 DEF Contents
<1> QED BY <1>2, <1>4, <1>5, <1>6, <1>7, <1>8 DEF Inv, Promise!Crash
LEMMA UpToNext ==
    ASSUME NEW n \in Nat, NEW m \in Nat, n + 1 <= m, NEW j \in 1 .. n + 1
    PROVE  j \in 1 .. m /\ (j = n + 1 \/ j \in 1 .. n)
OBVIOUS

----------------------------------------------------------------------------
(* The commit.                                                                *)
LEMMA WriteLogStep ==
    ASSUME Inv, WriteLog
    PROVE  Inv' /\ UNCHANGED Promise!vars
<1> DEFINE i == phase.tail + 1
<1> USE DEF WriteLog, Inv
<1>1. /\ phase.at = "log" /\ phase' = [at |-> "log", tail |-> i] /\ i \in 1 .. Len(lh)
      /\ UNCHANGED <<home, head, cache, pinned, lh, op>>
      /\ slot \in [1 .. DataBlocks -> Values] /\ lh \in Seq(Blocks) /\ Len(lh) <= DataBlocks
      /\ phase.tail \in Nat /\ i \in 1 .. DataBlocks
  BY DiskLogAssumption DEF At, TypeOK
<1>2. lh[i] \in Blocks /\ lh[i] \in pinned /\ cache[lh[i]] \in Values
  BY <1>1 DEF PinnedOK, InLog, CacheOK, TypeOK, Up
<1>3. \A j \in 1 .. DataBlocks : slot'[j] = IF j = i THEN cache[lh[i]] ELSE slot[j]
  BY <1>1, <1>2, DiskLogAssumption DEF Current
<1>4. slot' \in [1 .. DataBlocks -> Values]
  BY <1>1, <1>2, DiskLogAssumption DEF Current
<1> HIDE DEF i
<1>5. TypeOK'
  BY <1>1, <1>4 DEF TypeOK
<1>6. Up /\ Up' /\ \A b \in Blocks : Current(b)' = Current(b)
  BY <1>1 DEF Up, Current
<1>7. NoTwice(lh)' /\ NoTwice(head)' /\ PinnedOK' /\ CacheOK'
  BY <1>1, <1>6 DEF NoTwice, PinnedOK, InLog, CacheOK
<1>8. Active' = Active
  BY <1>1 DEF Active
<1>9. \A j \in 1 .. i : slot'[j] = cache[lh[j]]
  <2>1. \A j \in 1 .. i : j \in 1 .. DataBlocks /\ (j = i \/ j \in 1 .. phase.tail)
    <3>1. DataBlocks \in Nat /\ phase.tail + 1 <= DataBlocks
      BY <1>1, DiskLogAssumption DEF i
    <3> QED BY <1>1, <3>1, UpToNext, Zenon DEF i
  <2>2. \A j \in 1 .. phase.tail : slot[j] = cache[lh[j]]
    BY <1>1 DEF LogOK
  <2> QED BY <1>3, <2>1, <2>2
<1>10. LogOK'
  BY <1>1, <1>8, <1>9 DEF LogOK
<1>11. AfterCrash' = AfterCrash
  <2>1. home \in [Blocks -> Values] /\ head = <<>>
    BY <1>1 DEF TypeOK, LogOK
  <2> QED BY <1>1, <2>1 DEF AfterCrash, InLog
<1>12. Contents' = Contents
  BY <1>6 DEF Contents
<1> QED BY <1>5, <1>7, <1>8, <1>10, <1>11, <1>12 DEF Promise!vars

LEMMA WriteHeadStep ==
    ASSUME Inv, WriteHead
    PROVE  Inv' /\ Promise!Commit
<1> USE DEF WriteHead, Inv
<1>1. /\ phase.at = "log" /\ phase' = [at |-> "install", tail |-> 0] /\ phase.tail = Len(lh)
      /\ head' = lh /\ UNCHANGED <<home, slot, cache, pinned, lh, op>>
      /\ lh \in Seq(Blocks) /\ Len(lh) \in Nat
      /\ \A i \in 1 .. Len(lh) : lh[i] \in Blocks
  BY DEF At, TypeOK
<1>2. TypeOK'
  BY <1>1, DiskLogAssumption DEF TypeOK
<1>3. Up /\ Up' /\ \A b \in Blocks : Current(b)' = Current(b)
  BY <1>1 DEF Up, Current
<1>4. Active' = Active /\ Active = {}
  BY <1>1 DEF Active, LogOK
<1>5. NoTwice(lh)' /\ NoTwice(head)' /\ CacheOK'
  BY <1>1, <1>3 DEF NoTwice, CacheOK
<1>6. PinnedOK'
  BY <1>1 DEF PinnedOK, InLog
<1>7. \A i \in 1 .. Len(lh) : cache[lh[i]] # None /\ slot[i] = Current(lh[i])
  BY <1>1, <1>3 DEF CacheOK, PinnedOK, InLog, LogOK, Current
<1>8. LogOK'
  <2>1. \A i \in 1 .. Len(lh) : slot'[i] = Current(lh[i])'
    BY <1>1, <1>3, <1>7
  <2> QED BY <1>1, <1>4, <2>1 DEF LogOK
<1>9. Contents' = Contents /\ Contents = [b \in Blocks |-> Current(b)]
  BY <1>3 DEF Contents
<1>10. \A b \in Blocks : AfterCrash'[b] = Current(b)
  <2> TAKE b \in Blocks
  <2>1. CASE b \in InLog(lh)
    <3>1. PICK i \in 1 .. Len(lh) : b = lh[i]
      BY <2>1 DEF InLog
    <3>2. (CHOOSE j \in 1 .. Len(lh) : lh[j] = b) = i
      BY <3>1 DEF NoTwice
    <3> QED BY <1>1, <1>7, <2>1, <3>1, <3>2 DEF AfterCrash, InLog
  <2>2. CASE b \notin InLog(lh)
    <3>1. AfterCrash'[b] = home[b]
      BY <1>1, <2>2 DEF AfterCrash, InLog
    <3>2. b \notin pinned
      BY <1>1, <2>2 DEF PinnedOK
    <3> QED BY <1>3, <3>1, <3>2 DEF CacheOK, Current
  <2> QED BY <2>1, <2>2
<1>11. AfterCrash' = Contents
  BY <1>9, <1>10 DEF AfterCrash
<1> QED BY <1>2, <1>4, <1>5, <1>6, <1>8, <1>9, <1>11 DEF Promise!Commit

(* A home block that gets what the log on the disk holds for it changes       *)
(* nothing of what a crash leaves.                                            *)
LEMMA HomeFollowsLog ==
    ASSUME TypeOK, NoTwice(head), NEW i \in 1 .. Len(head),
           home' = [home EXCEPT ![head[i]] = slot[i]], UNCHANGED <<slot, head>>
    PROVE  AfterCrash' = AfterCrash
<1>1. head[i] \in InLog(head) /\ home \in [Blocks -> Values]
  BY DEF InLog, TypeOK
<1>2. \A b \in Blocks : b \notin InLog(head) => home'[b] = home[b]
  BY <1>1
<1> QED BY <1>2 DEF AfterCrash, InLog

LEMMA InstallStep ==
    ASSUME Inv, Install
    PROVE  Inv' /\ UNCHANGED Promise!vars
<1> DEFINE i == phase.tail + 1
<1> USE DEF Install, Inv
<1>1. /\ phase.at = "install" /\ phase' = [at |-> "install", tail |-> i]
      /\ i \in 1 .. Len(lh) /\ head = lh /\ lh \in Seq(Blocks)
      /\ UNCHANGED <<slot, head, lh, op>> /\ phase.tail \in Nat /\ i \in 1 .. DataBlocks
      /\ \A j \in 1 .. Len(lh) : lh[j] \in Blocks /\ j \in 1 .. DataBlocks
      /\ slot \in [1 .. DataBlocks -> Values] /\ home \in [Blocks -> Values]
      /\ cache \in [Blocks -> Values \cup {None}]
      /\ home' = [home EXCEPT ![lh[i]] = slot[i]]
      /\ cache' = [cache EXCEPT ![lh[i]] = slot[i]]
      /\ pinned' = pinned \ {lh[i]}
  BY DiskLogAssumption DEF At, TypeOK, LogOK
<1> HIDE DEF i
<1>2. slot[i] = Current(lh[i]) /\ slot[i] \in Values
  BY <1>1 DEF LogOK
<1>3. \A b \in Blocks : /\ home'[b] = IF b = lh[i] THEN slot[i] ELSE home[b]
                        /\ cache'[b] = IF b = lh[i] THEN slot[i] ELSE cache[b]
  BY <1>1
<1>4. TypeOK'
  <2>1. home' \in [Blocks -> Values] /\ cache' \in [Blocks -> Values \cup {None}]
    BY <1>1, <1>2
  <2> QED BY <1>1, <2>1 DEF TypeOK
<1>5. Up /\ Up' /\ Active' = Active
  BY <1>1 DEF Up, Active
<1>6. \A b \in Blocks : Current(b)' = Current(b)
  BY <1>2, <1>3, DiskLogAssumption DEF Current
<1>7. pinned' = {lh[j] : j \in i + 1 .. Len(lh)}
  <2>1. pinned = {lh[j] : j \in i .. Len(lh)}
    BY <1>1 DEF PinnedOK, i
  <2>2. \A j \in i .. Len(lh) : j \in 1 .. Len(lh) /\ (j = i \/ j \in i + 1 .. Len(lh))
    BY <1>1
  <2>3. \A j \in i + 1 .. Len(lh) : j \in i .. Len(lh) /\ j # i /\ j \in 1 .. Len(lh)
    BY <1>1
  <2>4. \A j \in i + 1 .. Len(lh) : lh[j] # lh[i]
    BY <1>1, <2>3 DEF NoTwice
  <2>5. \A b : b \in pinned' => b \in {lh[j] : j \in i + 1 .. Len(lh)}
    BY <1>1, <2>1, <2>2
  <2>6. \A j \in i + 1 .. Len(lh) : lh[j] \in pinned'
    BY <1>1, <2>1, <2>3, <2>4
  <2> QED BY <2>5, <2>6
<1>8. PinnedOK'
  <2>1. /\ phase'.at = "install" /\ phase'.tail = i /\ lh' = lh
        /\ phase'.at \notin {"ready", "log", "head", "down", "recover", "panic"}
    BY <1>1
  <2> QED BY <1>7, <2>1 DEF PinnedOK
<1>9. CacheOK'
  BY <1>1, <1>2, <1>3, <1>5, DiskLogAssumption DEF CacheOK
<1>10. NoTwice(lh)' /\ NoTwice(head)'
  BY <1>1 DEF NoTwice
<1>11. \A j \in 1 .. i : home'[lh[j]] = slot[j]
  <2>1. \A j \in 1 .. i : j \in 1 .. Len(lh) /\ (j = i \/ j \in 1 .. phase.tail)
    BY <1>1 DEF i
  <2>2. \A j \in 1 .. Len(lh) : j # i => lh[j] # lh[i]
    BY <1>1 DEF NoTwice
  <2> QED BY <1>1, <1>3, <2>1, <2>2 DEF LogOK
<1>12. LogOK'
  BY <1>1, <1>5, <1>6, <1>11 DEF LogOK
<1>13. AfterCrash' = AfterCrash
  BY <1>1, HomeFollowsLog
<1>14. Contents' = Contents
  BY <1>5, <1>6 DEF Contents
<1> QED BY <1>4, <1>5, <1>8, <1>9, <1>10, <1>12, <1>13, <1>14 DEF Promise!vars
LEMMA EraseStep ==
    ASSUME Inv, Erase
    PROVE  Inv' /\ UNCHANGED Promise!vars
<1> USE DEF Erase, Inv
<1>1. /\ phase.at = "install" /\ phase.tail = Len(lh) /\ phase' = [at |-> "head", tail |-> 0]
      /\ lh' = <<>> /\ head' = <<>> /\ head = lh
      /\ UNCHANGED <<home, slot, cache, pinned, op>>
      /\ home \in [Blocks -> Values] /\ lh \in Seq(Blocks) /\ Len(lh) \in Nat
  BY DEF At, TypeOK, LogOK
<1>2. TypeOK'
  BY <1>1, DiskLogAssumption DEF TypeOK
<1>3. Up /\ Up' /\ Active' = Active /\ \A b \in Blocks : Current(b)' = Current(b)
  BY <1>1 DEF Up, Active, Current
<1>4. PinnedOK'
  <2>1. pinned = {lh[i] : i \in phase.tail + 1 .. Len(lh)}
    BY <1>1 DEF PinnedOK
  <2>2. \A i \in phase.tail + 1 .. Len(lh) : FALSE
    BY <1>1
  <2> QED BY <1>1, <2>1, <2>2 DEF PinnedOK
<1>5. NoTwice(lh)' /\ NoTwice(head)' /\ CacheOK'
  BY <1>1, <1>3 DEF NoTwice, CacheOK
<1>6. LogOK'
  BY <1>1, <1>3 DEF LogOK
<1>7. AfterCrash' = AfterCrash
  <2>1. \A i \in 1 .. Len(head) : AfterCrash[head[i]] = home[head[i]]
    BY <1>1, CrashOfLogged DEF LogOK
  <2>2. \A b \in Blocks : AfterCrash[b] = home[b]
    BY <2>1, CrashOfOthers DEF InLog
  <2>3. \A b \in Blocks : AfterCrash'[b] = home[b]
    BY <1>1 DEF AfterCrash, InLog
  <2> QED BY <2>2, <2>3 DEF AfterCrash
<1>8. Contents' = Contents
  BY <1>3 DEF Contents
<1> QED BY <1>2, <1>3, <1>4, <1>5, <1>6, <1>7, <1>8 DEF Promise!vars

LEMMA CommitDoneStep ==
    ASSUME Inv, CommitDone
    PROVE  Inv' /\ UNCHANGED Promise!vars
<1> USE DEF CommitDone, Inv, disk
<1>1. /\ phase.at \in {"head", "log"} /\ phase' = [at |-> "ready", tail |-> 0]
      /\ lh = <<>> /\ op' = Woken(op) /\ UNCHANGED <<disk, cache, pinned, lh>>
      /\ op \in [Ops -> [at: {"out", "asleep", "in"}, wrote: SUBSET Blocks]]
  BY DEF At, TypeOK, LogOK
<1>2. /\ op' \in [Ops -> [at: {"out", "asleep", "in"}, wrote: SUBSET Blocks]]
      /\ \A q \in Ops : op'[q].at = "in" <=> op[q].at = "in"
  BY <1>1, WokenOps
<1>3. TypeOK'
  BY <1>1, <1>2, DiskLogAssumption DEF TypeOK
<1>4. Active' = Active
  BY <1>2, Zenon DEF Active
<1>5. Up /\ Up' /\ \A b \in Blocks : Current(b)' = Current(b)
  BY <1>1 DEF Up, Current
<1>6. PinnedOK'
  BY <1>1 DEF PinnedOK, InLog
<1>7. NoTwice(lh)' /\ NoTwice(head)' /\ CacheOK'
  BY <1>1, <1>5 DEF NoTwice, CacheOK
<1>8. LogOK'
  BY <1>1, <1>4 DEF LogOK
<1>9. AfterCrash' = AfterCrash /\ Contents' = Contents
  BY <1>1, <1>5, SameDisk DEF Contents
<1> QED BY <1>3, <1>4, <1>6, <1>7, <1>8, <1>9 DEF Promise!vars

----------------------------------------------------------------------------
(* The recovery.                                                              *)
LEMMA ReadHeadStep ==
    ASSUME Inv, ReadHead
    PROVE  Inv' /\ UNCHANGED Promise!vars
<1> USE DEF ReadHead, Inv, disk
<1>1. /\ phase.at = "down" /\ phase' = [at |-> "recover", tail |-> 0] /\ lh' = head
      /\ UNCHANGED <<disk, cache, pinned, op>> /\ head \in Seq(Blocks) /\ Len(head) \in Nat
  BY DEF At, TypeOK
<1>2. TypeOK'
  BY <1>1, DiskLogAssumption DEF TypeOK
<1>3. ~ Up /\ ~ Up' /\ Active' = Active
  BY <1>1 DEF Up, Active
<1>4. NoTwice(lh)' /\ NoTwice(head)' /\ PinnedOK' /\ CacheOK'
  BY <1>1, <1>3 DEF NoTwice, PinnedOK, CacheOK, NoCache
<1>5. LogOK'
  BY <1>1, <1>3 DEF LogOK
<1>6. AfterCrash' = AfterCrash /\ Contents' = Contents
  BY <1>1, <1>3, SameDisk DEF Contents
<1> QED BY <1>2, <1>3, <1>4, <1>5, <1>6 DEF Promise!vars

LEMMA ReinstallStep ==
    ASSUME Inv, Reinstall
    PROVE  Inv' /\ UNCHANGED Promise!vars
<1> DEFINE i == phase.tail + 1
<1> USE DEF Reinstall, Inv
<1>1. /\ phase.at = "recover" /\ phase' = [at |-> "recover", tail |-> i]
      /\ i \in 1 .. Len(lh) /\ head = lh /\ lh \in Seq(Blocks)
      /\ UNCHANGED <<slot, head, cache, pinned, lh, op>>
      /\ phase.tail \in Nat /\ i \in 1 .. DataBlocks /\ Len(lh) \in Nat
      /\ \A j \in 1 .. Len(lh) : lh[j] \in Blocks /\ j \in 1 .. DataBlocks
      /\ slot \in [1 .. DataBlocks -> Values] /\ home \in [Blocks -> Values]
      /\ home' = [home EXCEPT ![lh[i]] = slot[i]]
  BY DiskLogAssumption DEF At, TypeOK, LogOK
<1>2. \A j \in 1 .. i : j \in 1 .. Len(lh) /\ (j = i \/ j \in 1 .. phase.tail)
  <2>1. phase.tail + 1 <= Len(lh)
    BY <1>1
  <2> QED BY <1>1, <2>1, UpToNext, Zenon DEF i
<1> HIDE DEF i
<1>3. TypeOK'
  BY <1>1 DEF TypeOK
<1>4. ~ Up /\ ~ Up' /\ Active' = Active
  BY <1>1 DEF Up, Active
<1>5. NoTwice(lh)' /\ NoTwice(head)' /\ PinnedOK' /\ CacheOK'
  BY <1>1, <1>4 DEF NoTwice, PinnedOK, CacheOK, NoCache
<1>6. \A j \in 1 .. i : home'[lh[j]] = slot[j]
  <2>1. \A j \in 1 .. Len(lh) : home'[lh[j]] = IF lh[j] = lh[i] THEN slot[i] ELSE home[lh[j]]
    BY <1>1
  <2>2. \A j \in 1 .. Len(lh) : j # i => lh[j] # lh[i]
    BY <1>1 DEF NoTwice
  <2>3. \A j \in 1 .. phase.tail : home[lh[j]] = slot[j]
    BY <1>1 DEF LogOK
  <2> QED BY <1>2, <2>1, <2>2, <2>3
<1>7. LogOK'
  BY <1>1, <1>4, <1>6 DEF LogOK
<1>8. AfterCrash' = AfterCrash
  BY <1>1, HomeFollowsLog
<1>9. Contents' = Contents
  BY <1>4, <1>8 DEF Contents
<1> QED BY <1>3, <1>4, <1>5, <1>7, <1>8, <1>9 DEF Promise!vars

LEMMA RecoveredStep ==
    ASSUME Inv, Recovered
    PROVE  Inv' /\ UNCHANGED Promise!vars
<1> USE DEF Recovered, Inv
<1>1. /\ phase.at = "recover" /\ phase.tail = Len(lh) /\ phase' = [at |-> "ready", tail |-> 0]
      /\ lh' = <<>> /\ head' = <<>> /\ head = lh
      /\ UNCHANGED <<home, slot, cache, pinned, op>> /\ home \in [Blocks -> Values]
  BY DEF At, TypeOK, LogOK
<1>2. TypeOK'
  BY <1>1, DiskLogAssumption DEF TypeOK
<1>3. ~ Up /\ Up' /\ Active' = Active /\ cache = NoCache
  BY <1>1 DEF Up, Active, CacheOK
<1>4. \A b \in Blocks : AfterCrash[b] = home[b] /\ AfterCrash'[b] = home[b]
  <2>1. \A i \in 1 .. Len(head) : AfterCrash[head[i]] = home[head[i]]
    BY <1>1, CrashOfLogged DEF LogOK
  <2>2. \A b \in Blocks : AfterCrash[b] = home[b]
    BY <2>1, CrashOfOthers DEF InLog
  <2>3. \A b \in Blocks : AfterCrash'[b] = home[b]
    BY <1>1 DEF AfterCrash, InLog
  <2> QED BY <2>2, <2>3
<1>5. AfterCrash' = AfterCrash
  BY <1>4 DEF AfterCrash
<1>6. Contents' = Contents
  <2>1. \A b \in Blocks : Current(b)' = home[b]
    BY <1>1, <1>3 DEF Current, NoCache
  <2> QED BY <1>3, <1>4, <2>1 DEF Contents, AfterCrash
<1>7. PinnedOK'
  <2>1. pinned = {} /\ phase'.at = "ready" /\ lh' = <<>> /\ pinned' = pinned
    BY <1>1 DEF PinnedOK
  <2>2. InLog(lh)' = {}
    BY <2>1 DEF InLog
  <2> QED BY <2>1, <2>2 DEF PinnedOK
<1>8. NoTwice(lh)' /\ NoTwice(head)' /\ CacheOK'
  <2>1. \A b \in Blocks : cache'[b] = None
    BY <1>1, <1>3 DEF NoCache
  <2>2. CacheOK'
    BY <1>3, <2>1, <1>7, <1>1 DEF CacheOK, PinnedOK
  <2> QED BY <1>1, <2>2 DEF NoTwice
<1>9. LogOK'
  BY <1>1, <1>3 DEF LogOK
<1> QED BY <1>2, <1>3, <1>5, <1>6, <1>7, <1>8, <1>9 DEF Promise!vars
----------------------------------------------------------------------------
LEMMA Step == ASSUME Inv, [Next]_vars PROVE Inv' /\ [Promise!Next]_(Promise!vars)
<1>1. CASE UNCHANGED vars
  <2>1. UNCHANGED <<disk, cache, pinned, lh, phase>> /\ UNCHANGED op
    BY <1>1 DEF vars, disk
  <2>2. Active' = Active
    BY <2>1 DEF Active
  <2>3. op' \in [Ops -> [at: {"out", "asleep", "in"}, wrote: SUBSET Blocks]]
    BY <2>1 DEF Inv, TypeOK
  <2>4. phase.at # "ready" => Active' = {}
    BY <2>2 DEF Inv, LogOK
  <2> QED BY <2>1, <2>2, <2>3, <2>4, OpMoves DEF Promise!vars
<1>2. CASE OpStep
  <2>1. CASE \E p \in Ops : BeginOp(p) \/ BeginSleeps(p)
    BY <2>1, BeginStep DEF Promise!Next
  <2>2. CASE \E p \in Ops : EndOp(p) \/ EndOpLast(p)
    BY <2>2, EndStep, EndLastStep DEF Promise!Next
  <2>3. CASE \E p \in Ops, b \in Blocks : Panic(p, b)
    BY <2>3, CrashStep DEF Promise!Next
  <2>4. CASE \E p \in Ops, b \in Blocks, v \in Values : LogWrite(p, b, v)
    BY <2>4, LogWriteStep DEF Promise!Next
  <2> QED BY <1>2, <2>1, <2>2, <2>3, <2>4 DEF OpStep
<1>3. CASE \E b \in Blocks : Fetch(b) \/ Recycle(b)
  BY <1>3, FetchStep, RecycleStep
<1>4. CASE WriteHead
  BY <1>4, WriteHeadStep DEF Promise!Next
<1>5. CASE WriteLog \/ Install \/ Erase \/ CommitDone
  BY <1>5, WriteLogStep, InstallStep, EraseStep, CommitDoneStep
<1>6. CASE Crash
  BY <1>6, CrashStep DEF Promise!Next
<1>7. CASE ReadHead \/ Reinstall \/ Recovered
  BY <1>7, ReadHeadStep, ReinstallStep, RecoveredStep
<1> QED BY <1>1, <1>2, <1>3, <1>4, <1>5, <1>6, <1>7 DEF Next

LEMMA StartsEmpty == Init => Promise!Init
<1> SUFFICES ASSUME Init PROVE Promise!Init
  OBVIOUS
<1>1. Up /\ home \in [Blocks -> Values] /\ cache = NoCache /\ head = <<>> /\ Active = {}
  BY DEF Init, Up, At, Active, Out
<1>2. AfterCrash = home
  BY <1>1, EmptyLog
<1>3. Contents = home
  BY <1>1 DEF Contents, Current, NoCache
<1> QED BY <1>1, <1>2, <1>3 DEF Promise!Init

(* The file system's log keeps what AtomicDisk promises: whatever the moment  *)
(* of a crash, in a commit or in a recovery, the disk has the operations of   *)
(* whole commits and nothing of the others (log.c, bio.c).                    *)
THEOREM CrashesAreAtomic == Spec => CrashIsAtomic
<1>1. Init => Inv /\ Promise!Init
  BY InitInv, StartsEmpty
<1>2. Inv /\ [Next]_vars => Inv' /\ [Promise!Next]_(Promise!vars)
  BY Step
<1> QED BY <1>1, <1>2, PTL DEF Spec, CrashIsAtomic, Promise!Spec

(* The variables keep to their types: in particular the log never runs over   *)
(* its blocks on the disk, because log_write checks before it adds one.       *)
THEOREM LogTypes == Spec => []TypeOK
<1>1. Init => Inv
  BY InitInv
<1>2. Inv /\ [Next]_vars => Inv'
  BY Step
<1>3. Inv => TypeOK
  BY DEF Inv
<1> QED BY <1>1, <1>2, <1>3, PTL DEF Spec
----------------------------------------------------------------------------
(* Nobody sleeps for good: who finds no room does so because of operations    *)
(* under way, the log of a quiet moment being empty.                          *)
RestOK == /\ phase.at = "ready" /\ Active = {} => lh = <<>>
          /\ ~ Up => \A p \in Ops : op[p].at # "asleep"

SInv == Inv /\ SleepersAreWoken /\ RestOK

LEMMA RoomAtRest == Active = {} /\ lh = <<>> => HasRoom
<1> SUFFICES ASSUME Active = {}, lh = <<>> PROVE HasRoom
  OBVIOUS
<1>1. Cardinality(Active) = 0 /\ Len(lh) = 0
  BY FS_EmptySet
<1>2. 0 + (0 + 1) * MaxOpBlocks = MaxOpBlocks
  BY DiskLogAssumption
<1> QED BY <1>1, <1>2, DiskLogAssumption DEF HasRoom

LEMMA SleepStep == ASSUME SInv, [Next]_vars PROVE SInv'
<1>1. Inv'
  BY Step DEF SInv
<1>2. /\ op \in [Ops -> [at: {"out", "asleep", "in"}, wrote: SUBSET Blocks]]
      /\ phase.at # "ready" => Active = {}
      /\ Up => phase.at \in {"ready", "log", "install", "head"}
  BY DEF SInv, Inv, TypeOK, LogOK, Up
<1>3. CASE UNCHANGED vars
  BY <1>1, <1>3 DEF SInv, SleepersAreWoken, RestOK, vars, Active, Up
<1>4. CASE OpStep
  <2>1. ASSUME NEW p \in Ops, BeginOp(p) PROVE SInv'
    <3>1. p \in Active' /\ phase' = phase /\ phase.at = "ready"
      BY <1>2, <2>1 DEF BeginOp, Active
    <3> QED BY <1>1, <3>1 DEF SInv, SleepersAreWoken, RestOK, Up
  <2>2. ASSUME NEW p \in Ops, BeginSleeps(p) PROVE SInv'
    <3>1. Active' = Active /\ UNCHANGED <<phase, lh>> /\ Up /\ Up'
      BY <1>2, <2>2 DEF BeginSleeps, Active, Up
    <3>2. phase.at # "ready" \/ Active # {}
      BY <2>2, RoomAtRest DEF BeginSleeps, SInv, RestOK
    <3> QED BY <1>1, <3>1, <3>2 DEF SInv, SleepersAreWoken, RestOK
  <2>3. ASSUME NEW p \in Ops, EndOp(p) PROVE SInv'
    <3> DEFINE f == [op EXCEPT ![p] = Out]
    <3>1. /\ f \in [Ops -> [at: {"out", "asleep", "in"}, wrote: SUBSET Blocks]]
          /\ \A q \in Ops : q # p => f[q] = op[q]
      BY <1>2 DEF Out
    <3>2. op' = Woken(f) /\ phase' = phase /\ phase.at = "ready"
      BY <2>3 DEF EndOp
    <3>3. PICK q \in Active : q # p
      BY <2>3 DEF EndOp, Active
    <3> HIDE DEF f
    <3>4. q \in Ops /\ f[q].at = "in"
      BY <3>1, <3>3 DEF Active
    <3>5. q \in Active'
      BY <3>1, <3>2, <3>4, WokenOps DEF Active
    <3> QED BY <1>1, <3>2, <3>5 DEF SInv, SleepersAreWoken, RestOK, Up
  <2>4. ASSUME NEW p \in Ops, EndOpLast(p) PROVE SInv'
    <3>1. phase'.at = "log" /\ Up'
      BY <2>4 DEF EndOpLast, At, Up
    <3> QED BY <1>1, <3>1 DEF SInv, SleepersAreWoken, RestOK
  <2>5. ASSUME NEW p \in Ops, NEW b \in Blocks, Panic(p, b) PROVE SInv'
    <3>1. phase'.at = "panic" /\ \A q \in Ops : op'[q].at = "out"
      BY <2>5 DEF Panic, At, Out
    <3> QED BY <1>1, <3>1 DEF SInv, SleepersAreWoken, RestOK
  <2>6. ASSUME NEW p \in Ops, NEW b \in Blocks, NEW v \in Values, LogWrite(p, b, v) PROVE SInv'
    <3>1. phase' = phase /\ phase.at = "ready" /\ Up' /\ p \in Active'
      BY <1>2, <2>6 DEF LogWrite, Active, Up
    <3> QED BY <1>1, <3>1 DEF SInv, SleepersAreWoken, RestOK
  <2> QED BY <1>4, <2>1, <2>2, <2>3, <2>4, <2>5, <2>6 DEF OpStep
<1>5. CASE \E b \in Blocks : Fetch(b) \/ Recycle(b)
  <2>1. UNCHANGED <<lh, op, phase>>
    BY <1>5 DEF Fetch, Recycle
  <2> QED BY <1>1, <2>1 DEF SInv, SleepersAreWoken, RestOK, Active, Up
<1>6. CASE WriteLog \/ WriteHead \/ Install \/ Erase
  <2>1. phase'.at \in {"log", "install", "head"} /\ Up'
    BY <1>6 DEF WriteLog, WriteHead, Install, Erase, At, Up
  <2> QED BY <1>1, <2>1 DEF SInv, SleepersAreWoken, RestOK
<1>7. CASE CommitDone
  <2>1. lh' = <<>> /\ op' = Woken(op) /\ Up'
    BY <1>7 DEF CommitDone, At, Up, SInv, Inv, LogOK
  <2>2. \A p \in Ops : op'[p].at # "asleep"
    BY <1>2, <2>1 DEF Woken, Out
  <2> QED BY <1>1, <2>1, <2>2 DEF SInv, SleepersAreWoken, RestOK
<1>8. CASE Crash
  <2>1. phase'.at = "down" /\ \A q \in Ops : op'[q].at = "out"
    BY <1>8 DEF Crash, At, Out
  <2> QED BY <1>1, <2>1 DEF SInv, SleepersAreWoken, RestOK
<1>9. CASE ReadHead \/ Reinstall \/ Recovered
  <2>1. /\ ~ Up /\ op' = op
        /\ \/ phase'.at = "recover"
           \/ phase'.at = "ready" /\ lh' = <<>>
    BY <1>9 DEF ReadHead, Reinstall, Recovered, At, Up
  <2>2. \A p \in Ops : op'[p].at # "asleep"
    BY <2>1 DEF SInv, RestOK
  <2> QED BY <1>1, <2>1, <2>2 DEF SInv, SleepersAreWoken, RestOK
<1> QED BY <1>3, <1>4, <1>5, <1>6, <1>7, <1>8, <1>9 DEF Next

(* Nobody who sleeps in begin_op is forgotten: an operation or a commit is    *)
(* under way, at whose end he is woken (log.c:126-175).                       *)
THEOREM NobodyWaitsForNothing == Spec => []SleepersAreWoken
<1>1. Init => SInv
  <2> SUFFICES ASSUME Init PROVE SInv
    OBVIOUS
  <2>1. Up /\ lh = <<>> /\ \A p \in Ops : op[p].at = "out"
    BY DEF Init, Up, At, Out
  <2> QED BY <2>1, InitInv DEF SInv, SleepersAreWoken, RestOK
<1>2. SInv /\ [Next]_vars => SInv'
  BY SleepStep
<1>3. SInv => SleepersAreWoken
  BY DEF SInv
<1> QED BY <1>1, <1>2, <1>3, PTL DEF Spec

----------------------------------------------------------------------------
(* The reservations add up: an operation has written only what is logged, so  *)
(* a block that is new in the log is new for the operation, and takes one of  *)
(* those it has reserved.                                                     *)
Logged == \A p \in Active : IsFiniteSet(op[p].wrote) /\ op[p].wrote \subseteq InLog(lh)
RInv == Inv /\ IsFiniteSet(Active) /\ Logged /\ ReservationHolds

UnusedIs == /\ \A p, k : <<p, k>> \in Unused <=>
                p \in Active /\ k \in Cardinality(op[p].wrote) + 1 .. MaxOpBlocks
           /\ \A x \in Unused : \E p, k : x = <<p, k>>

LEMMA UnusedMembers == UnusedIs
<1>1. ASSUME NEW p, NEW k
      PROVE  <<p, k>> \in Unused <=>
               p \in Active /\ k \in Cardinality(op[p].wrote) + 1 .. MaxOpBlocks
  BY DEF Unused
<1>2. \A x \in Unused : \E p, k : x = <<p, k>>
  BY DEF Unused
<1> QED BY <1>1, <1>2 DEF UnusedIs

LEMMA UnusedBound ==
    ASSUME IsFiniteSet(Active), Logged
    PROVE  /\ Unused \in SUBSET (Active \X (1 .. MaxOpBlocks))
           /\ IsFiniteSet(Unused) /\ Cardinality(Unused) \in Nat /\ Cardinality(Active) \in Nat
           /\ Cardinality(Unused) <= Cardinality(Active) * MaxOpBlocks
<1> DEFINE T == Active \X (1 .. MaxOpBlocks)
<1>1. MaxOpBlocks \in Nat /\ MaxOpBlocks > 0
  BY DiskLogAssumption
<1>2. Unused \in SUBSET T
  <2> SUFFICES ASSUME NEW x \in Unused PROVE x \in T
    OBVIOUS
  <2>1. PICK p, k : x = <<p, k>>
    BY UnusedMembers DEF UnusedIs
  <2>2. p \in Active /\ k \in Cardinality(op[p].wrote) + 1 .. MaxOpBlocks
    BY <2>1, UnusedMembers DEF UnusedIs
  <2>3. Cardinality(op[p].wrote) \in Nat
    BY <2>2, FS_CardinalityType DEF Logged
  <2>4. k \in 1 .. MaxOpBlocks
    BY <1>1, <2>2, <2>3
  <2> QED BY <2>1, <2>2, <2>4
<1>3. IsFiniteSet(1 .. MaxOpBlocks) /\ Cardinality(1 .. MaxOpBlocks) = MaxOpBlocks
  BY <1>1, FS_Interval
<1>4. IsFiniteSet(T) /\ Cardinality(T) = Cardinality(Active) * MaxOpBlocks
  BY <1>3, FS_Product
<1>5. IsFiniteSet(Unused) /\ Cardinality(Unused) <= Cardinality(T)
  BY <1>2, <1>4, FS_Subset
<1> QED BY <1>2, <1>4, <1>5, FS_CardinalityType

Bounded == IsFiniteSet(Active) /\ Logged =>
             /\ Cardinality(Unused) \in Nat
             /\ Cardinality(Unused) <= Cardinality(Active) * MaxOpBlocks

LEMMA UnusedBounded == Bounded
BY UnusedBound DEF Bounded

(* With fewer operations, and no less written by those that go on, there is   *)
(* no more unused.                                                            *)
LEMMA UnusedShrinks ==
    ASSUME IsFiniteSet(Active), Logged, Active' \subseteq Active,
           \A p \in Active' : op'[p] = op[p], lh' = lh, Len(lh) \in Nat, ReservationHolds
    PROVE  IsFiniteSet(Active)' /\ Logged' /\ ReservationHolds'
<1>1. IsFiniteSet(Active')
  BY FS_Subset
<1>2. Logged'
  BY DEF Logged
<1>3. Unused' \in SUBSET Unused
  BY DEF Unused
<1>4. Cardinality(Unused') <= Cardinality(Unused) /\ Cardinality(Unused) \in Nat
  BY <1>3, UnusedBound, FS_Subset
<1>5. IsFiniteSet(Unused') /\ Cardinality(Unused') \in Nat
  BY <1>3, UnusedBound, FS_Subset, FS_CardinalityType
<1> QED BY <1>1, <1>2, <1>4, <1>5, DiskLogAssumption DEF ReservationHolds

LEMMA NobodyReserves ==
    ASSUME Inv', Active' = {}
    PROVE  IsFiniteSet(Active)' /\ Logged' /\ ReservationHolds'
<1>1. Unused' = {} /\ Cardinality(Unused') = 0 /\ IsFiniteSet(Active')
  BY FS_EmptySet DEF Unused
<1>2. Len(lh') \in Nat /\ Len(lh') <= DataBlocks
  BY DEF Inv, TypeOK
<1> QED BY <1>1, <1>2, DiskLogAssumption DEF Logged, ReservationHolds

LEMMA BeginReserves ==
    ASSUME RInv, NEW p \in Ops, BeginOp(p)
    PROVE  IsFiniteSet(Active)' /\ Logged' /\ ReservationHolds'
<1>1. /\ op \in [Ops -> [at: {"out", "asleep", "in"}, wrote: SUBSET Blocks]]
      /\ Len(lh) \in Nat /\ lh' = lh
  BY DEF RInv, Inv, TypeOK, BeginOp
<1>2. op'[p] = [at |-> "in", wrote |-> {}] /\ \A q \in Ops : q # p => op'[q] = op[q]
  BY <1>1 DEF BeginOp
<1>3. Active' = Active \cup {p} /\ p \notin Active
  BY <1>1, <1>2 DEF BeginOp, Active
<1>4. IsFiniteSet(Active') /\ Cardinality(Active') = Cardinality(Active) + 1
  BY <1>3, FS_AddElement DEF RInv
<1>5. Logged'
  <2> SUFFICES ASSUME NEW q \in Active'
               PROVE  IsFiniteSet(op'[q].wrote) /\ op'[q].wrote \subseteq InLog(lh')
    BY DEF Logged
  <2>1. CASE q = p
    BY <1>2, <2>1, FS_EmptySet
  <2>2. CASE q # p
    BY <1>1, <1>2, <1>3, <2>2 DEF RInv, Logged, Active
  <2> QED BY <2>1, <2>2
<1>6. Cardinality(Unused') <= Cardinality(Active') * MaxOpBlocks /\ Cardinality(Unused') \in Nat
  <2>1. Bounded'
    BY UnusedBounded, PTL
  <2>2. IsFiniteSet(Active') /\ Logged'
    BY <1>4, <1>5
  <2>3. /\ Cardinality(Unused') \in Nat
        /\ Cardinality(Unused') <= Cardinality(Active') * MaxOpBlocks
    BY <2>1, <2>2 DEF Bounded
  <2> QED BY <2>3
<1>7. Len(lh) + Cardinality(Active') * MaxOpBlocks <= LogSize
  BY <1>4 DEF HasRoom, BeginOp
<1>8. Cardinality(Active') * MaxOpBlocks \in Nat
  <2>1. Cardinality(Active') \in Nat
    BY <1>4, FS_CardinalityType
  <2> QED BY <2>1, DiskLogAssumption
<1>9. ReservationHolds'
  <2> DEFINE m == Cardinality(Active') * MaxOpBlocks
  <2>1. m \in Nat /\ Len(lh) + m <= LogSize /\ Cardinality(Unused') <= m
    BY <1>6, <1>7, <1>8
  <2> HIDE DEF m
  <2>2. Len(lh) + Cardinality(Unused') <= LogSize
    BY <1>1, <1>6, <2>1, DiskLogAssumption
  <2> QED BY <1>1, <2>2 DEF ReservationHolds
<1> QED BY <1>4, <1>5, <1>9

LEMMA WriteUsesUp ==
    ASSUME RInv, NEW p \in Ops, NEW b \in Blocks, NEW v \in Values, LogWrite(p, b, v), Inv'
    PROVE  IsFiniteSet(Active)' /\ Logged' /\ ReservationHolds'
<1> DEFINE old == op[p].wrote
           new == old \cup {b}
<1>1. /\ op \in [Ops -> [at: {"out", "asleep", "in"}, wrote: SUBSET Blocks]]
      /\ lh \in Seq(Blocks) /\ Len(lh) \in Nat /\ MaxOpBlocks \in Nat
  BY DiskLogAssumption DEF RInv, Inv, TypeOK
<1>2. /\ op'[p] = [at |-> "in", wrote |-> new]
      /\ \A q \in Ops : q # p => op'[q] = op[q]
      /\ op[p].at = "in"
  BY <1>1 DEF LogWrite
<1>3. Active' = Active /\ p \in Active
  <2>1. \A q \in Ops : op'[q].at = "in" <=> op[q].at = "in"
    BY <1>2
  <2> QED BY <1>2, <2>1, Zenon DEF Active
<1>4. IsFiniteSet(old) /\ old \subseteq InLog(lh) /\ Cardinality(old) \in Nat
  BY <1>3, FS_CardinalityType DEF RInv, Logged
<1>5. /\ IsFiniteSet(new)
      /\ Cardinality(new) = IF b \in old THEN Cardinality(old) ELSE Cardinality(old) + 1
      /\ Cardinality(new) <= MaxOpBlocks
  BY <1>4, FS_AddElement DEF LogWrite
<1>6. lh' = IF b \in InLog(lh) THEN lh ELSE Append(lh, b)
  BY DEF LogWrite
<1>7. InLog(lh) \subseteq InLog(lh') /\ b \in InLog(lh')
  <2>1. CASE b \in InLog(lh)
    BY <1>6, <2>1
  <2>2. CASE b \notin InLog(lh)
    <3>1. lh' = Append(lh, b) /\ Len(lh') = Len(lh) + 1 /\ lh'[Len(lh) + 1] = b
      BY <1>1, <1>6, <2>2
    <3>2. \A i \in 1 .. Len(lh) : lh'[i] = lh[i] /\ i \in 1 .. Len(lh')
      BY <1>1, <3>1
    <3>3. Len(lh) + 1 \in 1 .. Len(lh')
      BY <1>1, <3>1
    <3> QED BY <3>1, <3>2, <3>3 DEF InLog
  <2> QED BY <2>1, <2>2
<1>8. Logged'
  <2> SUFFICES ASSUME NEW q \in Active'
               PROVE  IsFiniteSet(op'[q].wrote) /\ op'[q].wrote \subseteq InLog(lh')
    BY DEF Logged
  <2>1. q \in Active
    BY <1>3
  <2>2. CASE q = p
    BY <1>2, <1>4, <1>5, <1>7, <2>2
  <2>3. CASE q # p
    BY <1>2, <1>7, <2>1, <2>3 DEF RInv, Logged, Active
  <2> QED BY <2>2, <2>3
<1>9. IsFiniteSet(Unused) /\ Cardinality(Unused) \in Nat
  BY UnusedBound DEF RInv
<1>10. \A q \in Active : q # p => op'[q] = op[q]
  BY <1>2 DEF Active
<1>11. UnusedIs'
  BY UnusedMembers, PTL
<1>12. CASE b \in InLog(lh)
  <2>1. Cardinality(op'[p].wrote) \in Nat /\ Cardinality(op'[p].wrote) >= Cardinality(old)
    BY <1>2, <1>4, <1>5
  <2>2. \A q \in Active : \A k : k \in Cardinality(op'[q].wrote) + 1 .. MaxOpBlocks
                             => k \in Cardinality(op[q].wrote) + 1 .. MaxOpBlocks
    BY <1>1, <1>4, <1>10, <2>1
  <2>3. Unused' \in SUBSET Unused
    BY <1>3, <1>11, <2>2, UnusedMembers DEF UnusedIs
  <2>4. Cardinality(Unused') <= Cardinality(Unused) /\ Cardinality(Unused') \in Nat
    BY <1>9, <2>3, FS_Subset, FS_CardinalityType
  <2>5. ReservationHolds'
    BY <1>1, <1>6, <1>9, <1>12, <2>4, DiskLogAssumption DEF RInv, ReservationHolds
  <2> QED BY <1>3, <1>8, <2>5 DEF RInv
<1>13. CASE b \notin InLog(lh)
  <2> DEFINE x == <<p, Cardinality(old) + 1>>
  <2>1. Cardinality(op'[p].wrote) = Cardinality(old) + 1 /\ b \notin old
    BY <1>2, <1>4, <1>5, <1>13
  <2>2. x \in Unused
    <3>1. Cardinality(old) + 1 \in Cardinality(old) + 1 .. MaxOpBlocks
      BY <1>1, <1>2, <1>4, <1>5, <2>1
    <3> QED BY <1>3, <3>1, UnusedMembers DEF UnusedIs
  <2>3. \A q \in Active : \A k : k \in Cardinality(op'[q].wrote) + 1 .. MaxOpBlocks
                             => /\ k \in Cardinality(op[q].wrote) + 1 .. MaxOpBlocks
                                /\ q = p => k # Cardinality(old) + 1
    BY <1>1, <1>4, <1>10, <2>1
  <2>4. Unused' \in SUBSET (Unused \ {x})
    <3> SUFFICES ASSUME NEW y \in Unused' PROVE y \in Unused /\ y # x
      OBVIOUS
    <3>1. PICK q, k : y = <<q, k>>
      BY <1>11 DEF UnusedIs
    <3>2. q \in Active /\ k \in Cardinality(op'[q].wrote) + 1 .. MaxOpBlocks
      BY <1>3, <1>11, <3>1 DEF UnusedIs
    <3>3. y \in Unused
      BY <2>3, <3>1, <3>2, UnusedMembers DEF UnusedIs
    <3>4. ~ (q = p /\ k = Cardinality(old) + 1)
      BY <2>3, <3>2
    <3> QED BY <3>1, <3>3, <3>4
  <2>5. IsFiniteSet(Unused \ {x}) /\ Cardinality(Unused \ {x}) = Cardinality(Unused) - 1
    BY <1>9, <2>2, FS_RemoveElement
  <2> HIDE DEF x
  <2>6. Cardinality(Unused') <= Cardinality(Unused) - 1 /\ Cardinality(Unused') \in Nat
    BY <2>4, <2>5, FS_Subset, FS_CardinalityType
  <2>7. Len(lh') = Len(lh) + 1
    BY <1>1, <1>6, <1>13
  <2>8. ReservationHolds'
    BY <1>1, <1>9, <2>6, <2>7, DiskLogAssumption DEF RInv, ReservationHolds
  <2> QED BY <1>3, <1>8, <2>8 DEF RInv
<1> QED BY <1>12, <1>13

LEMMA ReservationStep == ASSUME RInv, [Next]_vars PROVE RInv'
<1>1. Inv'
  BY Step DEF RInv
<1>2. /\ op \in [Ops -> [at: {"out", "asleep", "in"}, wrote: SUBSET Blocks]]
      /\ Len(lh) \in Nat /\ IsFiniteSet(Active) /\ Logged /\ ReservationHolds
      /\ phase.at # "ready" => Active = {}
  BY DEF RInv, Inv, TypeOK, LogOK
<1>3. CASE op' = op /\ lh' = lh
  <2>1. Active' \subseteq Active
    BY <1>3 DEF Active
  <2> QED BY <1>1, <1>2, <1>3, <2>1, UnusedShrinks DEF RInv
<1>4. CASE Active' = {}
  BY <1>1, <1>4, NobodyReserves DEF RInv
<1>5. CASE OpStep
  <2>1. ASSUME NEW p \in Ops, BeginOp(p) PROVE RInv'
    BY <1>1, <2>1, BeginReserves DEF RInv
  <2>2. ASSUME NEW p \in Ops, BeginSleeps(p) PROVE RInv'
    <3>1. lh' = lh /\ Active' \subseteq Active /\ \A q \in Active' : op'[q] = op[q]
      BY <1>2, <2>2 DEF BeginSleeps, Active
    <3> QED BY <1>1, <1>2, <3>1, UnusedShrinks DEF RInv
  <2>3. ASSUME NEW p \in Ops, EndOp(p) PROVE RInv'
    <3>1. \A q \in Ops : op'[q].at = "in" => op'[q] = op[q] /\ op[q].at = "in"
      BY <1>2, <2>3 DEF EndOp, Woken, Out
    <3>2. lh' = lh /\ Active' \subseteq Active /\ \A q \in Active' : op'[q] = op[q]
      BY <2>3, <3>1 DEF EndOp, Active
    <3> QED BY <1>1, <1>2, <3>2, UnusedShrinks DEF RInv
  <2>4. ASSUME NEW p \in Ops, EndOpLast(p) PROVE RInv'
    <3>1. \A q \in Ops : op'[q].at = "in" => op[q].at = "in" /\ q # p
      BY <1>2, <2>4 DEF EndOpLast, Out
    <3>2. Active' = {}
      BY <2>4, <3>1 DEF EndOpLast, Active
    <3> QED BY <1>4, <3>2
  <2>5. ASSUME NEW p \in Ops, NEW b \in Blocks, Panic(p, b) PROVE RInv'
    <3>1. Active' = {}
      BY <2>5 DEF Panic, Active, Out
    <3> QED BY <1>4, <3>1
  <2>6. ASSUME NEW p \in Ops, NEW b \in Blocks, NEW v \in Values, LogWrite(p, b, v) PROVE RInv'
    BY <1>1, <2>6, WriteUsesUp DEF RInv
  <2> QED BY <1>5, <2>1, <2>2, <2>3, <2>4, <2>5, <2>6 DEF OpStep
<1>6. CASE UNCHANGED vars \/ \E b \in Blocks : Fetch(b) \/ Recycle(b)
  BY <1>3, <1>6 DEF vars, Fetch, Recycle
<1>7. CASE WriteLog \/ WriteHead \/ Install \/ Erase
  <2>1. op' = op /\ Active = {}
    BY <1>2, <1>7 DEF WriteLog, WriteHead, Install, Erase
  <2>2. Active' = {}
    BY <2>1 DEF Active
  <2> QED BY <1>4, <2>2
<1>8. CASE CommitDone
  <2>1. Active = {} /\ op' = Woken(op)
    BY <1>2, <1>8 DEF CommitDone
  <2>2. Active' = {}
    BY <1>2, <2>1, WokenOps DEF Active
  <2> QED BY <1>4, <2>2
<1>9. CASE Crash
  <2>1. Active' = {}
    BY <1>9 DEF Crash, Active, Out
  <2> QED BY <1>4, <2>1
<1>10. CASE ReadHead \/ Reinstall \/ Recovered
  <2>1. op' = op /\ Active = {}
    BY <1>2, <1>10 DEF ReadHead, Reinstall, Recovered
  <2>2. Active' = {}
    BY <2>1 DEF Active
  <2> QED BY <1>4, <2>2
<1> QED BY <1>5, <1>6, <1>7, <1>8, <1>9, <1>10 DEF Next

(* What begin_op has let in fits into the log with all it may still write,    *)
(* whatever the operations absorb and however many overlap, so that none runs *)
(* out of log blocks (log.c:126-143).                                         *)
THEOREM OperationsFit == Spec => []ReservationHolds
<1>1. Init => RInv
  <2> SUFFICES ASSUME Init PROVE RInv
    OBVIOUS
  <2>1. Active = {} /\ Unused = {} /\ Len(lh) = 0
    BY DEF Init, Active, Out, Unused
  <2>2. IsFiniteSet(Active) /\ Cardinality(Unused) = 0
    BY <2>1, FS_EmptySet
  <2> QED BY <2>1, <2>2, InitInv, DiskLogAssumption DEF RInv, Logged, ReservationHolds
<1>2. RInv /\ [Next]_vars => RInv'
  BY ReservationStep
<1>3. RInv => ReservationHolds
  BY DEF RInv
<1> QED BY <1>1, <1>2, <1>3, PTL DEF Spec

----------------------------------------------------------------------------
(* The mappings of files (Mmap), for any number of processes, areas, pages    *)
(* and sizes.  The lists of areas are taken as sequences; an area of the      *)
(* table is in the sequence of one process, once, or its length is 0.         *)

\* A set of numbers has a least one.
LEMMA MinNat ==
    ASSUME NEW T \in SUBSET Nat, T # {}
    PROVE  \E x \in T : \A y \in T : x <= y
<1> DEFINE R == {ss \in Nat \X Nat : ss[1] < ss[2]}
<1>1. IsWellFoundedOn(R, Nat)
  <2>1. R = OpToRel(<, Nat)
    BY ZenonT(20) DEF OpToRel
  <2> QED
    BY <2>1, NatLessThanWellFounded, ZenonT(20)
<1>2. PICK x \in T : \A y \in T : ~ (<<y, x>> \in R)
  BY <1>1, WFMin
<1>3. ASSUME NEW m \in Nat, NEW n \in Nat, n < m
      PROVE  <<n, m>> \in R
  BY <1>3
<1> HIDE DEF R
<1>4. ASSUME NEW y \in T PROVE x <= y
  <2>1. x \in Nat /\ y \in Nat
    OBVIOUS
  <2>2. ~ (<<y, x>> \in R)
    BY <1>2
  <2> QED
    BY <2>1, <2>2, <1>3
<1> QED
  BY <1>4

\* c is where the links lead from s, and they come to an end.
Linking(c, s) ==
    /\ c \in Seq(Areas)
    /\ c = <<>> => s = 0
    /\ c # <<>> => c[1] = s /\ vma[c[Len(c)]].next = 0
    /\ \A i \in 1 .. Len(c) - 1 : vma[c[i]].next = c[i + 1]
    /\ \A i, j \in 1 .. Len(c) : c[i] = c[j] => i = j

\* A list without repetition is no longer than the table.
LEMMA ListFits ==
    ASSUME NEW c \in Seq(Areas), \A i, j \in 1 .. Len(c) : c[i] = c[j] => i = j
    PROVE  Len(c) <= VmaCount
<1> DEFINE n == Len(c)
<1>1. n \in Nat /\ c \in [1 .. n -> Areas]
  OBVIOUS
<1>2. IsFiniteSet(Areas) /\ Cardinality(Areas) = VmaCount
  BY FS_Interval, MmapAssumption DEF Areas
<1>3. IsFiniteSet(1 .. n) /\ Cardinality(1 .. n) = n
  BY <1>1, FS_Interval
<1>4. c \in Injection(1 .. n, Areas)
  BY <1>1 DEF Injection, IsInjective
<1> QED
  BY <1>2, <1>3, <1>4, FS_Injection DEF ExistsInjection

\* What walking along the links finds is the sequence.
LEMMA FromList ==
    ASSUME NEW s, NEW c, Linking(c, s)
    PROVE  From(s) = c
<1> DEFINE n == Len(c)
           at[k \in Areas] == IF k = 1 THEN s
                              ELSE IF at[k - 1] = 0 THEN 0 ELSE vma[at[k - 1]].next
           g == [k \in Areas |-> IF k <= n THEN c[k] ELSE 0]
           E(h) == [k \in Areas |-> IF k = 1 THEN s
                              ELSE IF h[k - 1] = 0 THEN 0 ELSE vma[h[k - 1]].next]
           m == Cardinality({k \in Areas : at[k] # 0})
<1>1. From(s) = [k \in 1 .. m |-> at[k]]
  BY DEF From
<1>2. at = CHOOSE h : h = E(h)
  OBVIOUS
<1>3. n \in Nat /\ c \in [1 .. n -> Areas]
  BY DEF Linking
<1>4. n <= VmaCount
  BY ListFits DEF Linking
<1>5. ASSUME NEW k \in Areas PROVE g[k] = E(g)[k]
  <2>1. k \in Nat /\ k >= 1
    BY MmapAssumption DEF Areas
  <2>2. CASE k = 1
    <3>1. CASE n = 0
      BY <1>3, <2>1, <2>2, <3>1 DEF Linking
    <3>2. CASE n # 0
      BY <1>3, <2>1, <2>2, <3>2 DEF Linking
    <3> QED BY <3>1, <3>2
  <2>3. CASE k # 1
    <3>1. k - 1 \in Areas
      BY <2>1, <2>3, MmapAssumption DEF Areas
    <3>2. g[k - 1] = IF k - 1 <= n THEN c[k - 1] ELSE 0
      BY <3>1
    <3>3. CASE k <= n
      <4>1. k - 1 \in 1 .. n - 1 /\ k - 1 \in 1 .. n /\ (k - 1) + 1 = k
        BY <1>3, <2>1, <2>3, <3>3
      <4>2. c[k - 1] \in Areas /\ c[k - 1] # 0 /\ vma[c[k - 1]].next = c[k]
        BY <4>1, <1>3, MmapAssumption DEF Linking, Areas
      <4> QED BY <3>2, <4>1, <4>2, <2>3, <3>3
    <3>4. CASE k = n + 1
      <4>1. k - 1 = n /\ n \in 1 .. n /\ c # <<>>
        BY <1>3, <2>1, <2>3, <3>4
      <4>2. c[n] \in Areas /\ c[n] # 0 /\ vma[c[n]].next = 0
        BY <4>1, <1>3, MmapAssumption DEF Linking, Areas
      <4> QED BY <3>2, <4>1, <4>2, <2>3, <3>4, <1>3
    <3>5. CASE k > n + 1
      <4>1. ~ (k - 1 <= n) /\ ~ (k <= n)
        BY <1>3, <2>1, <3>5
      <4> QED BY <3>2, <4>1, <2>3
    <3> QED BY <1>3, <2>1, <3>3, <3>4, <3>5
  <2> QED BY <2>2, <2>3
<1>6. g = E(g)
  <2> HIDE DEF n
  <2>1. g = [k \in Areas |-> g[k]]
    OBVIOUS
  <2>2. E(g) = [k \in Areas |-> E(g)[k]]
    OBVIOUS
  <2> HIDE DEF g, E
  <2> QED BY <1>5, <2>1, <2>2
<1>7. at = E(at)
  <2> HIDE DEF at, g, E
  <2> QED BY <1>2, <1>6
<1>8. at = g
  <2> DEFINE T == {k \in Areas : at[k] # g[k]}
  <2>1. T = {}
    <3> SUFFICES ASSUME T # {} PROVE FALSE
      OBVIOUS
    <3>1. T \subseteq Nat
      BY MmapAssumption DEF Areas
    <3>2. PICK x \in T : \A y \in T : x <= y
      <4> HIDE DEF T
      <4> QED BY <3>1, MinNat
    <3>3. x \in Areas /\ at[x] # g[x]
      OBVIOUS
    <3>4. x \in Nat /\ x >= 1
      BY <3>3, MmapAssumption DEF Areas
    <3>5. at[x] = E(at)[x] /\ g[x] = E(g)[x]
      <4> HIDE DEF at, g, E
      <4> QED BY <1>6, <1>7
    <3>6. CASE x = 1
      <4> HIDE DEF at, g
      <4> QED BY <3>3, <3>5, <3>6
    <3>7. CASE x # 1
      <4>1. x - 1 \in Areas
        BY <3>4, <3>7, <3>3, MmapAssumption DEF Areas
      <4>2. at[x - 1] = g[x - 1]
        <5> HIDE DEF at, g
        <5>1. ~ (x <= x - 1)
          BY <3>4
        <5> QED BY <3>2, <4>1, <5>1
      <4> HIDE DEF at, g
      <4> QED BY <3>3, <3>5, <3>7, <4>1, <4>2
    <3> QED BY <3>6, <3>7
  <2>2. at = [k \in Areas |-> at[k]] /\ g = [k \in Areas |-> g[k]]
    <3>1. E(at) = [k \in Areas |-> E(at)[k]]
      OBVIOUS
    <3> HIDE DEF at, g, E
    <3>2. g = [k \in Areas |-> g[k]]
      BY DEF g
    <3> QED BY <1>7, <3>1, <3>2
  <2> HIDE DEF at, g
  <2> QED BY <2>1, <2>2
<1>9. {k \in Areas : g[k] # 0} = 1 .. n
  BY <1>3, <1>4, MmapAssumption DEF Areas
<1>10. m = n
  <2>1. Cardinality(1 .. n) = n
    <3> HIDE DEF n
    <3> QED BY <1>3, FS_Interval
  <2>2. m = Cardinality({k \in Areas : g[k] # 0})
    <3> HIDE DEF at, g
    <3> QED BY <1>8
  <2> QED BY <2>1, <2>2, <1>9
<1>11. ASSUME NEW k \in 1 .. n PROVE g[k] = c[k]
  BY <1>3, <1>4, MmapAssumption DEF Areas
<1>12. c = [k \in 1 .. n |-> c[k]]
  BY <1>3
<1> HIDE DEF at, g, m, n
<1> QED BY <1>1, <1>8, <1>10, <1>11, <1>12

Used == {s \in Areas : vma[s].length # 0}
Members(c) == {c[i] : i \in 1 .. Len(c)}

\* Where the list of a process starts: exit has taken down what is before.
Root(p) ==
    CASE call[p].at \in {"gone", "close"} -> 0
      [] InBack(p) /\ call[p].exit -> call[p].area
      [] OTHER -> areas[p]

AreaSet == [length: Nat, start: Nat, end: Nat, off: Nat, shared: BOOLEAN, write: BOOLEAN,
            next: Areas \cup {0}]
Backs == [at: {"back"}, area: Areas, from: Nat, count: Nat, done: Nat, exit: BOOLEAN]
Closing == [at |-> "close"]

MmapType == /\ vma \in [Areas -> AreaSet]
            /\ areas \in [Users -> Areas \cup {0}]
            /\ frames \in [Users -> SUBSET Nat]
            /\ fd \subseteq Users
            /\ call \in [Users -> {UserMode, Gone, Closing} \cup Backs]

\* c is the list of p: its areas are in use and in order, its pages lie in them,
\* and munmap writes back the last of them, exit the first.
ListOf(p, c) ==
    /\ Linking(c, Root(p))
    /\ \A i \in 1 .. Len(c) : /\ vma[c[i]].length # 0
                              /\ vma[c[i]].end = vma[c[i]].start + vma[c[i]].length
    /\ \A i \in 1 .. Len(c) - 1 : vma[c[i]].end <= vma[c[i + 1]].start
    /\ \A a \in frames[p] : \E i \in 1 .. Len(c) : Holds(c[i], a)
    /\ InBack(p) => /\ c # <<>>
                    /\ ~ call[p].exit => call[p].area = c[Len(c)]
                    /\ call[p].from = vma[call[p].area].start
                    /\ call[p].count = vma[call[p].area].length
    /\ call[p] = Gone => areas[p] = 0 /\ p \notin fd

\* All the lists: they share no area, and the areas in them are those in use.
Lists(L) ==
    /\ DOMAIN L = Users
    /\ \A p \in Users : ListOf(p, L[p])
    /\ \A p, q \in Users : p # q => Members(L[p]) \cap Members(L[q]) = {}
    /\ Used = UNION {Members(L[p]) : p \in Users}

\* What sys_mmap relies on when it leaves the next of its first area alone.
FreeOK == \A s \in Areas : vma[s].length = 0 => vma[s].next = 0
RefsOK == IsFiniteSet(fd) /\ refs = Cardinality(fd) + Cardinality(Used)

MmapInv == MmapType /\ (\E L : Lists(L)) /\ FreeOK /\ RefsOK

----------------------------------------------------------------------------
\* What MappingsSound says of links is said of the sequences.
LEMMA RootOfList ==
    ASSUME NEW p \in Users, NEW c, MmapType, ListOf(p, c)
    PROVE  /\ Linked(p) = c
           /\ InUserMode(p) \/ (InBack(p) /\ ~ call[p].exit) =>
                Chain(p) = c /\ Root(p) = areas[p]
           /\ InBack(p) => /\ call[p].area \in Areas
                           /\ call[p].area = IF call[p].exit THEN c[1] ELSE c[Len(c)]
<1>1. From(Root(p)) = c
  BY FromList DEF ListOf
<1>2. call[p] \in {UserMode, Gone, Closing} \cup Backs
  BY DEF MmapType
<1>3. CASE call[p] = Gone \/ call[p] = Closing
  <2>1. call[p].at \in {"gone", "close"}
    BY <1>3 DEF Gone, Closing
  <2>2. Root(p) = 0
    <3>1. ~ InBack(p)
      BY <2>1 DEF InBack
    <3> QED BY <2>1, <3>1 DEF Root
  <2>3. c = <<>>
    <3> SUFFICES ASSUME c # <<>> PROVE FALSE
      OBVIOUS
    <3>1. c \in Seq(Areas) /\ c[1] = 0
      BY <2>2 DEF ListOf, Linking
    <3> QED BY <3>1, MmapAssumption DEF Areas
  <2>4. ~ InUserMode(p) /\ ~ InBack(p)
    BY <2>1 DEF InUserMode, InBack, UserMode
  <2> QED BY <2>1, <2>3, <2>4 DEF Linked
<1>4. CASE call[p] = UserMode
  <2>1. ~ InBack(p) /\ ~ (call[p].at \in {"gone", "close"})
    BY <1>4 DEF UserMode, InBack
  <2>2. Linked(p) = Chain(p) /\ Root(p) = areas[p]
    BY <2>1 DEF Linked, Root
  <2> QED BY <1>1, <2>1, <2>2 DEF Chain
<1>5. CASE call[p] \in Backs
  <2>1. call[p].at = "back" /\ call[p].area \in Areas
    BY <1>5 DEF Backs
  <2>2. InBack(p) /\ ~ InUserMode(p) /\ ~ (call[p].at \in {"gone", "close"})
    BY <2>1 DEF InBack, InUserMode, UserMode
  <2>3. c # <<>>
    BY <2>2 DEF ListOf
  <2>4. CASE call[p].exit
    <3>1. Root(p) = call[p].area
      BY <2>2, <2>4 DEF Root
    <3>2. Linked(p) = From(call[p].area)
      BY <2>2, <2>4 DEF Linked
    <3>3. c[1] = Root(p)
      BY <2>3 DEF ListOf, Linking
    <3> QED BY <1>1, <2>1, <2>2, <2>4, <3>1, <3>2, <3>3
  <2>5. CASE ~ call[p].exit
    <3>1. Root(p) = areas[p]
      BY <2>2, <2>5 DEF Root
    <3>2. Linked(p) = Chain(p)
      BY <2>2, <2>5 DEF Linked
    <3>3. call[p].area = c[Len(c)]
      BY <2>2, <2>5 DEF ListOf
    <3> QED BY <1>1, <2>1, <2>2, <2>5, <3>1, <3>2, <3>3 DEF Chain
  <2> QED BY <2>4, <2>5
<1> QED BY <1>2, <1>3, <1>4, <1>5

----------------------------------------------------------------------------
\* What every step leaves alone of the processes other than p.
Apart(p, S) ==
    /\ \A q \in Users \ {p} : /\ call'[q] = call[q] /\ areas'[q] = areas[q]
                              /\ frames'[q] = frames[q] /\ (q \in fd' => q \in fd)
    /\ \A s \in Used \ S : vma'[s] = vma[s]

LEMMA ListStays ==
    ASSUME MmapType, NEW p \in Users, NEW c, ListOf(p, c),
           \A i \in 1 .. Len(c) : vma'[c[i]] = vma[c[i]],
           call'[p] = call[p], areas'[p] = areas[p], frames'[p] \subseteq frames[p],
           p \in fd' => p \in fd
    PROVE  ListOf(p, c)'
<1>1. Root(p)' = Root(p)
  BY DEF Root, InBack
<1>2. c \in Seq(Areas) /\ Len(c) \in Nat
  BY DEF ListOf, Linking
<1>3. Linking(c, Root(p))'
  <2>1. Linking(c, Root(p))
    BY DEF ListOf
  <2>2. c # <<>> => vma'[c[Len(c)]].next = 0
    <3>1. c # <<>> => Len(c) \in 1 .. Len(c)
      BY <1>2
    <3> QED BY <2>1, <3>1 DEF Linking
  <2>3. ASSUME NEW i \in 1 .. Len(c) - 1 PROVE vma'[c[i]].next = c[i + 1]
    <3>1. i \in 1 .. Len(c)
      BY <1>2
    <3> QED BY <2>1, <3>1 DEF Linking
  <2>4. /\ c = <<>> => Root(p)' = 0
        /\ c # <<>> => c[1] = Root(p)'
        /\ \A i, j \in 1 .. Len(c) : c[i] = c[j] => i = j
    BY <1>1, <2>1 DEF Linking
  <2> QED BY <1>2, <2>2, <2>3, <2>4 DEF Linking
<1>4. \A i \in 1 .. Len(c) : /\ vma'[c[i]].length # 0
                             /\ vma'[c[i]].end = vma'[c[i]].start + vma'[c[i]].length
  BY DEF ListOf
<1>5. \A i \in 1 .. Len(c) - 1 : vma'[c[i]].end <= vma'[c[i + 1]].start
  <2> TAKE i \in 1 .. Len(c) - 1
  <2>1. i \in 1 .. Len(c) /\ i + 1 \in 1 .. Len(c)
    BY <1>2
  <2> QED BY <2>1 DEF ListOf
<1>6. \A a \in frames'[p] : \E i \in 1 .. Len(c) : Holds(c[i], a)'
  <2> TAKE a \in frames'[p]
  <2>1. PICK i \in 1 .. Len(c) : Holds(c[i], a)
    BY DEF ListOf
  <2>2. Holds(c[i], a)'
    BY <2>1 DEF Holds
  <2> QED BY <2>2
<1>7. InBack(p)' => /\ c # <<>>
                    /\ ~ call'[p].exit => call'[p].area = c[Len(c)]
                    /\ call'[p].from = vma'[call'[p].area].start
                    /\ call'[p].count = vma'[call'[p].area].length
  <2> SUFFICES ASSUME InBack(p)' PROVE
                    /\ c # <<>>
                    /\ ~ call'[p].exit => call'[p].area = c[Len(c)]
                    /\ call'[p].from = vma'[call'[p].area].start
                    /\ call'[p].count = vma'[call'[p].area].length
    OBVIOUS
  <2>1. InBack(p)
    BY DEF InBack
  <2>2. c # <<>> /\ (~ call[p].exit => call[p].area = c[Len(c)])
    BY <2>1 DEF ListOf
  <2>3. call[p].from = vma[call[p].area].start /\ call[p].count = vma[call[p].area].length
    BY <2>1 DEF ListOf
  <2>4. 1 \in 1 .. Len(c) /\ Len(c) \in 1 .. Len(c)
    BY <1>2, <2>2
  <2>5. call[p].area = IF call[p].exit THEN c[1] ELSE c[Len(c)]
    BY <2>1, RootOfList
  <2>6. vma'[call[p].area] = vma[call[p].area]
    BY <2>4, <2>5
  <2> QED BY <2>2, <2>3, <2>6
<1>8. call'[p] = Gone => areas'[p] = 0 /\ p \notin fd'
  BY DEF ListOf
<1> QED BY <1>3, <1>4, <1>5, <1>6, <1>7, <1>8 DEF ListOf

\* A step of a process changes its own list, of areas it has or that are free.
LEMMA OneListChanges ==
    ASSUME MmapType, NEW L, Lists(L), NEW p \in Users, NEW d,
           Apart(p, Members(L[p])), ListOf(p, d)',
           Used' = (Used \ Members(L[p])) \cup Members(d),
           Members(d) \cap (Used \ Members(L[p])) = {}
    PROVE  (\E M : Lists(M))'
<1> DEFINE M == [q \in Users |-> IF q = p THEN d ELSE L[q]]
<1>1. ASSUME NEW q \in Users, q # p
      PROVE  ListOf(q, L[q])' /\ Members(L[q]) \subseteq Used \ Members(L[p])
  <2>1. ListOf(q, L[q]) /\ Members(L[q]) \cap Members(L[p]) = {}
    BY <1>1 DEF Lists
  <2>2. Members(L[q]) \subseteq Used
    BY DEF Lists
  <2>3. \A i \in 1 .. Len(L[q]) : vma'[L[q][i]] = vma[L[q][i]]
    BY <2>1, <2>2 DEF Members, Apart
  <2>4. /\ call'[q] = call[q] /\ areas'[q] = areas[q] /\ frames'[q] \subseteq frames[q]
        /\ (q \in fd' => q \in fd)
    BY <1>1 DEF Apart
  <2>5. ListOf(q, L[q])'
    <3> DEFINE c == L[q]
    <3>1. PICK e : e = L[q]
      OBVIOUS
    <3>2. ListOf(q, e) /\ \A i \in 1 .. Len(e) : vma'[e[i]] = vma[e[i]]
      BY <2>1, <2>3, <3>1
    <3>3. ListOf(q, e)'
      BY <2>4, <3>2, ListStays
    <3> QED BY <3>1, <3>3
  <2> QED BY <2>1, <2>2, <2>5
<1>2. \A q \in Users : ListOf(q, M[q])'
  BY <1>1
<1>3. \A q, r \in Users : q # r => Members(M[q]) \cap Members(M[r]) = {}
  <2> TAKE q, r \in Users
  <2> HAVE q # r
  <2>1. CASE q # p /\ r # p
    BY <2>1 DEF Lists
  <2>2. CASE q = p
    <3>1. M[q] = d /\ M[r] = L[r] /\ r # p
      BY <2>2
    <3> QED BY <3>1, <1>1
  <2>3. CASE r = p
    <3>1. M[r] = d /\ M[q] = L[q] /\ q # p
      BY <2>3
    <3> QED BY <3>1, <1>1
  <2> QED BY <2>1, <2>2, <2>3
<1>4. Used' = UNION {Members(M[q]) : q \in Users}
  <2>1. ASSUME NEW s \in Used' PROVE \E q \in Users : s \in Members(M[q])
    <3>1. CASE s \in Members(d)
      <4>1. M[p] = d
        OBVIOUS
      <4> QED BY <3>1, <4>1
    <3>2. CASE s \in Used \ Members(L[p])
      <4>1. PICK q \in Users : s \in Members(L[q])
        BY <3>2 DEF Lists
      <4>2. M[q] = L[q]
        BY <3>2, <4>1
      <4> QED BY <4>1, <4>2
    <3> QED BY <3>1, <3>2
  <2>2. ASSUME NEW q \in Users, NEW s \in Members(M[q]) PROVE s \in Used'
    <3>1. CASE q = p
      BY <3>1
    <3>2. CASE q # p
      BY <3>2, <1>1
    <3> QED BY <3>1, <3>2
  <2> HIDE DEF M
  <2> QED BY <2>1, <2>2
<1>5. DOMAIN M = Users
  OBVIOUS
<1>6. Lists(M)'
  <2> HIDE DEF M
  <2> QED BY <1>2, <1>3, <1>4, <1>5 DEF Lists
<1> QED BY <1>6

LEMMA EmptyList ==
    ASSUME NEW p \in Users, NEW c, MmapType, ListOf(p, c), Root(p) = 0
    PROVE  c = <<>> /\ Members(c) = {} /\ frames[p] = {}
<1>1. c = <<>>
  <2> SUFFICES ASSUME c # <<>> PROVE FALSE
    OBVIOUS
  <2>1. c \in Seq(Areas) /\ c[1] = 0
    BY DEF ListOf, Linking
  <2> QED BY <2>1, MmapAssumption DEF Areas
<1> QED BY <1>1 DEF ListOf, Members

LEMMA StartStep ==
    ASSUME MmapInv, NEW p \in Users, Start(p)
    PROVE  MmapInv'
<1> USE DEF Start
<1>1. MmapType'
  BY DEF MmapInv, MmapType, Goto
<1>2. PICK L : Lists(L)
  BY DEF MmapInv
<1>3. ListOf(p, L[p]) /\ areas[p] = 0 /\ fd = {}
  <2>1. \A q \in Users : ListOf(q, L[q]) /\ call[q] = Gone
    BY <1>2 DEF Lists
  <2> QED BY <2>1 DEF ListOf, MmapInv, MmapType
<1>4. Root(p) = 0
  BY DEF Root, InBack, Gone
<1>5. L[p] = <<>> /\ Members(L[p]) = {} /\ frames[p] = {}
  BY <1>3, <1>4, EmptyList DEF MmapInv
<1>6. call'[p] = UserMode
  BY DEF Goto, MmapInv, MmapType
<1>7. ListOf(p, <<>>)'
  <2>1. ~ InBack(p)' /\ call'[p] # Gone /\ Root(p)' = areas[p]
    BY <1>6 DEF InBack, UserMode, Gone, Root
  <2>2. Linking(<<>>, Root(p))'
    BY <1>3, <2>1 DEF Linking
  <2> QED BY <1>5, <2>1, <2>2 DEF ListOf
<1>8. Apart(p, Members(L[p]))
  BY DEF Apart, Goto, MmapInv, MmapType
<1>9. Used' = Used /\ Members(<<>>) = {}
  BY DEF Used, Members
<1>10. (\E M : Lists(M))'
  <2>1. MmapType
    BY DEF MmapInv
  <2>2. /\ Used' = (Used \ Members(L[p])) \cup Members(<<>>)
        /\ Members(<<>>) \cap (Used \ Members(L[p])) = {}
    BY <1>5, <1>9
  <2> QED BY <1>2, <1>7, <1>8, <2>1, <2>2, OneListChanges
<1>11. FreeOK'
  BY DEF FreeOK, MmapInv
<1>12. RefsOK'
  <2>1. IsFiniteSet(fd') /\ Cardinality(fd') = 1 /\ Cardinality(fd) = 0
    BY <1>3, FS_Singleton, FS_EmptySet
  <2>2. IsFiniteSet(Used) /\ Cardinality(Used) \in Nat
    <3>1. IsFiniteSet(Areas) /\ Used \subseteq Areas
      BY FS_Interval, MmapAssumption DEF Areas, Used
    <3> QED BY <3>1, FS_Subset, FS_CardinalityType
  <2> QED BY <2>1, <2>2, <1>9 DEF RefsOK, MmapInv
<1> QED BY <1>1, <1>10, <1>11, <1>12 DEF MmapInv

\* A step that leaves the table of areas alone.
LEMMA SameAreas ==
    ASSUME MmapInv, NEW L, Lists(L), NEW p \in Users, vma' = vma,
           Apart(p, Members(L[p])), ListOf(p, L[p])'
    PROVE  (\E M : Lists(M))'
<1>1. PICK d : d = L[p]
  OBVIOUS
<1>2. Used' = Used /\ Members(d) \subseteq Used
  BY <1>1 DEF Used, Lists
<1>3. MmapType /\ ListOf(p, d)' /\ Apart(p, Members(L[p]))
  BY <1>1 DEF MmapInv
<1>4. Used' = (Used \ Members(L[p])) \cup Members(d) /\ Members(d) \cap (Used \ Members(L[p])) = {}
  BY <1>1, <1>2
<1> QED BY <1>3, <1>4, OneListChanges

LEMMA SameList ==
    ASSUME MmapType, NEW p \in Users, NEW c, ListOf(p, c), vma' = vma,
           Root(p)' = Root(p), call'[p] # Gone,
           \A a \in frames'[p] : a \in frames[p] \/ \E i \in 1 .. Len(c) : Holds(c[i], a),
           InBack(p)' => /\ c # <<>>
                         /\ ~ call'[p].exit => call'[p].area = c[Len(c)]
                         /\ call'[p].from = vma[call'[p].area].start
                         /\ call'[p].count = vma[call'[p].area].length
    PROVE  ListOf(p, c)'
<1>1. Linking(c, Root(p))'
  BY DEF ListOf, Linking
<1>2. \A a \in frames'[p] : \E i \in 1 .. Len(c) : Holds(c[i], a)'
  BY DEF ListOf, Holds
<1> QED BY <1>1, <1>2 DEF ListOf

LEMMA FaultStep ==
    ASSUME MmapInv, NEW p \in Users, NEW a \in Pages, Fault(p, a)
    PROVE  MmapInv'
<1> USE DEF Fault
<1>1. MmapType'
  BY MmapAssumption DEF MmapInv, MmapType, Pages
<1>2. PICK L : Lists(L)
  BY DEF MmapInv
<1>3. PICK c : c = L[p]
  OBVIOUS
<1>4. ListOf(p, c) /\ MmapType
  BY <1>2, <1>3 DEF Lists, MmapInv
<1>5. \E i \in 1 .. Len(c) : Holds(c[i], a)
  <2>1. Chain(p) = c
    BY <1>4, RootOfList
  <2> QED BY <2>1 DEF Area
<1>6. frames'[p] = frames[p] \cup {a} /\ call'[p] = UserMode /\ Root(p)' = Root(p)
  BY DEF MmapInv, MmapType, InUserMode, Root, InBack
<1>7. ~ InBack(p)' /\ call'[p] # Gone
  BY <1>6 DEF InBack, UserMode, Gone
<1>8. ListOf(p, c)'
  BY <1>4, <1>5, <1>6, <1>7, SameList
<1>9. Apart(p, Members(L[p])) /\ ListOf(p, L[p])'
  BY <1>3, <1>8 DEF Apart, MmapInv, MmapType
<1>10. (\E M : Lists(M))'
  BY <1>2, <1>9, SameAreas
<1>11. FreeOK' /\ RefsOK'
  BY DEF FreeOK, RefsOK, Used, MmapInv
<1> QED BY <1>1, <1>10, <1>11 DEF MmapInv

LEMMA ExecStep ==
    ASSUME MmapInv, NEW p \in Users, Exec(p)
    PROVE  MmapInv'
<1> USE DEF Exec
<1>1. MmapType'
  BY DEF MmapInv, MmapType
<1>2. PICK L : Lists(L)
  BY DEF MmapInv
<1>3. PICK c : c = L[p]
  OBVIOUS
<1>4. ListOf(p, c) /\ MmapType
  BY <1>2, <1>3 DEF Lists, MmapInv
<1>5. frames'[p] = {} /\ call'[p] = UserMode /\ Root(p)' = Root(p)
  BY DEF MmapInv, MmapType, InUserMode, Root, InBack
<1>6. ~ InBack(p)' /\ call'[p] # Gone
  BY <1>5 DEF InBack, UserMode, Gone
<1>7. ListOf(p, c)'
  BY <1>4, <1>5, <1>6, SameList
<1>8. Apart(p, Members(L[p])) /\ ListOf(p, L[p])'
  BY <1>3, <1>7 DEF Apart, MmapInv, MmapType
<1>9. (\E M : Lists(M))'
  BY <1>2, <1>8, SameAreas
<1>10. FreeOK' /\ RefsOK'
  BY DEF FreeOK, RefsOK, Used, MmapInv
<1> QED BY <1>1, <1>9, <1>10 DEF MmapInv

LEMMA UsedFinite ==
    IsFiniteSet(Areas) /\ IsFiniteSet(Used) /\ Cardinality(Used) \in Nat
<1>1. IsFiniteSet(Areas) /\ Used \subseteq Areas
  BY FS_Interval, MmapAssumption DEF Areas, Used
<1> QED BY <1>1, FS_Subset, FS_CardinalityType

LEMMA CloseFdStep ==
    ASSUME MmapInv, NEW p \in Users, CloseFd(p)
    PROVE  MmapInv'
<1> USE DEF CloseFd
<1>1. MmapType'
  BY DEF MmapInv, MmapType
<1>2. PICK L : Lists(L)
  BY DEF MmapInv
<1>3. PICK c : c = L[p]
  OBVIOUS
<1>4. ListOf(p, c) /\ MmapType
  BY <1>2, <1>3 DEF Lists, MmapInv
<1>5. frames' = frames /\ call'[p] = UserMode /\ Root(p)' = Root(p)
  BY DEF MmapInv, MmapType, InUserMode, Root, InBack
<1>6. ~ InBack(p)' /\ call'[p] # Gone
  BY <1>5 DEF InBack, UserMode, Gone
<1>7. ListOf(p, c)'
  BY <1>4, <1>5, <1>6, SameList
<1>8. Apart(p, Members(L[p])) /\ ListOf(p, L[p])'
  BY <1>3, <1>7 DEF Apart, MmapInv, MmapType
<1>9. (\E M : Lists(M))'
  BY <1>2, <1>8, SameAreas
<1>10. FreeOK' /\ Used' = Used
  BY DEF FreeOK, RefsOK, Used, MmapInv
<1>11. IsFiniteSet(fd') /\ Cardinality(fd) \in Nat /\ Cardinality(fd') = Cardinality(fd) - 1
  BY FS_RemoveElement, FS_CardinalityType DEF MmapInv, RefsOK
<1>12. RefsOK'
  BY <1>10, <1>11, UsedFinite DEF RefsOK, MmapInv
<1> QED BY <1>1, <1>9, <1>10, <1>12 DEF MmapInv

LEMMA DescriptorClosed ==
    ASSUME NEW F, IsFiniteSet(F), NEW p
    PROVE  /\ IsFiniteSet(F \ {p}) /\ Cardinality(F) \in Nat /\ Cardinality(F \cap {p}) \in Nat
           /\ Cardinality(F \ {p}) = Cardinality(F) - Cardinality(F \cap {p})
<1>1. IsFiniteSet(F \ {p}) /\ Cardinality(F) \in Nat
  BY FS_RemoveElement, FS_CardinalityType
<1>2. CASE p \in F
  <2>1. F \cap {p} = {p}
    BY <1>2
  <2>2. Cardinality(F \cap {p}) = 1
    BY <2>1, FS_Singleton
  <2>3. Cardinality(F \ {p}) = Cardinality(F) - 1
    BY <1>2, FS_RemoveElement
  <2> QED BY <1>1, <2>2, <2>3
<1>3. CASE p \notin F
  <2>1. F \cap {p} = {} /\ F \ {p} = F
    BY <1>3
  <2>2. Cardinality(F \cap {p}) = 0
    BY <2>1, FS_EmptySet
  <2>3. Cardinality(F \ {p}) = Cardinality(F)
    BY <2>1
  <2> QED BY <1>1, <2>2, <2>3
<1> QED BY <1>2, <1>3

LEMMA UnmapHeadStep ==
    ASSUME MmapInv, NEW p \in Users, NEW a \in Pages, NEW n \in Sizes,
           Tidily(p, a, n), UnmapHead(p, a, n)
    PROVE  MmapInv'
<1>1. PICK L : Lists(L)
  BY DEF MmapInv
<1>2. PICK c : c = L[p]
  OBVIOUS
<1>3. ListOf(p, c) /\ MmapType /\ InUserMode(p)
  BY <1>1, <1>2 DEF Lists, MmapInv, UnmapHead
<1>4. Chain(p) = c /\ Root(p) = areas[p]
  BY <1>3, RootOfList
<1>5. c # <<>> /\ c \in Seq(Areas)
  <2>1. c \in Seq(Areas)
    BY <1>3 DEF ListOf, Linking
  <2>2. Area(p, a) # 0
    BY DEF Tidily
  <2>3. \E i \in 1 .. Len(c) : TRUE
    BY <2>2, <1>4 DEF Area
  <2> QED BY <2>1, <2>3
<1>6. PICK s \in Areas : s = c[Len(c)]
  BY <1>5
<1>7. a = vma[s].start /\ n = vma[s].length /\ call' = [call EXCEPT ![p] = Back(s, a, n, FALSE)]
  BY <1>4, <1>6 DEF Tidily, Last, UnmapHead, Goto
<1>8. a \in Nat /\ n \in Nat /\ vma[s] \in AreaSet
  BY <1>3, <1>6, MmapAssumption DEF MmapType, Pages
<1>9. PICK b : b = Back(s, a, n, FALSE)
  OBVIOUS
<1>10. /\ b \in Backs /\ b.at = "back" /\ b.area = s /\ b.from = a /\ b.count = n
       /\ b.exit = FALSE
  BY <1>8, <1>9 DEF Back, Backs
<1>11. call' = [call EXCEPT ![p] = b] /\ call'[p] = b
  BY <1>3, <1>7, <1>9 DEF MmapType
<1>12. MmapType'
  BY <1>3, <1>10, <1>11 DEF MmapType, UnmapHead
<1>13. InBack(p)' /\ call'[p].exit = FALSE /\ call'[p].area = s /\ call'[p].from = a
       /\ call'[p].count = n
  BY <1>10, <1>11 DEF InBack
<1>14. Root(p)' = Root(p) /\ call'[p] # Gone
  BY <1>4, <1>13 DEF Root, UnmapHead, Gone, InBack
<1>15. ListOf(p, c)'
  BY <1>3, <1>5, <1>6, <1>7, <1>13, <1>14, SameList DEF UnmapHead
<1>16. Apart(p, Members(L[p])) /\ ListOf(p, L[p])'
  BY <1>2, <1>3, <1>11, <1>15 DEF Apart, MmapType, UnmapHead
<1>17. (\E M : Lists(M))'
  BY <1>1, <1>16, SameAreas DEF UnmapHead
<1>18. FreeOK' /\ RefsOK'
  BY DEF FreeOK, RefsOK, Used, MmapInv, UnmapHead
<1> QED BY <1>12, <1>17, <1>18 DEF MmapInv

LEMMA WritePageStep ==
    ASSUME MmapInv, NEW p \in Users, WritePage(p)
    PROVE  MmapInv'
<1>1. PICK L : Lists(L)
  BY DEF MmapInv
<1>2. PICK c : c = L[p]
  OBVIOUS
<1>3. ListOf(p, c) /\ MmapType /\ InBack(p)
  BY <1>1, <1>2 DEF Lists, MmapInv, WritePage
<1>4. call[p] \in Backs
  BY <1>3 DEF MmapType, InBack, UserMode, Gone, Closing
<1>5. PICK b \in Backs : b = call[p]
  BY <1>4
<1>6. call' = [call EXCEPT ![p] = [b EXCEPT !.done = @ + 1]]
  BY <1>5 DEF WritePage, Goto
<1>7. PICK d : d = [b EXCEPT !.done = @ + 1]
  OBVIOUS
<1>8. /\ d \in Backs /\ d.at = "back" /\ d.area = b.area /\ d.from = b.from
      /\ d.count = b.count
  BY <1>7 DEF Backs
<1>9. d.exit = b.exit
  BY <1>7 DEF Backs
<1>10. call' = [call EXCEPT ![p] = d] /\ call'[p] = d
  BY <1>3, <1>6, <1>7 DEF MmapType
<1>11. MmapType'
  BY <1>3, <1>8, <1>10 DEF MmapType, WritePage
<1>12. InBack(p)' /\ call'[p] # Gone
  BY <1>8, <1>10 DEF InBack, Gone
<1>13. Root(p)' = Root(p)
  <2>1. areas' = areas /\ call'[p].at = call[p].at /\ call'[p].area = call[p].area
    BY <1>3, <1>5, <1>8, <1>10 DEF WritePage, InBack
  <2>2. call'[p].exit = call[p].exit
    BY <1>5, <1>9, <1>10
  <2> QED BY <2>1, <2>2 DEF Root, InBack
<1>14. /\ c # <<>> /\ call'[p].from = vma[call'[p].area].start
       /\ call'[p].count = vma[call'[p].area].length
  BY <1>3, <1>5, <1>8, <1>10 DEF ListOf
<1>15. ~ call'[p].exit => call'[p].area = c[Len(c)]
  <2>1. ~ call[p].exit => call[p].area = c[Len(c)]
    BY <1>3 DEF ListOf
  <2> QED BY <2>1, <1>5, <1>8, <1>9, <1>10
<1>16. ListOf(p, c)'
  BY <1>3, <1>12, <1>13, <1>14, <1>15, SameList DEF WritePage
<1>17. Apart(p, Members(L[p])) /\ ListOf(p, L[p])'
  BY <1>2, <1>3, <1>10, <1>16 DEF Apart, MmapType, WritePage
<1>18. (\E M : Lists(M))'
  BY <1>1, <1>17, SameAreas DEF WritePage
<1>19. FreeOK' /\ RefsOK'
  BY DEF FreeOK, RefsOK, Used, MmapInv, WritePage
<1> QED BY <1>11, <1>18, <1>19 DEF MmapInv

\* exit at an area of the list, or past its end.
LEMMA ExitAtType ==
    ASSUME MmapType, NEW p \in Users, NEW s \in Areas \cup {0}, ExitAt(p, s)
    PROVE  /\ call' \in [Users -> {UserMode, Gone, Closing} \cup Backs]
           /\ \A q \in Users \ {p} : call'[q] = call[q]
           /\ call'[p] # Gone
           /\ s = 0 => call'[p].at = "close" /\ ~ InBack(p)' /\ Root(p)' = 0
           /\ s # 0 => /\ InBack(p)' /\ call'[p].exit = TRUE /\ call'[p].area = s /\ Root(p)' = s
                       /\ call'[p].from = vma[s].start /\ call'[p].count = vma[s].length
<1>1. CASE s = 0
  <2>1. call' = [call EXCEPT ![p] = Closing]
    BY <1>1 DEF ExitAt, Goto, Closing
  <2>2. call'[p].at = "close"
    BY <2>1 DEF MmapType, Closing
  <2>3. ~ InBack(p)' /\ call'[p] # Gone
    BY <2>2 DEF InBack, Gone
  <2>4. Root(p)' = 0
    BY <2>2, <2>3 DEF Root
  <2> QED BY <1>1, <2>1, <2>2, <2>3, <2>4 DEF MmapType
<1>2. CASE s # 0
  <2>1. s \in Areas /\ vma[s] \in AreaSet /\ vma[s].start \in Nat /\ vma[s].length \in Nat
    BY <1>2 DEF MmapType, AreaSet
  <2>2. PICK b : b = Back(s, vma[s].start, vma[s].length, TRUE)
    OBVIOUS
  <2>3. /\ b \in Backs /\ b.at = "back" /\ b.area = s /\ b.from = vma[s].start
        /\ b.count = vma[s].length /\ b.exit = TRUE
    BY <2>1, <2>2 DEF Back, Backs
  <2>4. call' = [call EXCEPT ![p] = b] /\ call'[p] = b
    BY <1>2, <2>2 DEF ExitAt, Goto, MmapType
  <2>5. InBack(p)' /\ call'[p] # Gone
    BY <2>3, <2>4 DEF InBack, Gone
  <2>6. call'[p].exit = TRUE
    BY <2>3, <2>4
  <2>7. Root(p)' = s
    <3>1. call'[p].at \notin {"gone", "close"} /\ call'[p].area = s
      BY <2>3, <2>4
    <3> QED BY <2>5, <2>6, <3>1 DEF Root
  <2>8. call' \in [Users -> {UserMode, Gone, Closing} \cup Backs]
    BY <2>3, <2>4 DEF MmapType
  <2>9. \A q \in Users \ {p} : call'[q] = call[q]
    BY <2>4 DEF MmapType
  <2> QED BY <1>2, <2>3, <2>4, <2>5, <2>6, <2>7, <2>8, <2>9
<1> QED BY <1>1, <1>2

LEMMA ExitBeginStep ==
    ASSUME MmapInv, NEW p \in Users, ExitBegin(p)
    PROVE  MmapInv'
<1>1. PICK L : Lists(L)
  BY DEF MmapInv
<1>2. PICK c : c = L[p]
  OBVIOUS
<1>3. ListOf(p, c) /\ MmapType /\ InUserMode(p) /\ ExitAt(p, areas[p])
  BY <1>1, <1>2 DEF Lists, MmapInv, ExitBegin
<1>4. PICK s \in Areas \cup {0} : s = areas[p]
  BY <1>3 DEF MmapType
<1>5. ExitAt(p, s)
  BY <1>3, <1>4
<1>6. Root(p) = s
  BY <1>3, <1>4, RootOfList
<1>7. MmapType'
  BY <1>3, <1>5, ExitAtType DEF MmapType, ExitBegin
<1>8. Root(p)' = Root(p) /\ call'[p] # Gone
  BY <1>3, <1>5, <1>6, ExitAtType
<1>9. InBack(p)' => /\ c # <<>> /\ call'[p].from = vma[call'[p].area].start
                    /\ call'[p].count = vma[call'[p].area].length
  <2>1. c = <<>> => s = 0
    BY <1>3, <1>6 DEF ListOf, Linking
  <2> QED BY <2>1, <1>3, <1>5, ExitAtType
<1>10. InBack(p)' => (~ call'[p].exit => call'[p].area = c[Len(c)])
  BY <1>3, <1>5, ExitAtType, Zenon
<1>11. ListOf(p, c)'
  BY <1>3, <1>8, <1>9, <1>10, SameList DEF ExitBegin
<1>12. Apart(p, Members(L[p])) /\ ListOf(p, L[p])'
  BY <1>2, <1>3, <1>5, <1>11, ExitAtType DEF Apart, ExitBegin
<1>13. (\E M : Lists(M))'
  BY <1>1, <1>12, SameAreas DEF ExitBegin
<1>14. FreeOK' /\ RefsOK'
  BY DEF FreeOK, RefsOK, Used, MmapInv, ExitBegin
<1> QED BY <1>7, <1>13, <1>14 DEF MmapInv

LEMMA ExitCloseStep ==
    ASSUME MmapInv, NEW p \in Users, ExitClose(p)
    PROVE  MmapInv'
<1> USE DEF ExitClose
<1>1. PICK L : Lists(L)
  BY DEF MmapInv
<1>2. ListOf(p, L[p]) /\ MmapType
  BY <1>1 DEF Lists, MmapInv
<1>3. Root(p) = 0
  BY DEF Root, InBack
<1>4. L[p] = <<>> /\ Members(L[p]) = {}
  BY <1>2, <1>3, EmptyList
<1>5. MmapType'
  BY <1>2 DEF MmapType, Goto
<1>6. call'[p] = Gone /\ frames'[p] = {} /\ areas'[p] = 0
  BY <1>2 DEF MmapType, Goto
<1>7. ListOf(p, <<>>)'
  <2>1. Root(p)' = 0 /\ ~ InBack(p)'
    BY <1>6 DEF Root, Gone, InBack
  <2>2. Linking(<<>>, Root(p))'
    BY <2>1 DEF Linking
  <2> QED BY <1>6, <2>1, <2>2 DEF ListOf
<1>8. Apart(p, Members(L[p])) /\ ListOf(p, L[p])'
  BY <1>2, <1>4, <1>7 DEF Apart, MmapType, Goto
<1>9. (\E M : Lists(M))'
  BY <1>1, <1>8, SameAreas
<1>10. FreeOK' /\ Used' = Used
  BY DEF FreeOK, Used, MmapInv
<1>11. IsFiniteSet(fd') /\ Cardinality(fd') = Cardinality(fd) - Cardinality(fd \cap {p})
       /\ Cardinality(fd) \in Nat /\ Cardinality(fd \cap {p}) \in Nat
  <2>1. IsFiniteSet(fd)
    BY DEF MmapInv, RefsOK
  <2> QED BY <2>1, DescriptorClosed
<1>12. RefsOK'
  BY <1>10, <1>11, UsedFinite DEF RefsOK, MmapInv
<1> QED BY <1>5, <1>9, <1>10, <1>12 DEF MmapInv

\* vma_alloc gives areas that are free, each once.
LEMMA AllocatedFree ==
    ASSUME NEW n \in Nat, NEW f \in [1 .. n -> Areas], Allocated(f)
    PROVE  /\ \A k \in 1 .. n : vma[f[k]].length = 0
           /\ \A j, k \in 1 .. n : f[j] = f[k] => j = k
<1>1. \A k \in 1 .. n : vma[f[k]].length = 0 /\ \A j \in 1 .. k - 1 : f[j] # f[k]
  BY DEF Allocated
<1>2. ASSUME NEW j \in 1 .. n, NEW k \in 1 .. n, f[j] = f[k] PROVE j = k
  <2>1. CASE j < k
    <3>1. j \in 1 .. k - 1
      BY <2>1
    <3> QED BY <3>1, <1>1, <1>2
  <2>2. CASE k < j
    <3>1. k \in 1 .. j - 1
      BY <2>2
    <3> QED BY <3>1, <1>1, <1>2
  <2> QED BY <2>1, <2>2
<1> QED BY <1>1, <1>2

LEMMA Appended ==
    ASSUME NEW S, NEW c \in Seq(S), NEW s \in S, NEW d, d = Append(c, s)
    PROVE  /\ d \in Seq(S) /\ Len(d) = Len(c) + 1 /\ Len(c) \in Nat
           /\ \A i \in 1 .. Len(c) : d[i] = c[i]
           /\ d[Len(c) + 1] = s
           /\ d # <<>>
OBVIOUS

LEMMA MapFileStep ==
    ASSUME MmapInv, NEW p \in Users, NEW n \in Sizes, NEW kind \in Kinds, MapFile(p, n, kind)
    PROVE  MmapInv'
<1>1. PICK L : Lists(L)
  BY DEF MmapInv
<1>2. PICK c : c = L[p]
  OBVIOUS
<1>3. ListOf(p, c) /\ MmapType /\ InUserMode(p)
  BY <1>1, <1>2 DEF Lists, MmapInv, MapFile
<1>4. Chain(p) = c /\ Root(p) = areas[p]
  BY <1>3, RootOfList
<1>5. c \in Seq(Areas) /\ Len(c) \in Nat
  BY <1>3 DEF ListOf, Linking
<1> DEFINE start(s) == IF c = <<>> THEN VmaStart ELSE vma[c[Len(c)]].end
           next(s) == IF c = <<>> THEN vma[s].next ELSE 0
           new(s) == [length |-> n, start |-> start(s), end |-> start(s) + n, off |-> 0,
                      shared |-> kind.shared, write |-> kind.write, next |-> next(s)]
<1>6. PICK s \in Areas :
        /\ Allocated(<<s>>)
        /\ vma' = IF c = <<>> THEN [vma EXCEPT ![s] = new(s)]
                  ELSE [vma EXCEPT ![c[Len(c)]].next = s, ![s] = new(s)]
        /\ areas' = IF c = <<>> THEN [areas EXCEPT ![p] = s] ELSE areas
  BY <1>4 DEF MapFile, Last
<1>7. vma[s].length = 0 /\ vma[s].next = 0
  <2>0. PICK f : f = <<s>>
    OBVIOUS
  <2>1. f \in [1 .. 1 -> Areas] /\ f[1] = s /\ 1 \in Nat /\ 1 \in 1 .. 1
    <3>1. f \in Seq(Areas) /\ Len(f) = 1 /\ f[1] = s
      BY <2>0
    <3>2. f \in [1 .. Len(f) -> Areas]
      BY <3>1
    <3> QED BY <3>1, <3>2
  <2>2. Allocated(f)
    BY <1>6, <2>0
  <2>3. vma[f[1]].length = 0
    BY <2>1, <2>2, AllocatedFree
  <2> QED BY <2>3, <2>1, <2>2 DEF MmapInv, FreeOK
<1>8. PICK z : z = start(s)
  OBVIOUS
<1>9. z \in Nat /\ n \in Nat /\ n # 0
  <2>1. c # <<>> => c[Len(c)] \in Areas
    BY <1>5
  <2> QED BY <1>3, <1>8, <2>1, MmapAssumption DEF MmapType, AreaSet
<1>10. PICK r : r = [length |-> n, start |-> z, end |-> z + n, off |-> 0,
                     shared |-> kind.shared, write |-> kind.write, next |-> 0]
  OBVIOUS
<1>11. new(s) = r
  BY <1>7, <1>8, <1>10
<1>12. r \in AreaSet /\ r.length = n /\ r.start = z /\ r.end = z + n /\ r.next = 0
  <2>1. kind.shared \in BOOLEAN /\ kind.write \in BOOLEAN
    BY MmapAssumption
  <2> QED BY <1>9, <1>10, <2>1 DEF AreaSet
<1>13. \A i \in 1 .. Len(c) : c[i] \in Areas /\ c[i] # s
  BY <1>3, <1>5, <1>7 DEF ListOf
<1> HIDE DEF new
<1>14. vma' \in [Areas -> AreaSet] /\ vma'[s] = r
  <2>1. CASE c = <<>>
    BY <1>3, <1>6, <1>11, <1>12, <2>1 DEF MmapType
  <2>2. CASE c # <<>>
    <3>1. PICK t \in Areas : t = c[Len(c)] /\ t # s
      BY <1>5, <1>13, <2>2
    <3>2. PICK u : u = [vma[t] EXCEPT !.next = s]
      OBVIOUS
    <3>3. u \in AreaSet
      BY <1>3, <3>2 DEF MmapType, AreaSet
    <3>4. vma' = [vma EXCEPT ![t] = u, ![s] = r]
      BY <1>6, <1>11, <2>2, <3>1, <3>2
    <3> QED BY <1>3, <1>12, <3>3, <3>4 DEF MmapType
  <2> QED BY <2>1, <2>2
<1>15. \A t \in Areas : t # s /\ (c = <<>> \/ t # c[Len(c)]) => vma'[t] = vma[t]
  <2>1. CASE c = <<>>
    BY <1>3, <1>6, <2>1 DEF MmapType
  <2>2. CASE c # <<>>
    BY <1>3, <1>6, <2>2 DEF MmapType
  <2> QED BY <2>1, <2>2
<1>16. c # <<>> => /\ vma'[c[Len(c)]].next = s
                   /\ vma'[c[Len(c)]].length = vma[c[Len(c)]].length
                   /\ vma'[c[Len(c)]].start = vma[c[Len(c)]].start
                   /\ vma'[c[Len(c)]].end = vma[c[Len(c)]].end
  <2> SUFFICES ASSUME c # <<>> PROVE /\ vma'[c[Len(c)]].next = s
                   /\ vma'[c[Len(c)]].length = vma[c[Len(c)]].length
                   /\ vma'[c[Len(c)]].start = vma[c[Len(c)]].start
                   /\ vma'[c[Len(c)]].end = vma[c[Len(c)]].end
    OBVIOUS
  <2>1. PICK t \in Areas : t = c[Len(c)] /\ t # s
    BY <1>5, <1>13
  <2>2. vma'[t] = [vma[t] EXCEPT !.next = s]
    BY <1>3, <1>6, <2>1 DEF MmapType
  <2>3. vma[t] \in AreaSet
    BY <1>3 DEF MmapType
  <2> QED BY <2>1, <2>2, <2>3 DEF AreaSet
<1>17. \A t \in Areas \ {s} : /\ vma'[t].length = vma[t].length
                              /\ vma'[t].start = vma[t].start /\ vma'[t].end = vma[t].end
  BY <1>15, <1>16
<1>18. PICK d : d = Append(c, s)
  OBVIOUS
<1>19. /\ d \in Seq(Areas) /\ Len(d) = Len(c) + 1 /\ d # <<>>
       /\ \A i \in 1 .. Len(c) : d[i] = c[i]
       /\ d[Len(c) + 1] = s
  BY <1>5, <1>18, Appended
<1>20. /\ call' = call /\ frames' = frames /\ fd' = fd
       /\ refs' = refs + 1
  BY DEF MapFile
<1>21. ~ InBack(p)' /\ call'[p] # Gone /\ Root(p)' = areas'[p]
  <2>1. call'[p].at = "user" /\ call'[p] # Gone
    BY <1>3, <1>20 DEF InUserMode, UserMode, Gone
  <2> QED BY <2>1 DEF InBack, Root
<1>22. Linking(d, Root(p))'
  <2>1. d[1] = areas'[p]
    <3>1. CASE c = <<>>
      <4>1. d[1] = s /\ areas'[p] = s
        BY <1>3, <1>6, <1>19, <3>1 DEF MmapType
      <4> QED BY <4>1
    <3>2. CASE c # <<>>
      <4>1. d[1] = c[1] /\ areas'[p] = areas[p]
        BY <1>5, <1>6, <1>19, <3>2
      <4> QED BY <1>3, <1>4, <3>2, <4>1 DEF ListOf, Linking
    <3> QED BY <3>1, <3>2
  <2>2. vma'[d[Len(d)]].next = 0
    BY <1>12, <1>14, <1>19
  <2>3. ASSUME NEW i \in 1 .. Len(d) - 1 PROVE vma'[d[i]].next = d[i + 1]
    <3>1. i \in 1 .. Len(c) /\ d[i] = c[i]
      BY <1>5, <1>19
    <3>2. CASE i = Len(c)
      <4>1. c # <<>>
        BY <1>5, <3>1
      <4> QED BY <4>1, <3>1, <3>2, <1>16, <1>19
    <3>3. CASE i # Len(c)
      <4>1. i \in 1 .. Len(c) - 1 /\ i + 1 \in 1 .. Len(c) /\ Len(c) \in 1 .. Len(c)
        BY <1>5, <3>1, <3>3
      <4>2. c[i] # c[Len(c)] /\ vma[c[i]].next = c[i + 1] /\ d[i + 1] = c[i + 1]
        BY <1>3, <1>19, <3>1, <3>3, <4>1 DEF ListOf, Linking
      <4> QED BY <1>13, <1>15, <3>1, <4>2
    <3> QED BY <3>2, <3>3
  <2>4. ASSUME NEW i \in 1 .. Len(d), NEW j \in 1 .. Len(d), d[i] = d[j] PROVE i = j
    <3>1. CASE i \in 1 .. Len(c) /\ j \in 1 .. Len(c)
      BY <1>3, <1>19, <2>4, <3>1 DEF ListOf, Linking
    <3>2. CASE i = Len(c) + 1 /\ j \in 1 .. Len(c)
      BY <1>13, <1>19, <2>4, <3>2
    <3>3. CASE j = Len(c) + 1 /\ i \in 1 .. Len(c)
      BY <1>13, <1>19, <2>4, <3>3
    <3> QED BY <1>5, <1>19, <3>1, <3>2, <3>3
  <2> QED BY <1>19, <1>21, <2>1, <2>2, <2>3, <2>4 DEF Linking
<1>23. ListOf(p, d)'
  <2>1. ASSUME NEW i \in 1 .. Len(d)
        PROVE  vma'[d[i]].length # 0 /\ vma'[d[i]].end = vma'[d[i]].start + vma'[d[i]].length
    <3>1. CASE i \in 1 .. Len(c)
      <4>1. d[i] = c[i] /\ c[i] \in Areas \ {s}
        BY <1>13, <1>19, <3>1
      <4>2. vma[c[i]].length # 0 /\ vma[c[i]].end = vma[c[i]].start + vma[c[i]].length
        BY <1>3, <3>1 DEF ListOf
      <4> QED BY <1>17, <4>1, <4>2
    <3>2. CASE i = Len(c) + 1
      BY <1>9, <1>12, <1>14, <1>19, <3>2
    <3> QED BY <1>5, <1>19, <3>1, <3>2
  <2>2. ASSUME NEW i \in 1 .. Len(d) - 1 PROVE vma'[d[i]].end <= vma'[d[i + 1]].start
    <3>1. i \in 1 .. Len(c) /\ d[i] = c[i] /\ c[i] \in Areas \ {s}
      BY <1>5, <1>13, <1>19
    <3>2. CASE i = Len(c)
      <4>1. c # <<>> /\ d[i + 1] = s
        BY <1>5, <1>19, <3>1, <3>2
      <4>2. vma'[d[i]].end = z /\ vma'[d[i + 1]].start = z
        BY <1>8, <1>12, <1>14, <1>16, <3>1, <3>2, <4>1
      <4> QED BY <1>9, <4>2
    <3>3. CASE i # Len(c)
      <4>1. i \in 1 .. Len(c) - 1 /\ i + 1 \in 1 .. Len(c)
        BY <1>5, <3>1, <3>3
      <4>2. d[i + 1] = c[i + 1] /\ c[i + 1] \in Areas \ {s}
        BY <1>13, <1>19, <4>1
      <4>3. vma[c[i]].end <= vma[c[i + 1]].start
        BY <1>3, <4>1 DEF ListOf
      <4> QED BY <1>17, <3>1, <4>2, <4>3
    <3> QED BY <3>2, <3>3
  <2>3. ASSUME NEW a \in frames'[p] PROVE \E i \in 1 .. Len(d) : Holds(d[i], a)'
    <3>1. PICK i \in 1 .. Len(c) : Holds(c[i], a)
      BY <1>3, <1>20 DEF ListOf
    <3>2. d[i] = c[i] /\ c[i] \in Areas \ {s} /\ i \in 1 .. Len(d)
      BY <1>5, <1>13, <1>19
    <3>3. Holds(d[i], a)'
      BY <1>17, <3>1, <3>2 DEF Holds
    <3> QED BY <3>2, <3>3
  <2> QED BY <1>21, <1>22, <2>1, <2>2, <2>3 DEF ListOf
<1>24. Members(d) = Members(c) \cup {s}
  <2>1. 1 .. Len(d) = (1 .. Len(c)) \cup {Len(c) + 1}
    BY <1>5, <1>19
  <2> QED BY <1>19, <2>1 DEF Members
<1>25. Used' = Used \cup {s} /\ s \notin Used
  BY <1>7, <1>9, <1>12, <1>14, <1>17 DEF Used
<1>26. Members(c) \subseteq Used
  BY <1>3, <1>13 DEF Members, ListOf, Used
<1>27. Apart(p, Members(L[p]))
  <2>1. \A t \in Used \ Members(c) : vma'[t] = vma[t]
    <3> TAKE t \in Used \ Members(c)
    <3>1. t \in Areas /\ t # s
      BY <1>7 DEF Used
    <3>2. c # <<>> => t # c[Len(c)]
      <4>1. c # <<>> => Len(c) \in 1 .. Len(c)
        BY <1>5
      <4> QED BY <4>1 DEF Members
    <3> QED BY <1>15, <3>1, <3>2
  <2> QED BY <1>2, <1>3, <1>6, <1>20, <2>1 DEF Apart, MmapType
<1>28. (\E M : Lists(M))'
  BY <1>1, <1>2, <1>3, <1>23, <1>24, <1>25, <1>26, <1>27, OneListChanges
<1>29. MmapType'
  BY <1>3, <1>6, <1>14, <1>20 DEF MmapType
<1>30. FreeOK'
  <2> SUFFICES ASSUME NEW t \in Areas, vma'[t].length = 0 PROVE vma'[t].next = 0
    BY DEF FreeOK
  <2>1. t # s
    BY <1>9, <1>12, <1>14
  <2>2. vma[t].length = 0 /\ vma[t].next = 0
    BY <1>17, <2>1 DEF MmapInv, FreeOK
  <2>3. c = <<>> \/ t # c[Len(c)]
    BY <1>3, <1>5, <2>2 DEF ListOf
  <2> QED BY <1>15, <2>1, <2>2, <2>3
<1>31. RefsOK'
  <2>1. Cardinality(Used') = Cardinality(Used) + 1
    BY <1>25, UsedFinite, FS_AddElement
  <2>2. Cardinality(fd) \in Nat
    BY FS_CardinalityType DEF MmapInv, RefsOK
  <2> QED BY <1>20, <2>1, <2>2, UsedFinite DEF RefsOK, MmapInv
<1> QED BY <1>28, <1>29, <1>30, <1>31 DEF MmapInv

LEMMA FrontOf ==
    ASSUME NEW S, NEW c \in Seq(S), c # <<>>
    PROVE  \E d \in Seq(S) : /\ Len(d) = Len(c) - 1
                             /\ \A i \in 1 .. Len(c) - 1 : d[i] = c[i]
<1> DEFINE d == [i \in 1 .. Len(c) - 1 |-> c[i]]
<1>1. Len(c) \in Nat /\ Len(c) - 1 \in Nat
  OBVIOUS
<1>2. \A i \in 1 .. Len(c) - 1 : c[i] \in S
  BY <1>1
<1>3. d \in Seq(S) /\ Len(d) = Len(c) - 1
  BY <1>1, <1>2
<1> QED BY <1>3

LEMMA TailOf ==
    ASSUME NEW S, NEW c \in Seq(S), c # <<>>
    PROVE  \E d \in Seq(S) : /\ Len(d) = Len(c) - 1
                             /\ \A i \in 1 .. Len(c) - 1 : d[i] = c[i + 1]
<1> DEFINE d == [i \in 1 .. Len(c) - 1 |-> c[i + 1]]
<1>1. Len(c) \in Nat /\ Len(c) - 1 \in Nat
  OBVIOUS
<1>2. \A i \in 1 .. Len(c) - 1 : c[i + 1] \in S
  BY <1>1
<1>3. d \in Seq(S) /\ Len(d) = Len(c) - 1
  BY <1>1, <1>2
<1> QED BY <1>3

LEMMA FreedArea ==
    /\ Freed(0) \in AreaSet /\ Freed(0).length = 0 /\ Freed(0).next = 0
BY DEF Freed, NotUsed, AreaSet

\* The pages of an area are what a write-back of all of it clears.
LEMMA PagesCleared ==
    ASSUME MmapType, NEW p \in Users, NEW s \in Areas, NEW from, NEW count, NEW a,
           from = vma[s].start, count = vma[s].length,
           vma[s].end = vma[s].start + vma[s].length,
           frames' = Cleared(p, from, count), a \in frames'[p]
    PROVE  a \in frames[p] /\ ~ Holds(s, a)
<1>1. vma[s].start \in Nat /\ vma[s].length \in Nat
  BY DEF MmapType, AreaSet
<1>2. a \in frames[p] /\ a \notin from .. from + count - 1 /\ frames[p] \subseteq Nat
  BY DEF MmapType, Cleared
<1> QED BY <1>1, <1>2 DEF Holds

LEMMA UnmapAllStep ==
    ASSUME MmapInv, NEW p \in Users, UnmapAll(p)
    PROVE  MmapInv'
<1>1. PICK L : Lists(L)
  BY DEF MmapInv
<1>2. PICK c : c = L[p]
  OBVIOUS
<1>3. ListOf(p, c) /\ MmapType /\ InBack(p) /\ ~ call[p].exit
  BY <1>1, <1>2 DEF Lists, MmapInv, UnmapAll
<1>4. Chain(p) = c /\ Root(p) = areas[p]
  BY <1>3, RootOfList
<1>5. c \in Seq(Areas) /\ Len(c) \in Nat /\ c # <<>> /\ call[p].area = c[Len(c)]
      /\ call[p].from = vma[call[p].area].start /\ call[p].count = vma[call[p].area].length
  BY <1>3 DEF ListOf, Linking
<1>6. PICK s \in Areas : s = c[Len(c)]
  BY <1>5
<1>7. PICK n \in Nat : n + 1 = Len(c)
  <2>1. Len(c) - 1 \in Nat
    BY <1>5
  <2> QED BY <1>5, <2>1
<1>8. vma[s].next = 0 /\ s # 0
  BY <1>3, <1>5, <1>6, MmapAssumption DEF ListOf, Linking, Areas
<1>9. \A i \in 1 .. n : c[i] \in Areas /\ c[i] # s
  <2> TAKE i \in 1 .. n
  <2>1. i \in 1 .. Len(c) /\ Len(c) \in 1 .. Len(c) /\ i # Len(c)
    BY <1>7
  <2> QED BY <2>1, <1>3, <1>5, <1>6 DEF ListOf, Linking
<1>10. \A i \in 1 .. n : vma[c[i]].next = c[i + 1]
  BY <1>3, <1>7 DEF ListOf, Linking
<1>11. /\ vma' \in [Areas -> AreaSet] /\ vma'[s] = Freed(0)
       /\ \A t \in Areas : t # s /\ (n = 0 \/ t # c[n]) => vma'[t] = vma[t]
       /\ n # 0 => /\ vma'[c[n]].next = 0 /\ vma'[c[n]].length = vma[c[n]].length
                   /\ vma'[c[n]].start = vma[c[n]].start /\ vma'[c[n]].end = vma[c[n]].end
       /\ areas' = [areas EXCEPT ![p] = IF n = 0 THEN 0 ELSE @]
  <2>1. Unlinked(p, s)
    BY <1>5, <1>6 DEF UnmapAll
  <2>2. areas[p] = c[1]
    BY <1>3, <1>4, <1>5 DEF ListOf, Linking
  <2>3. CASE n = 0
    <3>1. areas[p] = s
      <4>1. Len(c) = 1
        BY <1>7, <2>3
      <4> QED BY <1>6, <2>2, <4>1
    <3>2. areas' = [areas EXCEPT ![p] = 0] /\ vma' = [vma EXCEPT ![s] = Freed(0)]
      BY <1>8, <2>1, <3>1 DEF Unlinked
    <3> QED BY <1>3, <2>3, <3>2, FreedArea DEF MmapType
  <2>4. CASE n # 0
    <3>1. 1 \in 1 .. n /\ n \in 1 .. n
      BY <2>4
    <3>2. areas[p] # s
      BY <1>9, <2>2, <3>1
    <3>3. areas' = areas
      BY <2>1, <3>2 DEF Unlinked
    <3>4. PICK t \in Range(c) : /\ vma[t].next = s
                                /\ vma' = [vma EXCEPT ![t].next = vma[s].next, ![s] = Freed(0)]
      BY <1>4, <2>1, <3>2 DEF Unlinked
    <3>5. PICK i \in 1 .. Len(c) : t = c[i]
      BY <1>5 DEF Range
    <3>6. i # Len(c)
      BY <1>6, <1>8, <3>4, <3>5
    <3>7. i \in 1 .. n /\ i + 1 \in 1 .. Len(c) /\ Len(c) \in 1 .. Len(c)
      BY <1>7, <3>6
    <3>8. c[i + 1] = c[Len(c)]
      BY <1>6, <1>10, <3>4, <3>5, <3>7
    <3>9. i = n
      <4>1. i + 1 = Len(c)
        BY <1>3, <3>7, <3>8 DEF ListOf, Linking
      <4> QED BY <4>1, <1>7, <3>7
    <3>10. t = c[n] /\ t \in Areas /\ t # s
      BY <1>9, <3>1, <3>5, <3>9
    <3>11. PICK u : u = [vma[t] EXCEPT !.next = 0]
      OBVIOUS
    <3>12. /\ u \in AreaSet /\ u.next = 0 /\ u.length = vma[t].length
           /\ u.start = vma[t].start /\ u.end = vma[t].end
      BY <1>3, <3>10, <3>11 DEF MmapType, AreaSet
    <3>13. vma' = [vma EXCEPT ![t] = u, ![s] = Freed(0)]
      BY <1>8, <3>4, <3>11
    <3>14. vma' \in [Areas -> AreaSet] /\ vma'[s] = Freed(0) /\ vma'[t] = u
           /\ \A v \in Areas : v # s /\ v # t => vma'[v] = vma[v]
      BY <1>3, <3>10, <3>12, <3>13, FreedArea DEF MmapType
    <3>15. areas' = [areas EXCEPT ![p] = IF n = 0 THEN 0 ELSE @]
      BY <1>3, <2>4, <3>3 DEF MmapType
    <3> QED BY <2>4, <3>10, <3>12, <3>14, <3>15
  <2> QED BY <2>3, <2>4
<1>12. \A t \in Areas \ {s} : /\ vma'[t].length = vma[t].length
                              /\ vma'[t].start = vma[t].start /\ vma'[t].end = vma[t].end
  BY <1>11
<1>13. PICK d \in Seq(Areas) : Len(d) = n /\ \A i \in 1 .. n : d[i] = c[i]
  <2>1. Len(c) - 1 = n
    BY <1>7
  <2> QED BY <1>5, <2>1, FrontOf
<1>14. /\ call' = [call EXCEPT ![p] = UserMode] /\ frames' = Cleared(p, call[p].from, call[p].count)
       /\ fd' = fd /\ refs' = refs - 1
  BY DEF UnmapAll, Goto
<1>15. ~ InBack(p)' /\ call'[p] # Gone /\ Root(p)' = areas'[p]
  <2>1. call'[p] = UserMode
    BY <1>3, <1>14 DEF MmapType
  <2> QED BY <2>1 DEF InBack, Root, UserMode, Gone
<1>16. areas'[p] = IF n = 0 THEN 0 ELSE c[1]
  <2>1. areas[p] = c[1]
    BY <1>3, <1>4, <1>5 DEF ListOf, Linking
  <2> QED BY <2>1, <1>3, <1>11 DEF MmapType
<1>17. Linking(d, Root(p))'
  <2>1. d = <<>> => Root(p)' = 0
    BY <1>13, <1>15, <1>16
  <2>2. d # <<>> => d[1] = Root(p)' /\ vma'[d[Len(d)]].next = 0
    <3> SUFFICES ASSUME d # <<>> PROVE d[1] = Root(p)' /\ vma'[d[Len(d)]].next = 0
      OBVIOUS
    <3>1. n # 0 /\ 1 \in 1 .. n /\ n \in 1 .. n
      BY <1>13
    <3> QED BY <1>11, <1>13, <1>15, <1>16, <3>1
  <2>3. ASSUME NEW i \in 1 .. Len(d) - 1 PROVE vma'[d[i]].next = d[i + 1]
    <3>1. i \in 1 .. n /\ i + 1 \in 1 .. n /\ n \in 1 .. n /\ i # n
      BY <1>13
    <3>2. d[i] = c[i] /\ d[i + 1] = c[i + 1] /\ vma[c[i]].next = c[i + 1]
      BY <1>10, <1>13, <3>1
    <3>3. c[i] # c[n]
      BY <1>3, <1>7, <3>1 DEF ListOf, Linking
    <3> QED BY <1>9, <1>11, <3>1, <3>2, <3>3
  <2>4. ASSUME NEW i \in 1 .. Len(d), NEW j \in 1 .. Len(d), d[i] = d[j] PROVE i = j
    <3>1. i \in 1 .. Len(c) /\ j \in 1 .. Len(c) /\ c[i] = c[j]
      BY <1>7, <1>13, <2>4
    <3> QED BY <3>1, <1>3 DEF ListOf, Linking
  <2> QED BY <1>13, <2>1, <2>2, <2>3, <2>4 DEF Linking
<1>18. ListOf(p, d)'
  <2>1. ASSUME NEW i \in 1 .. Len(d)
        PROVE  vma'[d[i]].length # 0 /\ vma'[d[i]].end = vma'[d[i]].start + vma'[d[i]].length
    <3>1. i \in 1 .. n /\ d[i] = c[i] /\ i \in 1 .. Len(c)
      BY <1>7, <1>13
    <3>2. vma[c[i]].length # 0 /\ vma[c[i]].end = vma[c[i]].start + vma[c[i]].length
      BY <1>3, <3>1 DEF ListOf
    <3> QED BY <1>9, <1>12, <3>1, <3>2
  <2>2. ASSUME NEW i \in 1 .. Len(d) - 1 PROVE vma'[d[i]].end <= vma'[d[i + 1]].start
    <3>1. i \in 1 .. n /\ i + 1 \in 1 .. n /\ i \in 1 .. Len(c) - 1
      BY <1>7, <1>13
    <3>2. d[i] = c[i] /\ d[i + 1] = c[i + 1] /\ vma[c[i]].end <= vma[c[i + 1]].start
      BY <1>3, <1>13, <3>1 DEF ListOf
    <3> QED BY <1>9, <1>12, <3>1, <3>2
  <2>3. ASSUME NEW a \in frames'[p] PROVE \E i \in 1 .. Len(d) : Holds(d[i], a)'
    <3>1. a \in frames[p] /\ ~ Holds(s, a)
      <4>1. vma[s].end = vma[s].start + vma[s].length
        <5>1. Len(c) \in 1 .. Len(c)
          BY <1>7
        <5> QED BY <1>3, <1>6, <5>1 DEF ListOf
      <4> QED BY <1>3, <1>5, <1>6, <1>14, <4>1, PagesCleared
    <3>2. PICK i \in 1 .. Len(c) : Holds(c[i], a)
      BY <1>3, <3>1 DEF ListOf
    <3>3. i \in 1 .. n
      BY <1>6, <1>7, <3>1, <3>2
    <3>4. d[i] = c[i] /\ c[i] \in Areas \ {s}
      BY <1>9, <1>13, <3>3
    <3>5. Holds(d[i], a)'
      BY <1>12, <3>2, <3>4 DEF Holds
    <3> QED BY <1>13, <3>3, <3>5
  <2> QED BY <1>15, <1>17, <2>1, <2>2, <2>3 DEF ListOf
<1>19. Members(c) = Members(d) \cup {s} /\ s \notin Members(d)
  <2>1. 1 .. Len(c) = (1 .. n) \cup {Len(c)}
    BY <1>7
  <2>2. Members(d) = {c[i] : i \in 1 .. n}
    BY <1>13 DEF Members
  <2> QED BY <1>6, <1>9, <2>1, <2>2 DEF Members
<1>20. Used' = Used \ {s} /\ s \in Used
  <2>1. vma[s].length # 0
    <3>1. Len(c) \in 1 .. Len(c)
      BY <1>7
    <3> QED BY <1>3, <1>6, <3>1 DEF ListOf
  <2> QED BY <1>11, <1>12, <2>1, FreedArea DEF Used
<1>21. Members(c) \subseteq Used
  BY <1>1, <1>2 DEF Lists
<1>22. Apart(p, Members(L[p]))
  <2>1. \A t \in Used \ Members(c) : vma'[t] = vma[t]
    <3> TAKE t \in Used \ Members(c)
    <3>1. t \in Areas /\ t # s
      BY <1>19 DEF Used
    <3>2. n # 0 => t # c[n]
      <4>1. n # 0 => n \in 1 .. Len(c)
        BY <1>7
      <4> QED BY <4>1 DEF Members
    <3> QED BY <1>11, <3>1, <3>2
  <2>2. \A q \in Users \ {p} : call'[q] = call[q] /\ areas'[q] = areas[q] /\ frames'[q] = frames[q]
    BY <1>3, <1>11, <1>14 DEF MmapType, Cleared
  <2> QED BY <1>2, <1>14, <2>1, <2>2 DEF Apart
<1>23. (\E M : Lists(M))'
  <2>1. Used' = (Used \ Members(c)) \cup Members(d) /\ Members(d) \cap (Used \ Members(c)) = {}
    BY <1>19, <1>20, <1>21
  <2> QED BY <1>1, <1>2, <1>3, <1>18, <1>22, <2>1, OneListChanges
<1>24. MmapType'
  BY <1>3, <1>11, <1>14 DEF MmapType, Cleared
<1>25. FreeOK'
  <2> SUFFICES ASSUME NEW t \in Areas, vma'[t].length = 0 PROVE vma'[t].next = 0
    BY DEF FreeOK
  <2>1. CASE t = s
    BY <1>11, <2>1, FreedArea
  <2>2. CASE t # s
    <3>1. vma[t].length = 0 /\ vma[t].next = 0
      BY <1>12, <2>2 DEF MmapInv, FreeOK
    <3> QED BY <1>11, <2>2, <3>1
  <2> QED BY <2>1, <2>2
<1>26. RefsOK'
  <2>1. Cardinality(Used') = Cardinality(Used) - 1
    BY <1>20, UsedFinite, FS_RemoveElement
  <2>2. Cardinality(fd) \in Nat
    BY FS_CardinalityType DEF MmapInv, RefsOK
  <2> QED BY <1>14, <2>1, <2>2, UsedFinite DEF RefsOK, MmapInv
<1> QED BY <1>23, <1>24, <1>25, <1>26 DEF MmapInv

LEMMA ExitUnmapStep ==
    ASSUME MmapInv, NEW p \in Users, ExitUnmap(p)
    PROVE  MmapInv'
<1>1. PICK L : Lists(L)
  BY DEF MmapInv
<1>2. PICK c : c = L[p]
  OBVIOUS
<1>3. ListOf(p, c) /\ MmapType /\ InBack(p) /\ call[p].exit
  BY <1>1, <1>2 DEF Lists, MmapInv, ExitUnmap
<1>4. c \in Seq(Areas) /\ Len(c) \in Nat /\ c # <<>>
      /\ call[p].from = vma[call[p].area].start /\ call[p].count = vma[call[p].area].length
  BY <1>3 DEF ListOf, Linking
<1>5. call[p].area = c[1]
  BY <1>3, RootOfList
<1>6. PICK s \in Areas : s = c[1]
  BY <1>4
<1>7. PICK n \in Nat : n + 1 = Len(c)
  <2>1. Len(c) - 1 \in Nat
    BY <1>4
  <2> QED BY <1>4, <2>1
<1>8. PICK x \in Areas \cup {0} : x = vma[s].next
  BY <1>3 DEF MmapType, AreaSet
<1>9. \A i \in 1 .. n : c[i + 1] \in Areas /\ c[i + 1] # s
  <2> TAKE i \in 1 .. n
  <2>1. i + 1 \in 1 .. Len(c) /\ 1 \in 1 .. Len(c) /\ i + 1 # 1
    BY <1>7
  <2> QED BY <2>1, <1>3, <1>4, <1>6 DEF ListOf, Linking
<1>10. vma' \in [Areas -> AreaSet] /\ vma'[s] = Freed(0)
       /\ \A t \in Areas \ {s} : vma'[t] = vma[t]
  <2>1. vma' = [vma EXCEPT ![s] = Freed(0)]
    BY <1>5, <1>6 DEF ExitUnmap
  <2> QED BY <1>3, <2>1, FreedArea DEF MmapType
<1>11. /\ frames' = Cleared(p, call[p].from, call[p].count)
       /\ fd' = fd /\ refs' = refs - 1 /\ areas' = areas /\ ExitAt(p, x)
  BY <1>5, <1>6, <1>8 DEF ExitUnmap
<1>12. PICK d \in Seq(Areas) : Len(d) = n /\ \A i \in 1 .. n : d[i] = c[i + 1]
  <2>1. Len(c) - 1 = n
    BY <1>7
  <2> QED BY <1>4, <2>1, TailOf
<1>13. /\ d = <<>> => x = 0
       /\ d # <<>> => x # 0 /\ d[1] = x
  <2>1. CASE n = 0
    <3>1. Len(c) = 1 /\ d = <<>>
      BY <1>7, <1>12, <2>1
    <3>2. vma[c[Len(c)]].next = 0
      BY <1>3, <1>4 DEF ListOf, Linking
    <3> QED BY <1>6, <1>8, <3>1, <3>2
  <2>2. CASE n # 0
    <3>1. 1 \in 1 .. n /\ 1 \in 1 .. Len(c) - 1 /\ d # <<>>
      BY <1>7, <1>12, <2>2
    <3>2. vma[c[1]].next = c[1 + 1] /\ d[1] = c[1 + 1]
      BY <1>3, <1>12, <3>1 DEF ListOf, Linking
    <3>3. d[1] \in Areas /\ d[1] # 0
      BY <1>9, <3>1, <3>2, MmapAssumption DEF Areas
    <3> QED BY <1>6, <1>8, <3>1, <3>2, <3>3
  <2> QED BY <2>1, <2>2
<1>14. call'[p] # Gone /\ Root(p)' = x
  BY <1>3, <1>11, ExitAtType
<1>15. InBack(p)' => /\ x # 0 /\ call'[p].area = x
                     /\ call'[p].from = vma[x].start /\ call'[p].count = vma[x].length
  BY <1>3, <1>11, ExitAtType
<1>16. InBack(p)' => call'[p].exit
  BY <1>3, <1>11, ExitAtType, Zenon
<1>17. Linking(d, Root(p))'
  <2>1. d # <<>> => vma'[d[Len(d)]].next = 0
    <3> SUFFICES ASSUME d # <<>> PROVE vma'[d[Len(d)]].next = 0
      OBVIOUS
    <3>1. n \in 1 .. n /\ n + 1 = Len(c)
      BY <1>7, <1>12
    <3>2. d[n] = c[Len(c)] /\ d[n] \in Areas \ {s}
      BY <1>9, <1>12, <3>1
    <3>3. vma[c[Len(c)]].next = 0
      BY <1>3, <1>4 DEF ListOf, Linking
    <3> QED BY <1>10, <1>12, <3>2, <3>3
  <2>2. ASSUME NEW i \in 1 .. Len(d) - 1 PROVE vma'[d[i]].next = d[i + 1]
    <3>1. i \in 1 .. n /\ i + 1 \in 1 .. n /\ i + 1 \in 1 .. Len(c) - 1
      BY <1>7, <1>12
    <3>2. d[i] = c[i + 1] /\ d[i + 1] = c[(i + 1) + 1] /\ d[i] \in Areas \ {s}
      BY <1>9, <1>12, <3>1
    <3>3. vma[c[i + 1]].next = c[(i + 1) + 1]
      BY <1>3, <3>1 DEF ListOf, Linking
    <3> QED BY <1>10, <3>2, <3>3
  <2>3. ASSUME NEW i \in 1 .. Len(d), NEW j \in 1 .. Len(d), d[i] = d[j] PROVE i = j
    <3>1. i \in 1 .. n /\ j \in 1 .. n
      BY <1>12
    <3>2. i + 1 \in 1 .. Len(c) /\ j + 1 \in 1 .. Len(c) /\ c[i + 1] = c[j + 1]
      BY <1>7, <1>12, <2>3, <3>1
    <3>3. i + 1 = j + 1
      BY <3>2, <1>3 DEF ListOf, Linking
    <3> QED BY <3>1, <3>3
  <2> QED BY <1>12, <1>13, <1>14, <2>1, <2>2, <2>3 DEF Linking
<1>18. ListOf(p, d)'
  <2>1. ASSUME NEW i \in 1 .. Len(d)
        PROVE  vma'[d[i]].length # 0 /\ vma'[d[i]].end = vma'[d[i]].start + vma'[d[i]].length
    <3>1. i \in 1 .. n /\ i + 1 \in 1 .. Len(c)
      BY <1>7, <1>12
    <3>2. d[i] = c[i + 1] /\ d[i] \in Areas \ {s}
      BY <1>9, <1>12, <3>1
    <3>3. vma[c[i + 1]].length # 0
          /\ vma[c[i + 1]].end = vma[c[i + 1]].start + vma[c[i + 1]].length
      BY <1>3, <3>1 DEF ListOf
    <3> QED BY <1>10, <3>2, <3>3
  <2>2. ASSUME NEW i \in 1 .. Len(d) - 1 PROVE vma'[d[i]].end <= vma'[d[i + 1]].start
    <3>1. i \in 1 .. n /\ i + 1 \in 1 .. n /\ i + 1 \in 1 .. Len(c) - 1
      BY <1>7, <1>12
    <3>2. d[i] = c[i + 1] /\ d[i + 1] = c[(i + 1) + 1] /\ d[i] \in Areas \ {s}
          /\ d[i + 1] \in Areas \ {s}
      BY <1>9, <1>12, <3>1
    <3>3. vma[c[i + 1]].end <= vma[c[(i + 1) + 1]].start
      BY <1>3, <3>1 DEF ListOf
    <3> QED BY <1>10, <3>2, <3>3
  <2>3. ASSUME NEW a \in frames'[p] PROVE \E i \in 1 .. Len(d) : Holds(d[i], a)'
    <3>1. a \in frames[p] /\ ~ Holds(s, a)
      <4>1. vma[s].end = vma[s].start + vma[s].length
        <5>1. 1 \in 1 .. Len(c)
          BY <1>7
        <5> QED BY <1>3, <1>6, <5>1 DEF ListOf
      <4> QED BY <1>3, <1>5, <1>4, <1>6, <1>11, <4>1, PagesCleared
    <3>2. PICK i \in 1 .. Len(c) : Holds(c[i], a)
      BY <1>3, <3>1 DEF ListOf
    <3>3. PICK j \in 1 .. n : j + 1 = i
      <4>1. i # 1
        BY <1>6, <3>1, <3>2
      <4>2. i - 1 \in 1 .. n /\ (i - 1) + 1 = i
        BY <1>7, <4>1
      <4> QED BY <4>2
    <3>4. d[j] = c[i] /\ d[j] \in Areas \ {s}
      BY <1>9, <1>12, <3>3
    <3>5. Holds(d[j], a)'
      BY <1>10, <3>2, <3>4 DEF Holds
    <3> QED BY <1>12, <3>3, <3>5
  <2>4. ASSUME InBack(p)'
        PROVE  /\ d # <<>>
               /\ ~ call'[p].exit => call'[p].area = d[Len(d)]
               /\ call'[p].from = vma'[call'[p].area].start
               /\ call'[p].count = vma'[call'[p].area].length
    <3>1. d # <<>> /\ x = d[1]
      BY <1>13, <1>15, <2>4
    <3>2. x \in Areas \ {s}
      <4>1. 1 \in 1 .. n
        BY <1>12, <3>1
      <4> QED BY <1>9, <1>12, <3>1, <4>1
    <3> QED BY <1>10, <1>15, <1>16, <2>4, <3>1, <3>2
  <2> QED BY <1>14, <1>17, <2>1, <2>2, <2>3, <2>4 DEF ListOf
<1>19. Members(c) = Members(d) \cup {s} /\ s \notin Members(d)
  <2>1. ASSUME NEW i \in 1 .. Len(c) PROVE c[i] \in Members(d) \cup {s}
    <3>1. CASE i = 1
      BY <1>6, <3>1
    <3>2. CASE i # 1
      <4>1. i - 1 \in 1 .. n /\ (i - 1) + 1 = i
        BY <1>7, <3>2
      <4>2. d[i - 1] = c[i]
        BY <1>12, <4>1
      <4> QED BY <1>12, <4>1, <4>2 DEF Members
    <3> QED BY <3>1, <3>2
  <2>2. ASSUME NEW i \in 1 .. Len(d) PROVE d[i] \in Members(c) /\ d[i] # s
    <3>1. i \in 1 .. n /\ i + 1 \in 1 .. Len(c)
      BY <1>7, <1>12
    <3> QED BY <1>9, <1>12, <3>1 DEF Members
  <2>3. s \in Members(c)
    <3>1. 1 \in 1 .. Len(c)
      BY <1>7
    <3> QED BY <1>6, <3>1 DEF Members
  <2> QED BY <2>1, <2>2, <2>3 DEF Members
<1>20. Used' = Used \ {s} /\ s \in Used
  <2>1. vma[s].length # 0
    <3>1. 1 \in 1 .. Len(c)
      BY <1>7
    <3> QED BY <1>3, <1>6, <3>1 DEF ListOf
  <2> QED BY <1>10, <2>1, FreedArea DEF Used
<1>21. Members(c) \subseteq Used
  BY <1>1, <1>2 DEF Lists
<1>22. Apart(p, Members(L[p]))
  <2>1. \A t \in Used \ Members(c) : vma'[t] = vma[t]
    BY <1>10, <1>19 DEF Used
  <2>2. \A q \in Users \ {p} : call'[q] = call[q]
    BY <1>3, <1>11, ExitAtType
  <2>3. \A q \in Users \ {p} : areas'[q] = areas[q] /\ frames'[q] = frames[q]
    BY <1>3, <1>11 DEF MmapType, Cleared
  <2> QED BY <1>2, <1>11, <2>1, <2>2, <2>3 DEF Apart
<1>23. (\E M : Lists(M))'
  <2>1. Used' = (Used \ Members(c)) \cup Members(d) /\ Members(d) \cap (Used \ Members(c)) = {}
    BY <1>19, <1>20, <1>21
  <2> QED BY <1>1, <1>2, <1>3, <1>18, <1>22, <2>1, OneListChanges
<1>24. MmapType'
  <2>1. call' \in [Users -> {UserMode, Gone, Closing} \cup Backs]
    BY <1>3, <1>11, ExitAtType
  <2> QED BY <1>3, <1>10, <1>11, <2>1 DEF MmapType, Cleared
<1>25. FreeOK'
  <2> SUFFICES ASSUME NEW t \in Areas, vma'[t].length = 0 PROVE vma'[t].next = 0
    BY DEF FreeOK
  <2>1. CASE t = s
    BY <1>10, <2>1, FreedArea
  <2>2. CASE t # s
    BY <1>10, <2>2 DEF MmapInv, FreeOK
  <2> QED BY <2>1, <2>2
<1>26. RefsOK'
  <2>1. Cardinality(Used') = Cardinality(Used) - 1
    BY <1>20, UsedFinite, FS_RemoveElement
  <2>2. Cardinality(fd) \in Nat
    BY FS_CardinalityType DEF MmapInv, RefsOK
  <2> QED BY <1>11, <2>1, <2>2, UsedFinite DEF RefsOK, MmapInv
<1> QED BY <1>23, <1>24, <1>25, <1>26 DEF MmapInv

LEMMA RangeSize ==
    ASSUME NEW n \in Nat, NEW S, NEW f \in [1 .. n -> S],
           \A j, k \in 1 .. n : f[j] = f[k] => j = k,
           NEW T, \A k \in 1 .. n : f[k] \in T, \A t \in T : \E k \in 1 .. n : f[k] = t
    PROVE  IsFiniteSet(T) /\ Cardinality(T) = n
<1>1. IsFiniteSet(1 .. n) /\ Cardinality(1 .. n) = n
  BY FS_Interval
<1>2. f \in Bijection(1 .. n, T)
  BY DEF Bijection, Injection, Surjection, IsInjective
<1>3. ExistsBijection(1 .. n, T)
  BY <1>2 DEF ExistsBijection
<1>4. IsFiniteSet(T) /\ Cardinality(T) = Cardinality(1 .. n)
  BY <1>1, <1>3, FS_Bijection
<1> QED BY <1>1, <1>4

LEMMA ForkStep ==
    ASSUME MmapInv, NEW p \in Users, NEW q \in Users, Fork(p, q)
    PROVE  MmapInv'
<1>1. PICK L : Lists(L)
  BY DEF MmapInv
<1>2. PICK c : c = L[p]
  OBVIOUS
<1>3. ListOf(p, c) /\ MmapType /\ InUserMode(p) /\ call[q] = Gone /\ ListOf(q, L[q])
  BY <1>1, <1>2 DEF Lists, MmapInv, Fork
<1>4. Chain(p) = c
  BY <1>3, RootOfList
<1>5. PICK n \in Nat : n = Len(c)
  BY <1>3 DEF ListOf, Linking
<1>6. c \in Seq(Areas) /\ \A i \in 1 .. n : c[i] \in Areas
  BY <1>3, <1>5 DEF ListOf, Linking
<1> DEFINE link(f, k) == IF k < n THEN f[k + 1] ELSE 0
           new(f, k) == [vma[c[k]] EXCEPT !.next = link(f, k)]
<1>7. PICK f \in [1 .. Len(Chain(p)) -> Areas] :
        /\ Allocated(f)
        /\ vma' = [s \in Areas |->
                     IF \E k \in 1 .. Len(Chain(p)) : f[k] = s
                     THEN LET i == CHOOSE k \in 1 .. Len(Chain(p)) : f[k] = s
                          IN [vma[Chain(p)[i]] EXCEPT
                                !.next = IF i < Len(Chain(p)) THEN f[i + 1] ELSE 0]
                     ELSE vma[s]]
        /\ areas' = [areas EXCEPT ![q] = IF Chain(p) = <<>> THEN 0 ELSE f[1]]
  BY DEF Fork
<1>8. /\ f \in [1 .. n -> Areas]
       /\ areas' = [areas EXCEPT ![q] = IF c = <<>> THEN 0 ELSE f[1]]
  BY <1>4, <1>5, <1>7
<1>9. /\ \A k \in 1 .. n : vma[f[k]].length = 0
      /\ \A j, k \in 1 .. n : f[j] = f[k] => j = k
  BY <1>7, <1>8, AllocatedFree
<1>10. ASSUME NEW k \in 1 .. n PROVE link(f, k) \in Areas \cup {0}
  <2>1. CASE k < n
    <3>1. k + 1 \in 1 .. n
      BY <2>1
    <3> QED BY <1>8, <2>1, <3>1
  <2>2. CASE ~ (k < n)
    BY <2>2
  <2> QED BY <2>1, <2>2
<1> HIDE DEF link
<1>11. ASSUME NEW k \in 1 .. n
       PROVE  /\ new(f, k) \in AreaSet /\ new(f, k).next = link(f, k)
              /\ new(f, k).length = vma[c[k]].length /\ new(f, k).start = vma[c[k]].start
              /\ new(f, k).end = vma[c[k]].end
  <2>1. vma[c[k]] \in AreaSet
    BY <1>3, <1>6 DEF MmapType
  <2> QED BY <1>10, <2>1 DEF AreaSet
<1> HIDE DEF new
<1>12. \A k \in 1 .. n : vma'[f[k]] = new(f, k)
  <2> TAKE k \in 1 .. n
  <2>1. k \in 1 .. Len(Chain(p)) /\ f[k] \in Areas
    BY <1>4, <1>5, <1>8
  <2>2. (CHOOSE j \in 1 .. Len(Chain(p)) : f[j] = f[k]) = k
    BY <1>4, <1>5, <1>9
  <2>3. vma'[f[k]] = [vma[Chain(p)[k]] EXCEPT
                        !.next = IF k < Len(Chain(p)) THEN f[k + 1] ELSE 0]
    BY <1>7, <2>1, <2>2
  <2> QED BY <1>4, <1>5, <2>3 DEF new, link
<1>13. \A s \in Areas : (\A k \in 1 .. n : f[k] # s) => vma'[s] = vma[s]
  BY <1>4, <1>5, <1>7
<1>14. vma' \in [Areas -> AreaSet]
  <2>1. ASSUME NEW s \in Areas PROVE vma'[s] \in AreaSet
    <3>1. CASE \E k \in 1 .. n : f[k] = s
      BY <1>11, <1>12, <3>1
    <3>2. CASE ~ \E k \in 1 .. n : f[k] = s
      BY <1>3, <1>13, <3>2 DEF MmapType
    <3> QED BY <3>1, <3>2
  <2>2. vma' = [s \in Areas |-> vma'[s]]
    BY <1>7
  <2> QED BY <2>1, <2>2
<1>15. PICK d \in Seq(Areas) : d = f /\ Len(d) = n
  BY <1>8
<1>16. Root(q) = 0
  BY <1>3 DEF Root, InBack, Gone
<1>17. Members(L[q]) = {} /\ frames[q] = {} /\ q \notin fd
  BY <1>3, <1>16, EmptyList DEF ListOf
<1>18. /\ frames' = frames /\ call' = [call EXCEPT ![q] = UserMode]
       /\ fd' = IF p \in fd THEN fd \cup {q} ELSE fd
       /\ refs' = refs + n + Cardinality(fd' \ fd)
  BY <1>4, <1>5 DEF Fork, Goto
<1>19. ~ InBack(q)' /\ call'[q] # Gone /\ Root(q)' = areas'[q]
  <2>1. call'[q] = UserMode
    BY <1>3, <1>18 DEF MmapType
  <2> QED BY <2>1 DEF InBack, Root, UserMode, Gone
<1>20. areas'[q] = IF n = 0 THEN 0 ELSE f[1]
  BY <1>3, <1>5, <1>6, <1>8 DEF MmapType
<1>21. Linking(d, Root(q))'
  <2>1. d = <<>> => Root(q)' = 0
    BY <1>15, <1>19, <1>20
  <2>2. d # <<>> => d[1] = Root(q)' /\ vma'[d[Len(d)]].next = 0
    <3> SUFFICES ASSUME d # <<>> PROVE d[1] = Root(q)' /\ vma'[d[Len(d)]].next = 0
      OBVIOUS
    <3>1. n # 0 /\ n \in 1 .. n /\ ~ (n < n)
      BY <1>15
    <3>2. link(f, n) = 0
      BY <3>1 DEF link
    <3> QED BY <1>11, <1>12, <1>15, <1>19, <1>20, <3>1, <3>2
  <2>3. ASSUME NEW i \in 1 .. Len(d) - 1 PROVE vma'[d[i]].next = d[i + 1]
    <3>1. i \in 1 .. n /\ i < n
      BY <1>15
    <3>2. link(f, i) = f[i + 1]
      BY <3>1 DEF link
    <3> QED BY <1>11, <1>12, <1>15, <3>1, <3>2
  <2>4. \A i, j \in 1 .. Len(d) : d[i] = d[j] => i = j
    BY <1>9, <1>15
  <2> QED BY <1>15, <2>1, <2>2, <2>3, <2>4 DEF Linking
<1>22. ListOf(q, d)'
  <2>1. ASSUME NEW i \in 1 .. Len(d)
        PROVE  vma'[d[i]].length # 0 /\ vma'[d[i]].end = vma'[d[i]].start + vma'[d[i]].length
    <3>1. i \in 1 .. n /\ i \in 1 .. Len(c)
      BY <1>5, <1>15
    <3>2. vma[c[i]].length # 0 /\ vma[c[i]].end = vma[c[i]].start + vma[c[i]].length
      BY <1>3, <3>1 DEF ListOf
    <3> QED BY <1>11, <1>12, <1>15, <3>1, <3>2
  <2>2. ASSUME NEW i \in 1 .. Len(d) - 1 PROVE vma'[d[i]].end <= vma'[d[i + 1]].start
    <3>1. i \in 1 .. n /\ i + 1 \in 1 .. n /\ i \in 1 .. Len(c) - 1
      BY <1>5, <1>15
    <3>2. vma[c[i]].end <= vma[c[i + 1]].start
      BY <1>3, <3>1 DEF ListOf
    <3> QED BY <1>11, <1>12, <1>15, <3>1, <3>2
  <2> QED BY <1>17, <1>18, <1>19, <1>21, <2>1, <2>2 DEF ListOf
<1>23. Members(d) = {f[k] : k \in 1 .. n}
  BY <1>15 DEF Members
<1>24. Used' = Used \cup Members(d) /\ Used \cap Members(d) = {}
  <2>1. ASSUME NEW k \in 1 .. n PROVE vma'[f[k]].length # 0 /\ vma[f[k]].length = 0
    <3>1. k \in 1 .. Len(c) /\ vma[c[k]].length # 0
      BY <1>3, <1>5 DEF ListOf
    <3> QED BY <1>9, <1>11, <1>12, <3>1
  <2>2. ASSUME NEW s \in Areas PROVE s \in Used' <=> (s \in Used \/ s \in Members(d))
    <3>1. CASE \E k \in 1 .. n : f[k] = s
      BY <1>23, <2>1, <3>1 DEF Used
    <3>2. CASE \A k \in 1 .. n : f[k] # s
      BY <1>13, <1>23, <3>2 DEF Used
    <3> QED BY <3>1, <3>2
  <2>3. Members(d) \subseteq Areas
    BY <1>23, <1>8
  <2>4. Used \cap Members(d) = {}
    BY <1>23, <2>1 DEF Used
  <2>5. Used \subseteq Areas /\ Used' \subseteq Areas
    BY DEF Used
  <2> QED BY <2>2, <2>3, <2>4, <2>5
<1>25. Apart(q, Members(L[q]))
  <2>1. \A t \in Used \ Members(L[q]) : vma'[t] = vma[t]
    <3> TAKE t \in Used \ Members(L[q])
    <3>1. t \in Areas /\ \A k \in 1 .. n : f[k] # t
      BY <1>9 DEF Used
    <3> QED BY <1>13, <3>1
  <2> QED BY <1>3, <1>8, <1>18, <2>1 DEF Apart, MmapType
<1>26. (\E M : Lists(M))'
  <2>1. Used' = (Used \ Members(L[q])) \cup Members(d)
        /\ Members(d) \cap (Used \ Members(L[q])) = {}
    BY <1>17, <1>24
  <2> QED BY <1>1, <1>3, <1>22, <1>25, <2>1, OneListChanges
<1>27. MmapType'
  <2>1. areas' \in [Users -> Areas \cup {0}]
    <3>1. (IF c = <<>> THEN 0 ELSE f[1]) \in Areas \cup {0}
      BY <1>5, <1>6, <1>8
    <3> QED BY <1>3, <1>8, <3>1 DEF MmapType
  <2> QED BY <1>3, <1>14, <1>18, <2>1 DEF MmapType
<1>28. FreeOK'
  <2> SUFFICES ASSUME NEW t \in Areas, vma'[t].length = 0 PROVE vma'[t].next = 0
    BY DEF FreeOK
  <2>1. t \notin Members(d)
    BY <1>24 DEF Used
  <2>2. vma'[t] = vma[t]
    BY <1>13, <1>23, <2>1
  <2> QED BY <2>2 DEF FreeOK, MmapInv
<1>29. RefsOK'
  <2>1. IsFiniteSet(Members(d)) /\ Cardinality(Members(d)) = n
    <3>1. \A k \in 1 .. n : f[k] \in Members(d)
      BY <1>23
    <3>2. \A t \in Members(d) : \E k \in 1 .. n : f[k] = t
      BY <1>23
    <3>3. n \in Nat /\ f \in [1 .. n -> Areas]
      BY <1>8
    <3>4. \A j, k \in 1 .. n : f[j] = f[k] => j = k
      BY <1>9
    <3> QED BY <3>1, <3>2, <3>3, <3>4, RangeSize, Zenon
  <2>2. Cardinality(Used') = Cardinality(Used) + n
    <3>1. Cardinality(Used \cap Members(d)) = 0
      BY <1>24, FS_EmptySet
    <3>2. Cardinality(Used \cup Members(d))
            = Cardinality(Used) + Cardinality(Members(d)) - Cardinality(Used \cap Members(d))
      BY <2>1, UsedFinite, FS_Union
    <3> QED BY <1>24, <2>1, <3>1, <3>2, UsedFinite
  <2>3. IsFiniteSet(fd) /\ Cardinality(fd) \in Nat
    BY FS_CardinalityType DEF MmapInv, RefsOK
  <2>4. /\ IsFiniteSet(fd') /\ Cardinality(fd' \ fd) \in Nat
        /\ Cardinality(fd') = Cardinality(fd) + Cardinality(fd' \ fd)
    <3>1. CASE p \in fd
      <4>1. fd' = fd \cup {q} /\ fd' \ fd = {q}
        BY <1>17, <1>18, <3>1
      <4>2. Cardinality(fd \cup {q}) = Cardinality(fd) + 1 /\ IsFiniteSet(fd \cup {q})
        BY <1>17, <2>3, FS_AddElement
      <4>3. Cardinality(fd' \ fd) = 1
        BY <4>1, FS_Singleton
      <4> QED BY <2>3, <4>1, <4>2, <4>3
    <3>2. CASE p \notin fd
      <4>1. fd' = fd /\ fd' \ fd = {}
        BY <1>18, <3>2
      <4>2. Cardinality(fd' \ fd) = 0
        BY <4>1, FS_EmptySet
      <4>3. Cardinality(fd') = Cardinality(fd) /\ IsFiniteSet(fd')
        BY <2>3, <4>1
      <4> QED BY <2>3, <4>2, <4>3
    <3> QED BY <3>1, <3>2
  <2> QED BY <1>18, <2>2, <2>3, <2>4, UsedFinite DEF RefsOK, MmapInv
<1> QED BY <1>26, <1>27, <1>28, <1>29 DEF MmapInv

----------------------------------------------------------------------------
LEMMA MmapInitInv == MmapInit => MmapInv
<1> SUFFICES ASSUME MmapInit PROVE MmapInv
  OBVIOUS
<1> USE DEF MmapInit
<1>1. MmapType
  <2>1. NotUsed \in AreaSet
    BY DEF NotUsed, AreaSet
  <2> QED BY <2>1 DEF MmapType
<1>2. Used = {} /\ FreeOK
  BY DEF Used, FreeOK, NotUsed
<1>3. \A p \in Users : ListOf(p, <<>>)
  <2> TAKE p \in Users
  <2>1. ~ InBack(p) /\ call[p] = Gone /\ call[p].at \in {"gone", "close"}
    BY DEF InBack, Gone
  <2>2. Root(p) = 0
    BY <2>1 DEF Root
  <2>3. Linking(<<>>, Root(p))
    BY <2>2 DEF Linking
  <2> QED BY <2>1, <2>3 DEF ListOf
<1>4. \E L : Lists(L)
  <2> DEFINE L == [p \in Users |-> <<>>]
  <2>1. Members(<<>>) = {}
    BY DEF Members
  <2>2. Lists(L)
    BY <1>2, <1>3, <2>1 DEF Lists
  <2> QED BY <2>2
<1>5. RefsOK
  BY <1>2, FS_EmptySet DEF RefsOK
<1> QED BY <1>1, <1>2, <1>4, <1>5 DEF MmapInv

LEMMA MmapStep == MmapInv /\ [TidyNext]_mmapVars => MmapInv'
<1> SUFFICES ASSUME MmapInv, [TidyNext]_mmapVars PROVE MmapInv'
  OBVIOUS
<1>1. CASE UNCHANGED mmapVars
  <2>1. Used' = Used /\ MmapType' /\ FreeOK' /\ RefsOK'
    BY <1>1 DEF mmapVars, Used, MmapInv, MmapType, FreeOK, RefsOK
  <2>2. PICK L : Lists(L)
    BY DEF MmapInv
  <2>3. ASSUME NEW p \in Users PROVE ListOf(p, L[p])'
    <3>1. PICK c : c = L[p]
      OBVIOUS
    <3>2. ListOf(p, c) /\ MmapType
      BY <2>2, <3>1 DEF Lists, MmapInv
    <3>3. ListOf(p, c)'
      BY <1>1, <3>2, ListStays DEF mmapVars
    <3> QED BY <3>1, <3>3
  <2>4. Lists(L)'
    BY <2>1, <2>2, <2>3 DEF Lists
  <2> QED BY <2>1, <2>4 DEF MmapInv
<1>2. CASE TidyNext
  <2>1. PICK p \in Users :
          \/ Start(p)
          \/ \E n \in Sizes, kind \in Kinds : MapFile(p, n, kind)
          \/ \E a \in Pages : Fault(p, a)
          \/ \E a \in Pages, n \in Sizes : Tidily(p, a, n) /\ UnmapHead(p, a, n)
          \/ WritePage(p) \/ UnmapAll(p)
          \/ CloseFd(p) \/ Exec(p)
          \/ \E q \in Users : Fork(p, q)
          \/ ExitBegin(p) \/ ExitUnmap(p) \/ ExitClose(p)
    BY <1>2 DEF TidyNext
  <2> QED BY <2>1, StartStep, MapFileStep, FaultStep, UnmapHeadStep, WritePageStep, UnmapAllStep,
             CloseFdStep, ExecStep, ForkStep, ExitBeginStep, ExitUnmapStep, ExitCloseStep
<1> QED BY <1>1, <1>2

LEMMA SoundMappings == MmapInv => MappingsSound
<1> SUFFICES ASSUME MmapInv PROVE MappingsSound
  OBVIOUS
<1>1. PICK L : Lists(L)
  BY DEF MmapInv
<1>2. \A p \in Users : Linked(p) = L[p] /\ ListOf(p, L[p]) /\ L[p] \in Seq(Areas)
  <2> TAKE p \in Users
  <2>1. ListOf(p, L[p]) /\ MmapType
    BY <1>1 DEF Lists, MmapInv
  <2> QED BY <2>1, RootOfList DEF ListOf, Linking
<1>3. \A p \in Users : DOMAIN L[p] = 1 .. Len(L[p]) /\ Len(L[p]) \in Nat
  BY <1>2
<1>4. ASSUME NEW p \in Users, NEW k \in 1 .. VmaCount, k \in 1 .. Len(L[p])
      PROVE  /\ L[p][k] \in Used
             /\ \A q \in Users : \A j \in 1 .. Len(L[q]) :
                  L[q][j] = L[p][k] => q = p /\ j = k
             /\ k > 1 => vma[L[p][k - 1]].end <= vma[L[p][k]].start
  <2>1. L[p][k] \in Used
    BY <1>2, <1>4 DEF ListOf, Used
  <2>2. ASSUME NEW q \in Users, NEW j \in 1 .. Len(L[q]), L[q][j] = L[p][k]
        PROVE  q = p /\ j = k
    <3>1. q = p
      BY <1>1, <1>4, <2>2 DEF Lists, Members
    <3> QED BY <1>2, <1>4, <2>2, <3>1 DEF ListOf, Linking
  <2>3. ASSUME k > 1 PROVE vma[L[p][k - 1]].end <= vma[L[p][k]].start
    <3>1. k - 1 \in 1 .. Len(L[p]) - 1 /\ (k - 1) + 1 = k
      BY <1>3, <1>4, <2>3
    <3>2. \A i \in 1 .. Len(L[p]) - 1 : vma[L[p][i]].end <= vma[L[p][i + 1]].start
      BY <1>2 DEF ListOf
    <3> QED BY <3>1, <3>2
  <2> QED BY <2>1, <2>2, <2>3
<1>5. \A s \in Used : \E p \in Users : \E k \in 1 .. Len(L[p]) : L[p][k] = s
  BY <1>1 DEF Lists, Members
<1>6. \A p \in Users, a \in Pages : a \in frames[p] => \E k \in 1 .. Len(L[p]) : Holds(L[p][k], a)
  BY <1>2 DEF ListOf
<1>7. refs = Cardinality(fd) + Cardinality(Used)
  BY DEF MmapInv, RefsOK
<1>8. Used = {s \in Areas : vma[s].length # 0}
  BY DEF Used
<1>9. \A p \in Users, k \in 1 .. VmaCount :
        k \in DOMAIN Linked(p) =>
          /\ Linked(p)[k] \in Used
          /\ \A q \in Users : \A j \in DOMAIN Linked(q) :
               Linked(q)[j] = Linked(p)[k] => q = p /\ j = k
          /\ k > 1 => vma[Linked(p)[k - 1]].end <= vma[Linked(p)[k]].start
  <2> TAKE p \in Users, k \in 1 .. VmaCount
  <2> HAVE k \in DOMAIN Linked(p)
  <2>1. Linked(p) = L[p] /\ k \in 1 .. Len(L[p])
    BY <1>2, <1>3
  <2>2. /\ L[p][k] \in Used
        /\ \A q \in Users : \A j \in 1 .. Len(L[q]) : L[q][j] = L[p][k] => q = p /\ j = k
        /\ k > 1 => vma[L[p][k - 1]].end <= vma[L[p][k]].start
    BY <1>4, <2>1
  <2>3. ASSUME NEW q \in Users, NEW j \in DOMAIN Linked(q), Linked(q)[j] = Linked(p)[k]
        PROVE  q = p /\ j = k
    <3>1. Linked(q) = L[q] /\ j \in 1 .. Len(L[q])
      BY <1>2, <1>3
    <3> QED BY <2>1, <2>2, <2>3, <3>1
  <2> QED BY <2>1, <2>2, <2>3
<1>10. \A s \in Used : \E p \in Users : \E k \in DOMAIN Linked(p) : Linked(p)[k] = s
  <2> TAKE s \in Used
  <2>1. PICK p \in Users : \E k \in 1 .. Len(L[p]) : L[p][k] = s
    BY <1>5
  <2>2. Linked(p) = L[p] /\ DOMAIN L[p] = 1 .. Len(L[p])
    BY <1>2, <1>3
  <2> QED BY <2>1, <2>2
<1>11. \A p \in Users, a \in Pages : a \in frames[p] =>
         \E k \in DOMAIN Linked(p) : Holds(Linked(p)[k], a)
  <2> TAKE p \in Users, a \in Pages
  <2>1. Linked(p) = L[p] /\ DOMAIN L[p] = 1 .. Len(L[p])
    BY <1>2, <1>3
  <2> QED BY <1>6, <2>1
<1> HIDE DEF Used
<1> QED BY <1>7, <1>8, <1>9, <1>10, <1>11 DEF MappingsSound

\* Whatever order processes map, fork, exec and exit in, and unmap whole mappings,
\* the latest first: the lists share no area and miss none, the pages lie in them,
\* and the file is referenced once for each, for any number of processes and areas.
THEOREM MappingsStaySound == TidySpec => []MappingsSound
<1> QED BY MmapInitInv, MmapStep, SoundMappings, PTL DEF TidySpec
=============================================================================
