------------------------------ MODULE DiskLog -------------------------------
(* The redo log of the file system (kernel/log.c) over the buffer cache       *)
(* (kernel/bio.c): operations that overlap are committed together, through    *)
(* the log on the disk, and a crash at any moment is recovered from it.       *)
EXTENDS Naturals, FiniteSets, Sequences

CONSTANTS
    Ops,            \* processes, each in at most one operation
    Blocks,         \* home blocks
    Values,         \* contents of a block
    None,
    MaxOpBlocks,    \* MAXOPBLOCKS
    LogSize,        \* LOGSIZE
    DataBlocks      \* log.size - 1: the blocks of the log behind its header

ASSUME DiskLogAssumption ==
    /\ None \notin Values /\ Values # {}
    /\ MaxOpBlocks \in Nat \ {0} /\ LogSize \in Nat /\ DataBlocks \in Nat
    /\ MaxOpBlocks <= LogSize /\ DataBlocks <= LogSize

VARIABLES
    home,       \* the disk: home blocks
    slot,       \* the disk: data blocks of the log
    head,       \* the disk: header of the log, the blocks it holds
    cache,      \* contents of the valid buffers, None where there is none
    pinned,     \* blocks whose buffer is pinned
    lh,         \* log.lh: the header in memory
    op,         \* [at, wrote]: where each process is, the blocks its op wrote
    phase       \* [at, tail]: the commit or the recovery

disk == <<home, slot, head>>
vars == <<home, slot, head, cache, pinned, lh, op, phase>>

Out == [at |-> "out", wrote |-> {}]
At(s, t) == [at |-> s, tail |-> t]
NoCache == [b \in Blocks |-> None]
InLog(s) == {s[i] : i \in 1 .. Len(s)}
Active == {p \in Ops : op[p].at = "in"}                     \* log.outstanding
Current(b) == IF cache[b] # None THEN cache[b] ELSE home[b] \* bread
Up == phase.at \in {"ready", "log", "install", "head"}

Init == /\ home \in [Blocks -> Values]
        /\ slot \in [1 .. DataBlocks -> Values]
        /\ head = <<>> /\ lh = <<>>
        /\ cache = NoCache /\ pinned = {}
        /\ op = [p \in Ops |-> Out]
        /\ phase = At("ready", 0)

----------------------------------------------------------------------------
(* The buffer cache: bget may recycle any buffer that is neither held nor     *)
(* pinned; a buffer is held only within a step.                               *)

Fetch(b) ==
    /\ Up /\ cache[b] = None
    /\ cache' = [cache EXCEPT ![b] = home[b]]
    /\ UNCHANGED <<disk, pinned, lh, op, phase>>

Recycle(b) ==
    /\ Up /\ cache[b] # None /\ b \notin pinned
    /\ cache' = [cache EXCEPT ![b] = None]
    /\ UNCHANGED <<disk, pinned, lh, op, phase>>

----------------------------------------------------------------------------
(* Operations.                                                                *)

\* A variant with a plausible bug, for the mutation checks: it reserves nothing for p.
HasRoom_OthersOnly == Len(lh) + Cardinality(Active) * MaxOpBlocks <= LogSize

HasRoom == Len(lh) + (Cardinality(Active) + 1) * MaxOpBlocks <= LogSize

BeginOp(p) ==
    /\ phase.at = "ready" /\ op[p].at = "out" /\ HasRoom
    /\ op' = [op EXCEPT ![p] = [at |-> "in", wrote |-> {}]]
    /\ UNCHANGED <<disk, cache, pinned, lh, phase>>

BeginSleeps(p) ==
    /\ Up /\ op[p].at = "out"
    /\ phase.at # "ready" \/ ~ HasRoom
    /\ op' = [op EXCEPT ![p] = [at |-> "asleep", wrote |-> {}]]
    /\ UNCHANGED <<disk, cache, pinned, lh, phase>>

\* wakeup(&log): the sleepers try again.
Woken(f) == [p \in Ops |-> IF f[p].at = "asleep" THEN Out ELSE f[p]]

TooBig == Len(lh) >= LogSize \/ Len(lh) >= DataBlocks

\* A variant with a plausible bug, for the mutation checks: the buffer is not pinned.
LogWrite_NotPinned(p, b, v) ==
    /\ phase.at = "ready" /\ op[p].at = "in"
    /\ Cardinality(op[p].wrote \cup {b}) <= MaxOpBlocks
    /\ ~ TooBig
    /\ cache' = [cache EXCEPT ![b] = v]
    /\ lh' = IF b \in InLog(lh) THEN lh ELSE Append(lh, b)
    /\ op' = [op EXCEPT ![p] = [at |-> "in", wrote |-> op[p].wrote \cup {b}]]
    /\ UNCHANGED <<disk, phase, pinned>>

\* A block is changed in its buffer and log_write notes it.  An operation keeps
\* to the MAXOPBLOCKS blocks it has reserved.
LogWrite(p, b, v) ==
    /\ phase.at = "ready" /\ op[p].at = "in"
    /\ Cardinality(op[p].wrote \cup {b}) <= MaxOpBlocks
    /\ ~ TooBig
    /\ cache' = [cache EXCEPT ![b] = v]
    /\ lh' = IF b \in InLog(lh) THEN lh ELSE Append(lh, b)      \* absorption
    /\ pinned' = pinned \cup {b}
    /\ op' = [op EXCEPT ![p] = [at |-> "in", wrote |-> op[p].wrote \cup {b}]]
    /\ UNCHANGED <<disk, phase>>

\* "too big a transaction": the kernel stops.
Panic(p, b) ==
    /\ phase.at = "ready" /\ op[p].at = "in"
    /\ Cardinality(op[p].wrote \cup {b}) <= MaxOpBlocks
    /\ TooBig
    /\ phase' = At("panic", 0)
    /\ cache' = NoCache /\ pinned' = {} /\ lh' = <<>>
    /\ op' = [q \in Ops |-> Out]
    /\ UNCHANGED disk

EndOp(p) ==
    /\ phase.at = "ready" /\ op[p].at = "in" /\ Active # {p}
    /\ op' = Woken([op EXCEPT ![p] = Out])
    /\ UNCHANGED <<disk, cache, pinned, lh, phase>>

\* The last one commits.
EndOpLast(p) ==
    /\ phase.at = "ready" /\ Active = {p}
    /\ op' = [op EXCEPT ![p] = Out]
    /\ phase' = At("log", 0)
    /\ UNCHANGED <<disk, cache, pinned, lh>>

----------------------------------------------------------------------------
(* commit.  Its steps are the writes to the disk.                             *)

WriteLog ==
    LET i == phase.tail + 1
    IN /\ phase.at = "log" /\ i <= Len(lh)
       /\ slot' = [slot EXCEPT ![i] = Current(lh[i])]
       /\ phase' = At("log", i)
       /\ UNCHANGED <<home, head, cache, pinned, lh, op>>

\* The true point at which the transaction commits.
WriteHead ==
    /\ phase.at = "log" /\ phase.tail = Len(lh) /\ lh # <<>>
    /\ head' = lh
    /\ phase' = At("install", 0)
    /\ UNCHANGED <<home, slot, cache, pinned, lh, op>>

Install ==
    LET i == phase.tail + 1
    IN /\ phase.at = "install" /\ i <= Len(lh)
       /\ home' = [home EXCEPT ![lh[i]] = slot[i]]
       /\ cache' = [cache EXCEPT ![lh[i]] = slot[i]]
       /\ pinned' = pinned \ {lh[i]}
       /\ phase' = At("install", i)
       /\ UNCHANGED <<slot, head, lh, op>>

Erase ==
    /\ phase.at = "install" /\ phase.tail = Len(lh)
    /\ lh' = <<>> /\ head' = <<>>
    /\ phase' = At("head", 0)
    /\ UNCHANGED <<home, slot, cache, pinned, op>>

\* A variant with a plausible bug, for the mutation checks: nobody is woken.
CommitDone_Silent ==
    /\ \/ phase.at = "head"
       \/ phase.at = "log" /\ lh = <<>>
    /\ phase' = At("ready", 0)
    /\ UNCHANGED <<disk, cache, pinned, lh, op>>

\* Nothing is written for a transaction without blocks.
CommitDone ==
    /\ \/ phase.at = "head"
       \/ phase.at = "log" /\ lh = <<>>
    /\ phase' = At("ready", 0)
    /\ op' = Woken(op)
    /\ UNCHANGED <<disk, cache, pinned, lh>>

----------------------------------------------------------------------------
(* A crash at any moment, and recover_from_log at the next start.             *)

Crash ==
    /\ phase' = At("down", 0)
    /\ cache' = NoCache /\ pinned' = {} /\ lh' = <<>>
    /\ op' = [p \in Ops |-> Out]
    /\ UNCHANGED disk

ReadHead ==
    /\ phase.at = "down"
    /\ lh' = head
    /\ phase' = At("recover", 0)
    /\ UNCHANGED <<disk, cache, pinned, op>>

Reinstall ==
    LET i == phase.tail + 1
    IN /\ phase.at = "recover" /\ i <= Len(lh)
       /\ home' = [home EXCEPT ![lh[i]] = slot[i]]
       /\ phase' = At("recover", i)
       /\ UNCHANGED <<slot, head, cache, pinned, lh, op>>

Recovered ==
    /\ phase.at = "recover" /\ phase.tail = Len(lh)
    /\ lh' = <<>> /\ head' = <<>>
    /\ phase' = At("ready", 0)
    /\ UNCHANGED <<home, slot, cache, pinned, op>>

OpStep == \E p \in Ops :
            \/ BeginOp(p) \/ BeginSleeps(p) \/ EndOp(p) \/ EndOpLast(p)
            \/ \E b \in Blocks : Panic(p, b) \/ \E v \in Values : LogWrite(p, b, v)

Next == \/ OpStep
        \/ \E b \in Blocks : Fetch(b) \/ Recycle(b)
        \/ WriteLog \/ WriteHead \/ Install \/ Erase \/ CommitDone
        \/ Crash \/ ReadHead \/ Reinstall \/ Recovered

Spec == Init /\ [][Next]_vars

----------------------------------------------------------------------------
TypeOK ==
    /\ home \in [Blocks -> Values]
    /\ slot \in [1 .. DataBlocks -> Values]
    /\ head \in Seq(Blocks) /\ Len(head) <= DataBlocks
    /\ cache \in [Blocks -> Values \cup {None}]
    /\ pinned \subseteq Blocks
    /\ lh \in Seq(Blocks) /\ Len(lh) <= DataBlocks
    /\ op \in [Ops -> [at: {"out", "asleep", "in"}, wrote: SUBSET Blocks]]
    /\ phase \in [at: {"ready", "log", "install", "head", "down", "recover", "panic"},
                  tail: 0 .. DataBlocks]

(* What a crash at this moment leaves: the home blocks, under the blocks of a *)
(* log whose header is on the disk.                                           *)
AfterCrash == [b \in Blocks |->
                 IF b \in InLog(head)
                 THEN slot[CHOOSE i \in 1 .. Len(head) : head[i] = b]
                 ELSE home[b]]

Contents == IF Up THEN [b \in Blocks |-> Current(b)] ELSE AfterCrash

Promise == INSTANCE AtomicDisk WITH
             current <- Contents, durable <- AfterCrash, active <- Active

(* Operations reach the disk together and whole, or not at all, wherever the  *)
(* crash falls: in the log, between the header and the home blocks, or again  *)
(* during recovery; and no buffer that is recycled takes a change with it.    *)
CrashIsAtomic == Promise!Spec

(* Nobody sleeps in begin_op without an operation or a commit that will wake  *)
(* him at its end.                                                            *)
SleepersAreWoken ==
    (\E p \in Ops : op[p].at = "asleep") => Active # {} \/ phase.at # "ready"

(* What the operations under way have reserved and not used yet fits into     *)
(* LOGSIZE together with what has been logged.                                *)
Unused == UNION {{<<p, k>> : k \in Cardinality(op[p].wrote) + 1 .. MaxOpBlocks} :
                 p \in Active}
ReservationHolds == Len(lh) + Cardinality(Unused) <= LogSize
=============================================================================
