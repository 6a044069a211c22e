----------------------------- MODULE MCStorage ------------------------------
(* An instance for TLC of the log under the file system and of the mappings   *)
(* of files: DiskLog, and Mmap with programs that unmap tidily.               *)
EXTENDS DiskLog, Mmap, TLC

CONSTANTS p1, p2, b1, b2, b3, b4

Symmetric == Permutations({p1, p2}) \cup Permutations({b1, b2, b3, b4})
Writable == {[shared |-> TRUE, write |-> TRUE]}

\* Which of the two moves; chosen once, and the other one rests.
VARIABLE moving
allVars == <<vars, mmapVars, moving>>

SliceInit == /\ Init /\ MmapInit
             /\ moving \in {"log", "mappings"}
             /\ moving # "log" => /\ home = [b \in Blocks |-> 0]
                                  /\ slot = [i \in 1 .. DataBlocks |-> 0]

SliceNext == /\ UNCHANGED moving
             /\ \/ moving = "log" /\ Next /\ UNCHANGED mmapVars
                \/ moving = "mappings" /\ TidyNext /\ UNCHANGED vars

SliceSpec == SliceInit /\ [][SliceNext]_allVars
=============================================================================
