----------------------------- MODULE MCEvidence -----------------------------
(* An instance for TLC of what agents know of files: Evidence and QueryCache, *)
(* in three slices of their product: the whole of Context while no file       *)
(* changes; everything that happens to the files while the path stays short   *)
(* and in one piece; and the query cache while the other two rest.            *)
EXTENDS Evidence, QueryCache, TLC

CONSTANTS
    a1, a2, v1,
    ShortPath       \* bound: records handed out while files change

AllDeps == [inode: Inodes, version: 0 .. MaxStamp + 1, stamp: 0 .. MaxStamp]

Grouped == a1 :> 1 @@ a2 :> 2
TwoQueries == {[value |-> v1, scan |-> FALSE, public |-> FALSE],
               [value |-> v1, scan |-> TRUE, public |-> TRUE]}

FilesStill == /\ \A w \in Writers : writer[w] = Idle
              /\ \A i \in Inodes : stamp[i] = 0
              /\ \A i \in Inodes \ {Watched} : ~ version[i].used
              /\ ~ event
PathShort == /\ ~ torn /\ next <= ShortPath + 1
             /\ \A i \in Inodes \ {Watched} : /\ stamp[i] = 0
                                             /\ \A w \in Writers : writer[w].inode = Watched
             /\ record.len <= 1 /\ \A n \in 1 .. Len(nodes) : nodes[n].len = 1
Slices == FilesStill \/ PathShort

\* Which half of the product moves; chosen once, and the other half rests.
VARIABLE moving
allVars == <<vars, cacheVars, moving>>

SliceInit == /\ Init /\ CacheInit
             /\ moving \in {"evidence", "cache"}
             /\ moving = "evidence" => attr = [f \in Files |-> None]

SliceNext == /\ UNCHANGED moving
             /\ \/ /\ moving = "evidence" /\ UNCHANGED cacheVars
                   /\ \/ \E i \in Inodes : Read(i)
                      \/ ContextOther /\ UNCHANGED fileVars
                      \/ FileStep /\ UNCHANGED contextVars
                   /\ Slices'
                \/ moving = "cache" /\ CacheNext /\ UNCHANGED vars

SliceSpec == SliceInit /\ [][SliceNext]_allVars
=============================================================================
