------------------------------ MODULE Evidence ------------------------------
(* The evidence of one agent: what its context path says it has read, while   *)
(* others write, patch, truncate, unlink and create the files behind it.      *)
(* Composes Context and FileVersions: read_file takes the content and the     *)
(* version of a file in one critical section of its inode, the next record of *)
(* the path carries them, and context_validate compares them with the table   *)
(* at any later time.                                                         *)
EXTENDS Context, FileVersions

ASSUME DepsAssumption == Deps \subseteq [inode: Inodes, version: Nat, stamp: Nat]

vars == <<contextVars, fileVars>>

\* A dependency; stamp is history, the content that was really read.
Dependency(i) == [inode |-> i, version |-> Current(i), stamp |-> stamp[i]]

Init == ContextInit /\ FileInit

\* tool_read_file: the inode is locked over the read and the version.
Read(i) ==
    /\ live[i]
    /\ ToolReads(Dependency(i))
    /\ Get(i)
    /\ UNCHANGED <<stamp, live, writer, silent, event, unaware>>

Next == \/ \E i \in Inodes : Read(i)
        \/ ContextOther /\ UNCHANGED fileVars
        \/ FileStep /\ UNCHANGED contextVars

Spec == Init /\ [][Next]_vars

----------------------------------------------------------------------------
\* agent_context_validate on a dependency: an entry for it exists since the
\* read, or there is no room for one, so the query changes nothing.
Verdict(dep) == IF dep = NoDep THEN "no_dep"
                ELSE IF Current(dep.inode) = 0 THEN "deleted"
                ELSE IF Current(dep.inode) # dep.version THEN "stale"
                ELSE "valid"

----------------------------------------------------------------------------
TypeOK ==
    /\ nodes \in Seq(Node) /\ Len(nodes) <= MaxNodes
    /\ pathLen \in 0 .. Capacity /\ first \in Nat /\ next \in Nat \ {0} /\ dropped \in Nat
    /\ odd \in BOOLEAN /\ torn \in BOOLEAN
    /\ pending \in Deps \cup {NoDep}
    /\ region \in [Units -> Nat]
    /\ header \in [odd: BOOLEAN, len: Nat, count: Nat, dropped: Nat, first: Nat, next: Nat]
    /\ ring \in [0 .. DigestMax - 1 -> [seq: Nat, prev: Nat]]
    /\ head \in 0 .. DigestMax - 1 /\ held \in 0 .. DigestMax
    /\ step \in {"idle", "tool", "made", "evict"}
    /\ record \in [seq: Nat, len: Nat, dep: Deps \cup {NoDep}, auto: BOOLEAN]
    /\ stamp \in [Inodes -> Nat] /\ live \in [Inodes -> BOOLEAN]
    /\ version \in [Inodes -> [used: BOOLEAN, number: Nat, deleted: BOOLEAN]]
    /\ writer \in [Writers -> [at: {"idle", "write", "patched", "report", "signal", "unlinked"},
                               inode: Inodes, wrote: BOOLEAN]]
    /\ silent \subseteq Inodes /\ event \in BOOLEAN /\ unaware \in BOOLEAN

(* The kernel's own arrays describe a path without holes: each record starts  *)
(* where the one before it ends, the first at 0, and the last ends at         *)
(* context_path_len, through any sequence of evictions, rollbacks, clears and *)
(* failed copies.  rollback computes the new length from them and eviction    *)
(* shifts them, in different code.                                            *)
NoHoles ==
    /\ \A i \in 1 .. Len(nodes) :
         nodes[i].off = IF i = 1 THEN 0 ELSE nodes[i - 1].off + nodes[i - 1].len
    /\ pathLen = IF nodes = <<>> THEN 0
                 ELSE nodes[Len(nodes)].off + nodes[Len(nodes)].len

(* Between two calls, as long as the region was there for every copy, the     *)
(* records carry the consecutive numbers first .. next - 1, so that the       *)
(* number a rollback continues with is one no record has; the bytes of the    *)
(* region are those of the records, moved by evictions as often as it took;   *)
(* and the header under its even generation says what the kernel keeps.       *)
PathIsShown ==
    step # "evict" /\ ~ torn =>
      /\ \A i \in 1 .. Len(nodes) : nodes[i].seq = first + i - 1
      /\ nodes # <<>> => next = first + Len(nodes)
      /\ \A i \in 1 .. Len(nodes), u \in Units :
           nodes[i].off < u /\ u <= nodes[i].off + nodes[i].len => region[u] = nodes[i].seq
      /\ header = Header(FALSE, pathLen, Len(nodes), dropped, first, next)
      /\ ~ odd

(* The digest ring vouches for the path: its chain verifies, the newest       *)
(* digest is the newest record's, and no digest is of a record that was       *)
(* rolled back; it may reach further back than the path, past evicted         *)
(* records, and no further than its size.                                     *)
DigestsVouch ==
    step # "evict" /\ ~ torn =>
      /\ Verified
      /\ held > 0 => /\ nodes # <<>>
                     /\ ring[(head + DigestMax - 1) % DigestMax].seq = next - 1
                     /\ \A k \in 1 .. held :
                          ring[(head + DigestMax - k) % DigestMax].seq = next - k

(* A verdict "valid" means that the file still is the object and has the      *)
(* content that was read, or that a change is on its way to the version       *)
(* table, or was one of those nobody reports (a first chunk cut short, a      *)
(* failed patch, O_TRUNC).  In particular no recycled inode and no number of  *)
(* the table ever make an old reading valid again.                            *)
VerdictSound ==
    \A i \in 1 .. Len(nodes) :
      LET dep == nodes[i].dep
      IN Verdict(dep) = "valid" =>
           \/ stamp[dep.inode] = dep.stamp
           \/ ReportComing(dep.inode) \/ dep.inode \in silent

(* After the last event the agent took, a newer version of the file it        *)
(* watches has another event pending or on its way, also when it is one of a  *)
(* file that was unlinked and created again: the early signal of patch_file,  *)
(* which precedes the version, is never the last word.  Only a version that   *)
(* says the file is gone may be the last and unheard of: sys_unlink writes it *)
(* and signals nobody.                                                        *)
WatcherHears ==
    unaware => \/ event
               \/ \E w \in Writers : writer[w] = At("signal", Watched, TRUE)
               \/ version[Watched].deleted
=============================================================================
