----------------------------- MODULE ToolProofs -----------------------------
(* What tool calls may be trusted in.  The evidence a call leaves, for every  *)
(* number of files, writers, records, bytes and versions: the verdicts on     *)
(* what an agent has read, what its context path shows, what its digests      *)
(* vouch for, and what the watcher of a file hears; then the index and the    *)
(* query cache all agents share, for every number of agents, files and slots. *)
(* And the calls themselves: the dynamic tools keep what ToolCalls promises,  *)
(* for any number of processes, tools and slots.                              *)
EXTENDS Evidence, QueryCache, DynamicTools, TLAPS

(* The dependencies around: the one a tool call has left, the one of the      *)
(* record being pushed, those of the path.                                    *)
Around == {pending, record.dep} \cup {nodes[i].dep : i \in 1 .. Len(nodes)}

FileTypes ==
    /\ stamp \in [Inodes -> Nat] /\ live \in [Inodes -> BOOLEAN]
    /\ version \in [Inodes -> [used: BOOLEAN, number: Nat, deleted: BOOLEAN]]
    /\ writer \in [Writers -> [at: {"idle", "write", "patched", "report", "signal", "unlinked"},
                               inode: Inodes, wrote: BOOLEAN]]
    /\ silent \subseteq Inodes
    /\ \A i \in Inodes : ~ version[i].used => version[i] = NoEntry

DepTypes == Around \subseteq Deps \cup {NoDep}

(* The version table has gone on past the version of a dependency, or it has  *)
(* the same version and then the file is still the one that was read, unless  *)
(* a change of it is unreported.                                              *)
Unsettled(i) == ReportComing(i) \/ i \in silent
DepHolds(d) ==
    LET e == version[d.inode]
    IN /\ d.version <= e.number
       /\ ~ e.used => d.version = 0
       /\ e.used /\ ~ e.deleted /\ e.number = d.version =>
            \/ live[d.inode] /\ stamp[d.inode] = d.stamp
            \/ Unsettled(d.inode)
DepsHold == \A d \in Around : d \in Deps => DepHolds(d)

VerdictInv == FileTypes /\ DepTypes /\ DepsHold

----------------------------------------------------------------------------

LEMMA FindType ==
    ASSUME FileTypes, NEW i \in Inodes
    PROVE  /\ Find(i) \in [used: BOOLEAN, number: Nat, deleted: BOOLEAN]
           /\ version[i].used => Find(i) = version[i]
           /\ Current(i) \in Nat
           /\ version[i].number <= Find(i).number \/ ~ version[i].used
           /\ ~ Find(i).used => Current(i) = 0
BY DEF FileTypes, Find, Current, NoEntry

LEMMA VerdictFollows ==
    ASSUME VerdictInv
    PROVE  VerdictSound
<1> SUFFICES ASSUME NEW i \in 1 .. Len(nodes), Verdict(nodes[i].dep) = "valid"
             PROVE  \/ stamp[nodes[i].dep.inode] = nodes[i].dep.stamp
                    \/ ReportComing(nodes[i].dep.inode)
                    \/ nodes[i].dep.inode \in silent
    BY DEF VerdictSound
<1> DEFINE d == nodes[i].dep
<1>1. d \in Around /\ d # NoDep
    BY DEF Around, Verdict
<1>2. d \in Deps /\ DepHolds(d)
    BY <1>1 DEF VerdictInv, DepTypes, DepsHold
<1>3. d.inode \in Inodes /\ d.version \in Nat
    BY <1>2, DepsAssumption
<1>4. Current(d.inode) # 0 /\ Current(d.inode) = d.version
    BY <1>1 DEF Verdict
<1>5. version[d.inode].used
    BY <1>2, <1>3, <1>4 DEF DepHolds
<1>6. Find(d.inode) = version[d.inode]
    BY <1>3, <1>5, FindType DEF VerdictInv
<1>7. ~ version[d.inode].deleted /\ version[d.inode].number = d.version
    BY <1>4, <1>6 DEF Current
<1> QED
    BY <1>2, <1>5, <1>7 DEF DepHolds, Unsettled

----------------------------------------------------------------------------
(* The agent's own steps move dependencies about and make none.               *)

LEMMA PathKeepsDeps ==
    ASSUME nodes \in Seq(Node), ContextOther
    PROVE  Around' \subseteq Around \cup {NoDep}
<1>1. ASSUME nodes' = nodes, pending' \in Around \cup {NoDep},
             record'.dep \in Around \cup {NoDep}
      PROVE  Around' \subseteq Around \cup {NoDep}
    BY <1>1 DEF Around
<1>2. CASE ToolStart
    BY <1>1, <1>2 DEF ToolStart, path, Around
<1>3. CASE ToolRuns
    BY <1>1, <1>3 DEF ToolRuns, path, Around
<1>4. CASE NodeNotAllocated
    BY <1>1, <1>4 DEF NodeNotAllocated, path, Around, Quiet, NoRecord
<1>5. ASSUME NEW len \in Lengths, PushBegin(len)
      PROVE  Around' \subseteq Around \cup {NoDep}
  <2>1. nodes' = nodes /\ pending' = NoDep
    BY <1>5 DEF PushBegin, path
  <2>2. record' = NoRecord \/ record' = [seq |-> next, len |-> len, dep |-> pending,
                                         auto |-> step = "made"]
    BY <1>5 DEF PushBegin, Quiet
  <2> QED
    BY <1>1, <2>1, <2>2 DEF NoRecord, Around
<1>6. CASE EvictOldest
  <2>1. pending' = pending /\ record' = record
    BY <1>6 DEF EvictOldest
  <2>2. CASE nodes' = <<>>
    BY <2>1, <2>2 DEF Around
  <2>3. CASE nodes' = [i \in 1 .. Len(nodes) - 1 |-> MovedDown(nodes[i + 1], nodes[1].len)]
    <3>1. Len(nodes) \in Nat
      OBVIOUS
    <3>2. Len(nodes') = Len(nodes) - 1
      BY <2>3, <3>1, <1>6 DEF EvictOldest
    <3>3. \A i \in 1 .. Len(nodes') : nodes'[i].dep = nodes[i + 1].dep
      BY <2>3, <3>1, <3>2 DEF MovedDown
    <3> QED
      BY <2>1, <3>1, <3>2, <3>3 DEF Around
  <2> QED
    BY <1>6, <2>2, <2>3 DEF EvictOldest
<1>7. CASE PushEnd
  <2>1. pending' = pending /\ record'.dep = NoDep
    BY <1>7 DEF PushEnd, Quiet, NoRecord
  <2>2. nodes' = Append(nodes, [seq |-> record.seq, off |-> pathLen, len |-> record.len,
                                dep |-> record.dep, auto |-> record.auto])
    BY <1>7 DEF PushEnd
  <2> QED
    BY <2>1, <2>2 DEF Around
<1>8. CASE PushFails
    BY <1>1, <1>8 DEF PushFails, path, Around, Quiet, NoRecord
<1>9. CASE Clear
    BY <1>9 DEF Clear, Around
<1>10. CASE RollbackFails
    BY <1>1, <1>10 DEF RollbackFails, path, Around
<1>11. ASSUME NEW keep \in 1 .. MaxNodes, Rollback(keep)
       PROVE  Around' \subseteq Around \cup {NoDep}
    BY <1>11 DEF Rollback, Around
<1> QED
    BY <1>2, <1>3, <1>4, <1>5, <1>6, <1>7, <1>8, <1>9, <1>10, <1>11 DEF ContextOther
----------------------------------------------------------------------------
(* The kernel's arrays.  Besides NoHoles the invariant orders the records, as *)
(* a rollback to any of them takes its end for the new length.                *)

PathTypes ==
    /\ nodes \in Seq(Node) /\ Len(nodes) <= MaxNodes
    /\ pathLen \in 0 .. Capacity
    /\ next \in Nat /\ first \in Nat
    /\ pending \in Deps \cup {NoDep}
    /\ record \in [seq: Nat, len: Nat, dep: Deps \cup {NoDep}, auto: BOOLEAN]
    /\ step = "evict" => record.len \in 1 .. Capacity
InOrder == /\ \A i \in 1 .. Len(nodes) : \A j \in 1 .. i - 1 :
                nodes[j].off + nodes[j].len <= nodes[i].off
           /\ \A i \in 1 .. Len(nodes) : nodes[i].off + nodes[i].len <= pathLen
PathInv == PathTypes /\ NoHoles /\ InOrder

LEMMA PathInit == ContextInit => PathInv
BY ContextAssumption DEF ContextInit, PathInv, PathTypes, NoHoles, InOrder, NoRecord

LEMMA PathFrame ==
    ASSUME PathInv, nodes' = nodes, pathLen' = pathLen, next' \in Nat, first' \in Nat,
           pending' \in Deps \cup {NoDep},
           record' \in [seq: Nat, len: Nat, dep: Deps \cup {NoDep}, auto: BOOLEAN],
           step' = "evict" => record'.len \in 1 .. Capacity
    PROVE  PathInv'
BY DEF PathInv, PathTypes, NoHoles, InOrder

LEMMA PathEmpty ==
    ASSUME nodes' = <<>>, pathLen' = 0, next' \in Nat, first' \in Nat,
           pending' \in Deps \cup {NoDep},
           record' \in [seq: Nat, len: Nat, dep: Deps \cup {NoDep}, auto: BOOLEAN],
           step' = "evict" => record'.len \in 1 .. Capacity
    PROVE  PathInv'
BY ContextAssumption DEF PathInv, PathTypes, NoHoles, InOrder

LEMMA MovedTogether ==
    /\ \A a, b, c, g \in Nat : a + b <= c => (a - g) + b <= c - g
    /\ \A a, b, c, g \in Nat : c = a + b => c - g = (a - g) + b
OBVIOUS

LEMMA EvictKeepsPath ==
    ASSUME PathInv, EvictOldest
    PROVE  PathInv'
<1> DEFINE gone == nodes[1].len
<1>0. PathTypes /\ NoHoles /\ InOrder
    BY DEF PathInv
<1>1. /\ step = "evict" /\ step' = step /\ record' = record /\ pending' = pending
      /\ next' = next /\ nodes # <<>>
    BY DEF EvictOldest
<1>2. CASE nodes' = <<>> /\ pathLen' = 0 /\ first' = first
    BY <1>0, <1>1, <1>2, PathEmpty, <1>0 DEF PathTypes
<1>3. CASE /\ nodes' = [i \in 1 .. Len(nodes) - 1 |-> MovedDown(nodes[i + 1], gone)]
           /\ pathLen' = pathLen - gone /\ first' = first + 1
  <2>1. Len(nodes) \in Nat /\ Len(nodes) >= 1 /\ Len(nodes) <= MaxNodes
    BY <1>0, <1>1 DEF PathTypes
  <2>2. \A i \in 1 .. Len(nodes) : nodes[i] \in Node
    BY <1>0 DEF PathTypes
  <2>n. \A i \in 1 .. Len(nodes) : nodes[i].off \in Nat /\ nodes[i].len \in Nat
    BY <2>2 DEF Node
  <2>p. pathLen \in Nat /\ pathLen <= Capacity /\ Capacity \in Nat
    BY <1>0, ContextAssumption DEF PathTypes
  <2>3. /\ gone \in Nat /\ nodes[1].off = 0 /\ gone <= pathLen
    <3>1. 1 \in 1 .. Len(nodes)
      BY <2>1
    <3>2. nodes[1].off = 0
      BY <1>0, <3>1 DEF NoHoles
    <3>3. nodes[1].off + nodes[1].len <= pathLen
      BY <1>0, <3>1 DEF InOrder
    <3> QED
      BY <3>1, <3>2, <3>3, <2>n, <2>p
  <2>4. \A i \in 2 .. Len(nodes) : gone <= nodes[i].off
    BY <1>0, <2>1, <2>2, <2>3 DEF InOrder, Node
  <2>5. \A i \in 1 .. Len(nodes) - 1 : MovedDown(nodes[i + 1], gone) \in Node
    <3> SUFFICES ASSUME NEW i \in 1 .. Len(nodes) - 1
                 PROVE  MovedDown(nodes[i + 1], gone) \in Node
      OBVIOUS
    <3>1. i + 1 \in 2 .. Len(nodes) /\ i + 1 \in 1 .. Len(nodes)
      BY <2>1
    <3>2. nodes[i + 1] \in Node /\ gone <= nodes[i + 1].off
      BY <3>1, <2>2, <2>4
    <3> QED
      BY <3>2, <2>3 DEF MovedDown, Node
  <2>6. nodes' \in Seq(Node) /\ Len(nodes') = Len(nodes) - 1
    BY <1>3, <2>1, <2>5
  <2>7. \A i \in 1 .. Len(nodes') : /\ nodes'[i].off = nodes[i + 1].off - gone
                                    /\ nodes'[i].len = nodes[i + 1].len
    BY <1>3, <2>1, <2>6 DEF MovedDown
  <2>8. PathTypes'
    <3>1. pathLen' \in 0 .. Capacity
      BY <1>3, <2>3, <2>p
    <3>2. Len(nodes') <= MaxNodes /\ first' \in Nat
      BY <1>0, <1>3, <2>1, <2>6, ContextAssumption DEF PathTypes
    <3> QED
      BY <1>0, <1>1, <2>6, <3>1, <3>2 DEF PathTypes
  <2>9. InOrder'
    <3>1. ASSUME NEW i \in 1 .. Len(nodes'), NEW j \in 1 .. i - 1
          PROVE  nodes'[j].off + nodes'[j].len <= nodes'[i].off
      <4>1. i + 1 \in 1 .. Len(nodes) /\ j + 1 \in 1 .. (i + 1) - 1 /\ j \in 1 .. Len(nodes')
            /\ j + 1 \in 1 .. Len(nodes)
        BY <2>1, <2>6
      <4>2. nodes[j + 1].off + nodes[j + 1].len <= nodes[i + 1].off
        BY <1>0, <4>1 DEF InOrder
      <4>3. /\ nodes'[i].off = nodes[i + 1].off - gone
            /\ nodes'[j].off = nodes[j + 1].off - gone
            /\ nodes'[j].len = nodes[j + 1].len
        BY <4>1, <2>7
      <4>4. /\ nodes[i + 1].off \in Nat /\ nodes[j + 1].off \in Nat
            /\ nodes[j + 1].len \in Nat
        BY <4>1, <2>n
      <4>5. (nodes[j + 1].off - gone) + nodes[j + 1].len <= nodes[i + 1].off - gone
        BY <4>2, <4>4, <2>3, MovedTogether
      <4> QED
        BY <4>3, <4>5
    <3>2. ASSUME NEW i \in 1 .. Len(nodes')
          PROVE  nodes'[i].off + nodes'[i].len <= pathLen'
      <4>1. i + 1 \in 1 .. Len(nodes)
        BY <2>1, <2>6
      <4>2. nodes[i + 1].off + nodes[i + 1].len <= pathLen
        BY <1>0, <4>1 DEF InOrder
      <4>3. /\ nodes'[i].off = nodes[i + 1].off - gone /\ nodes'[i].len = nodes[i + 1].len
            /\ nodes[i + 1].off \in Nat /\ nodes[i + 1].len \in Nat
        BY <4>1, <2>7, <2>n
      <4> QED
        BY <4>2, <4>3, <1>3, <2>3, <2>p, MovedTogether, SMTT(30)
    <3> QED
      BY <1>0, <3>1, <3>2 DEF InOrder
  <2>10. NoHoles'
    <3>1. ASSUME NEW i \in 1 .. Len(nodes')
          PROVE  nodes'[i].off = IF i = 1 THEN 0 ELSE nodes'[i - 1].off + nodes'[i - 1].len
      <4>1. i + 1 \in 1 .. Len(nodes) /\ nodes[i + 1].off = nodes[i].off + nodes[i].len
            /\ i \in 1 .. Len(nodes)
        BY <1>0, <2>1, <2>6 DEF NoHoles
      <4>2. CASE i = 1
        BY <4>1, <4>2, <2>n, <2>3, <2>7
      <4>3. CASE i # 1
        <5>1. i - 1 \in 1 .. Len(nodes') /\ (i - 1) + 1 = i
          BY <4>3, <2>6, <2>1
        <5>2. nodes'[i - 1].off = nodes[i].off - gone /\ nodes'[i - 1].len = nodes[i].len
          BY <5>1, <2>7
        <5> QED
          BY <4>1, <4>3, <5>1, <5>2, <2>n, <2>3, <2>7
      <4> QED
        BY <4>2, <4>3
    <3>2. pathLen' = IF nodes' = <<>> THEN 0
                     ELSE nodes'[Len(nodes')].off + nodes'[Len(nodes')].len
      <4>1. pathLen = nodes[Len(nodes)].off + nodes[Len(nodes)].len
        BY <1>0, <1>1 DEF NoHoles
      <4>2. CASE Len(nodes) = 1
        <5>1. nodes' = <<>>
          BY <4>2, <2>6
        <5>2. pathLen = gone
          BY <4>1, <4>2, <2>3
        <5> QED
          BY <5>1, <5>2, <1>3, <2>3
      <4>3. CASE Len(nodes) > 1
        <5>1. Len(nodes') \in 1 .. Len(nodes') /\ Len(nodes') + 1 = Len(nodes) /\ nodes' # <<>>
          BY <4>3, <2>1, <2>6
        <5>2. /\ nodes'[Len(nodes')].off = nodes[Len(nodes)].off - gone
              /\ nodes'[Len(nodes')].len = nodes[Len(nodes)].len
          BY <5>1, <2>7
        <5>3. nodes[Len(nodes)].off \in Nat /\ nodes[Len(nodes)].len \in Nat
          BY <2>1, <2>n
        <5>4. pathLen - gone = (nodes[Len(nodes)].off - gone) + nodes[Len(nodes)].len
          BY <5>3, <4>1, <2>3, <2>p, MovedTogether
        <5> QED
          BY <5>1, <5>2, <5>4, <1>3
      <4>4. Len(nodes) = 1 \/ Len(nodes) > 1
        BY <2>1
      <4> QED
        BY <4>2, <4>3, <4>4
    <3> QED
      BY <1>0, <3>1, <3>2 DEF NoHoles
  <2> QED
    BY <2>8, <2>9, <2>10 DEF PathInv
<1> QED
    BY <1>2, <1>3 DEF EvictOldest

LEMMA PushEndKeepsPath ==
    ASSUME PathInv, PushEnd
    PROVE  PathInv'
<1> DEFINE n == [seq |-> record.seq, off |-> pathLen, len |-> record.len,
                 dep |-> record.dep, auto |-> record.auto]
<1>0. PathTypes /\ NoHoles /\ InOrder
    BY DEF PathInv
<1>1. /\ nodes' = Append(nodes, n) /\ pathLen' = pathLen + record.len
      /\ first' \in {record.seq, first} /\ next' = next /\ pending' = pending
      /\ step' = "idle" /\ record' = NoRecord
      /\ Len(nodes) < MaxNodes /\ pathLen + record.len <= Capacity
      /\ record.len \in 1 .. Capacity
    BY <1>0, ContextAssumption DEF PushEnd, Quiet, Full, PathTypes
<1>2. n \in Node
    BY <1>0 DEF PathTypes, Node
<1>3. Len(nodes) \in Nat /\ \A i \in 1 .. Len(nodes) : nodes[i] \in Node
    BY <1>0 DEF PathTypes
<1>4. /\ nodes' \in Seq(Node) /\ Len(nodes') = Len(nodes) + 1
      /\ \A i \in 1 .. Len(nodes) : nodes'[i] = nodes[i]
      /\ nodes'[Len(nodes) + 1] = n
    BY <1>0, <1>1, <1>2 DEF PathTypes
<1>5. PathTypes'
  <2>1. pathLen' \in 0 .. Capacity
    BY <1>0, <1>1, ContextAssumption DEF PathTypes
  <2>2. first' \in Nat /\ next' \in Nat /\ pending' \in Deps \cup {NoDep}
    BY <1>0, <1>1 DEF PathTypes
  <2>3. Len(nodes') <= MaxNodes
    BY <1>1, <1>3, <1>4, ContextAssumption
  <2> QED
    BY <1>1, <1>4, <2>1, <2>2, <2>3 DEF PathTypes, NoRecord
<1>6. InOrder'
  <2>1. ASSUME NEW i \in 1 .. Len(nodes'), NEW j \in 1 .. i - 1
        PROVE  nodes'[j].off + nodes'[j].len <= nodes'[i].off
    <3>1. CASE i \in 1 .. Len(nodes)
      BY <1>0, <3>1, <1>3, <1>4 DEF InOrder
    <3>2. CASE i = Len(nodes) + 1
      BY <1>0, <3>2, <1>3, <1>4 DEF InOrder
    <3> QED
      BY <3>1, <3>2, <1>3, <1>4
  <2>2. ASSUME NEW i \in 1 .. Len(nodes')
        PROVE  nodes'[i].off + nodes'[i].len <= pathLen'
    <3>1. CASE i \in 1 .. Len(nodes)
      <4>1. nodes[i].off + nodes[i].len <= pathLen /\ nodes[i].off \in Nat /\ nodes[i].len \in Nat
        BY <1>0, <3>1, <1>3 DEF InOrder, Node
      <4>2. nodes'[i] = nodes[i]
        BY <3>1, <1>4
      <4> QED
        BY <1>0, <4>1, <4>2, <1>1 DEF PathTypes
    <3>2. CASE i = Len(nodes) + 1
      BY <1>0, <3>2, <1>1, <1>4 DEF PathTypes
    <3> QED
      BY <3>1, <3>2, <1>3, <1>4
  <2> QED
    BY <1>0, <2>1, <2>2 DEF InOrder
<1>7. NoHoles'
  <2>1. nodes' # <<>> /\ pathLen' = nodes'[Len(nodes')].off + nodes'[Len(nodes')].len
    BY <1>1, <1>3, <1>4
  <2>2. ASSUME NEW i \in 1 .. Len(nodes')
        PROVE  nodes'[i].off = IF i = 1 THEN 0 ELSE nodes'[i - 1].off + nodes'[i - 1].len
    <3>1. CASE i \in 1 .. Len(nodes)
      <4>1. nodes[i].off = IF i = 1 THEN 0 ELSE nodes[i - 1].off + nodes[i - 1].len
        BY <1>0, <3>1 DEF NoHoles
      <4>2. i # 1 => i - 1 \in 1 .. Len(nodes)
        BY <3>1, <1>3
      <4> QED
        BY <3>1, <4>1, <4>2, <1>4
    <3>2. CASE i = Len(nodes) + 1 /\ i = 1
      BY <1>0, <3>2, <1>3, <1>4 DEF NoHoles
    <3>3. CASE i = Len(nodes) + 1 /\ i # 1
      <4>1. i - 1 = Len(nodes) /\ i - 1 \in 1 .. Len(nodes) /\ nodes # <<>>
        BY <3>3, <1>3
      <4> QED
        BY <1>0, <4>1, <3>3, <1>4 DEF NoHoles
    <3> QED
      BY <3>1, <3>2, <3>3, <1>3, <1>4
  <2> QED
    BY <1>0, <2>1, <2>2 DEF NoHoles
<1> QED
    BY <1>5, <1>6, <1>7 DEF PathInv

LEMMA RollbackKeepsPath ==
    ASSUME PathInv, NEW keep \in 1 .. MaxNodes, Rollback(keep)
    PROVE  PathInv'
<1>0. PathTypes /\ NoHoles /\ InOrder
    BY DEF PathInv
<1>1. /\ keep \in 1 .. Len(nodes) /\ nodes' = SubSeq(nodes, 1, keep)
      /\ pathLen' = nodes[keep].off + nodes[keep].len
      /\ first' = first /\ next' = first + keep /\ pending' = NoDep
      /\ step' = "idle" /\ record' = record
    BY DEF Rollback
<1>2. Len(nodes) \in Nat /\ nodes[keep] \in Node
    BY <1>0, <1>1 DEF PathTypes
<1>3. /\ nodes' \in Seq(Node) /\ Len(nodes') = keep
      /\ \A i \in 1 .. keep : nodes'[i] = nodes[i]
    BY <1>0, <1>1, <1>2 DEF PathTypes
<1>m. \A i \in 1 .. Len(nodes) : nodes[i] \in Node
    BY <1>0 DEF PathTypes
<1>n. \A i \in 1 .. Len(nodes) : nodes[i].off \in Nat /\ nodes[i].len \in Nat
    BY <1>m DEF Node
<1>4. pathLen' \in 0 .. Capacity
  <2>1. nodes[keep].off + nodes[keep].len <= pathLen
    BY <1>0, <1>1 DEF InOrder
  <2>2. nodes[keep].off \in Nat /\ nodes[keep].len \in Nat
    BY <1>1, <1>n
  <2>3. pathLen \in Nat /\ pathLen <= Capacity /\ Capacity \in Nat
    BY <1>0, ContextAssumption DEF PathTypes
  <2> QED
    BY <1>1, <2>1, <2>2, <2>3
<1>5. PathTypes'
    BY <1>0, <1>1, <1>2, <1>3, <1>4 DEF PathTypes
<1>6. InOrder'
  <2>1. ASSUME NEW i \in 1 .. keep, NEW j \in 1 .. i - 1
        PROVE  nodes'[j].off + nodes'[j].len <= nodes'[i].off
    <3>1. i \in 1 .. Len(nodes) /\ j \in 1 .. keep
      BY <1>1, <1>2
    <3> QED
      BY <1>0, <3>1, <1>3 DEF InOrder
  <2>2. ASSUME NEW i \in 1 .. keep
        PROVE  nodes'[i].off + nodes'[i].len <= pathLen'
    <3>1. i \in 1 .. Len(nodes) /\ nodes'[i] = nodes[i]
      BY <1>1, <1>2, <1>3
    <3>2. CASE i = keep
      BY <3>1, <3>2, <1>1, <1>n
    <3>3. CASE i # keep
      <4>1. i \in 1 .. keep - 1
        BY <3>3
      <4>2. nodes[i].off + nodes[i].len <= nodes[keep].off
        BY <1>0, <4>1, <1>1 DEF InOrder
      <4> QED
        BY <3>1, <4>2, <1>1, <1>n, SMTT(30)
    <3> QED
      BY <3>2, <3>3
  <2> QED
    BY <1>0, <2>1, <2>2, <1>3 DEF InOrder
<1>7. NoHoles'
  <2>1. nodes' # <<>> /\ pathLen' = nodes'[Len(nodes')].off + nodes'[Len(nodes')].len
    BY <1>1, <1>2, <1>3
  <2>2. ASSUME NEW i \in 1 .. keep
        PROVE  nodes'[i].off = IF i = 1 THEN 0 ELSE nodes'[i - 1].off + nodes'[i - 1].len
    <3>1. i \in 1 .. Len(nodes) /\ (i # 1 => i - 1 \in 1 .. keep)
      BY <1>1, <1>2
    <3>2. nodes[i].off = IF i = 1 THEN 0 ELSE nodes[i - 1].off + nodes[i - 1].len
      BY <1>0, <3>1 DEF NoHoles
    <3> QED
      BY <3>1, <3>2, <1>3
  <2> QED
    BY <2>1, <2>2, <1>3 DEF NoHoles
<1> QED
    BY <1>5, <1>6, <1>7 DEF PathInv

LEMMA AgentKeepsPath ==
    ASSUME PathInv, ContextOther
    PROVE  PathInv'
<1>0. PathTypes
    BY DEF PathInv
<1>1. CASE ToolStart
    BY <1>0, <1>1, PathFrame DEF ToolStart, path, PathTypes
<1>2. CASE ToolRuns
    BY <1>0, <1>2, PathFrame DEF ToolRuns, path, PathTypes
<1>3. CASE NodeNotAllocated
    BY <1>0, <1>3, PathFrame DEF NodeNotAllocated, path, PathTypes, Quiet, NoRecord
<1>4. ASSUME NEW len \in Lengths, PushBegin(len)
      PROVE  PathInv'
  <2>1. /\ nodes' = nodes /\ pathLen' = pathLen /\ first' = first /\ pending' = NoDep
        /\ next' \in {next, next + 1}
    BY <1>4 DEF PushBegin, path
  <2>2. \/ record' = NoRecord /\ step' = "idle"
        \/ ~ (len > Capacity) /\ record' = [seq |-> next, len |-> len, dep |-> pending,
                                         auto |-> step = "made"]
    BY <1>4, Zenon DEF PushBegin, Quiet
  <2>3. ~ (len > Capacity) => len \in 1 .. Capacity
    BY ContextAssumption
  <2>4. record' \in [seq: Nat, len: Nat, dep: Deps \cup {NoDep}, auto: BOOLEAN]
    <3>1. NoRecord \in [seq: Nat, len: Nat, dep: Deps \cup {NoDep}, auto: BOOLEAN]
      BY DEF NoRecord
    <3>2. \A b \in BOOLEAN : [seq |-> next, len |-> len, dep |-> pending, auto |-> b]
                              \in [seq: Nat, len: Nat, dep: Deps \cup {NoDep}, auto: BOOLEAN]
      BY <1>0, ContextAssumption DEF PathTypes
    <3>3. (step = "made") \in BOOLEAN
      OBVIOUS
    <3> QED
      BY <2>2, <3>1, <3>2, <3>3, Zenon
  <2>5. step' = "evict" => record'.len \in 1 .. Capacity
    BY <2>2, <2>3
  <2> QED
    BY <1>0, <2>1, <2>4, <2>5, PathFrame DEF PathTypes
<1>5. CASE EvictOldest
    BY <1>5, EvictKeepsPath
<1>6. CASE PushEnd
    BY <1>6, PushEndKeepsPath
<1>7. CASE PushFails
    BY <1>0, <1>7, PathFrame DEF PushFails, path, PathTypes, Quiet, NoRecord
<1>8. CASE Clear
    BY <1>0, <1>8, PathEmpty DEF Clear, PathTypes
<1>9. CASE RollbackFails
    BY <1>0, <1>9, PathFrame DEF RollbackFails, path, PathTypes
<1>10. ASSUME NEW keep \in 1 .. MaxNodes, Rollback(keep)
       PROVE  PathInv'
    BY <1>10, RollbackKeepsPath
<1> QED
    BY <1>1, <1>2, <1>3, <1>4, <1>5, <1>6, <1>7, <1>8, <1>9, <1>10 DEF ContextOther

LEMMA PathNext ==
    ASSUME PathInv, [Next]_vars
    PROVE  PathInv'
<1>0. PathTypes
    BY DEF PathInv
<1>1. ASSUME NEW i \in Inodes, Read(i)
      PROVE  PathInv'
    BY <1>0, <1>1, PathFrame DEF Read, ToolReads, path, PathTypes
<1>2. CASE ContextOther
    BY <1>2, AgentKeepsPath
<1>3. CASE UNCHANGED contextVars
    BY <1>0, <1>3, PathFrame DEF contextVars, PathTypes
<1> QED
    BY <1>1, <1>2, <1>3 DEF Next, vars

(* The arrays of the kernel describe a path without holes, for any capacity,  *)
(* any number of nodes and any lengths of records: evictions shift, rollbacks *)
(* cut and failed copies throw away, and what is left is one run of bytes.    *)
THEOREM PathHasNoHoles == Spec => []NoHoles
<1>1. Init => PathInv
    BY PathInit DEF Init
<1>2. PathInv /\ [Next]_vars => PathInv'
    BY PathNext
<1>3. PathInv => NoHoles
    BY DEF PathInv
<1> QED
    BY <1>1, <1>2, <1>3, PTL DEF Spec

----------------------------------------------------------------------------
(* The files.  A step of the files keeps every dependency in order if it      *)
(* leaves the inode of the dependency alone, or bumps its version, or changes *)
(* the file and leaves a report behind.                                       *)

FilesDepHold(d) ==
    LET i == d.inode
    IN \/ /\ version'[i] = version[i]
          /\ \/ Unsettled(i)'
             \/ ~ Unsettled(i) /\ stamp'[i] = stamp[i] /\ live'[i] = live[i]
             \/ ~ Unsettled(i) /\ ~ live[i]
       \/ /\ version'[i].used => version'[i].number > version[i].number
          /\ version[i].used => version'[i].used
          /\ version'[i].number >= version[i].number
          /\ version'[i].used \/ d.version = 0

LEMMA DepFollows ==
    ASSUME FileTypes, FileTypes', NEW d \in Deps, DepHolds(d), FilesDepHold(d)
    PROVE  DepHolds(d)'
<1>1. d.inode \in Inodes /\ d.version \in Nat
    BY DepsAssumption
<1>2. /\ version[d.inode].number \in Nat /\ version'[d.inode].number \in Nat
    BY <1>1 DEF FileTypes
<1> QED
    BY <1>1, <1>2 DEF FilesDepHold, DepHolds

(* One writer moves: nobody else's report is lost.                            *)
Reporting(x) == x.at \in {"write", "patched", "report", "unlinked"} /\ x.wrote

LEMMA ReportsAfter ==
    ASSUME FileTypes, NEW w \in Writers, NEW x, Goto(w, x), NEW i \in Inodes
    PROVE  /\ x.inode = i /\ Reporting(x) => ReportComing(i)'
           /\ writer[w].inode # i \/ ~ Reporting(writer[w]) \/ (x.inode = i /\ Reporting(x))
                => (ReportComing(i) => ReportComing(i)')
           /\ ~ (x.inode = i /\ Reporting(x)) => (ReportComing(i)' => ReportComing(i))
<1>1. \A v \in Writers : writer'[v] = IF v = w THEN x ELSE writer[v]
    BY DEF Goto, FileTypes
<1>2. ReportComing(i) <=> \E v \in Writers : writer[v].inode = i /\ Reporting(writer[v])
    BY DEF ReportComing, Reporting
<1>3. ReportComing(i)' <=> \E v \in Writers : writer'[v].inode = i /\ Reporting(writer'[v])
    BY DEF ReportComing, Reporting
<1> QED
    BY <1>1, <1>2, <1>3

WriterType == [at: {"idle", "write", "patched", "report", "signal", "unlinked"},
               inode: Inodes, wrote: BOOLEAN]

LEMMA FileTypesKept ==
    ASSUME FileTypes, FileStep
    PROVE  FileTypes'
<1> USE DEF FileTypes
<1>w. Watched \in Inodes
    BY FileVersionsAssumption
<1>t. \A w \in Writers : /\ writer[w] \in WriterType /\ writer[w].inode \in Inodes
                         /\ writer[w].wrote \in BOOLEAN
    BY DEF WriterType
<1>g. ASSUME NEW w \in Writers, NEW x \in WriterType, Goto(w, x)
      PROVE  writer' \in [Writers -> WriterType]
    BY <1>g DEF Goto, WriterType
<1>a. /\ Idle \in WriterType
      /\ \A i \in Inodes : /\ At("write", i, FALSE) \in WriterType
                           /\ At("write", i, TRUE) \in WriterType
                           /\ At("patched", i, TRUE) \in WriterType
                           /\ At("report", i, TRUE) \in WriterType
                           /\ At("signal", i, TRUE) \in WriterType
                           /\ At("unlinked", i, TRUE) \in WriterType
    BY <1>w DEF Idle, At, WriterType
<1>c. ASSUME NEW i \in Inodes, Change(i)
      PROVE  stamp' \in [Inodes -> Nat]
    BY <1>c DEF Change
<1>v. ASSUME NEW i \in Inodes, NEW gone \in BOOLEAN,
             version' = [version EXCEPT ![i] = Bumped(i, gone)]
      PROVE  /\ version' \in [Inodes -> [used: BOOLEAN, number: Nat, deleted: BOOLEAN]]
             /\ \A j \in Inodes : ~ version'[j].used => version'[j] = NoEntry
  <2>1. Find(i).number \in Nat
    BY FindType
  <2>2. Bumped(i, gone) \in [used: BOOLEAN, number: Nat, deleted: BOOLEAN]
    BY <2>1 DEF Bumped, NoEntry
  <2>3. ~ Bumped(i, gone).used => Bumped(i, gone) = NoEntry
    BY DEF Bumped
  <2> QED
    BY <1>v, <2>2, <2>3
<1>1. ASSUME NEW w \in Writers, NEW i \in Inodes, Open(w, i)
      PROVE  FileTypes'
    BY <1>1, <1>a, <1>g DEF Open, WriterType
<1>2. ASSUME NEW w \in Writers, WriteChunk(w)
      PROVE  FileTypes'
    BY <1>2, <1>a, <1>g, <1>t, <1>c DEF WriteChunk, WriterType
<1>3. ASSUME NEW w \in Writers, WriteEnd(w)
      PROVE  FileTypes'
    BY <1>3, <1>a, <1>g, <1>t DEF WriteEnd, WriterType
<1>4. ASSUME NEW w \in Writers, ShortChunk(w)
      PROVE  FileTypes'
  <2>1. CASE writer[w].wrote
    BY <1>4, <2>1, <1>a, <1>g, <1>t, <1>c DEF ShortChunk, WriterType
  <2>2. CASE ~ writer[w].wrote
    BY <1>4, <2>2, <1>a, <1>g, <1>t, <1>c DEF ShortChunk, WriterType
  <2> QED
    BY <2>1, <2>2
<1>5. ASSUME NEW w \in Writers, NEW i \in Inodes, Patch(w, i)
      PROVE  FileTypes'
    BY <1>5, <1>a, <1>g, <1>c DEF Patch, WriterType
<1>6. ASSUME NEW w \in Writers, NEW i \in Inodes, PatchFails(w, i)
      PROVE  FileTypes'
    BY <1>6, <1>c DEF PatchFails
<1>7. ASSUME NEW w \in Writers, ContentChanged(w)
      PROVE  FileTypes'
    BY <1>7, <1>a, <1>g, <1>t DEF ContentChanged, WriterType
<1>8. ASSUME NEW w \in Writers, NotifyBump(w)
      PROVE  FileTypes'
    BY <1>8, <1>a, <1>g, <1>t, <1>v DEF NotifyBump, Bump, WriterType
<1>9. ASSUME NEW w \in Writers, NotifySignal(w)
      PROVE  FileTypes'
    BY <1>9, <1>a, <1>g DEF NotifySignal, WriterType
<1>10. ASSUME NEW w \in Writers, NEW i \in Inodes, Unlink(w, i)
       PROVE  FileTypes'
    BY <1>10, <1>a, <1>g, <1>c DEF Unlink, WriterType
<1>11. ASSUME NEW w \in Writers, UnlinkRemove(w)
       PROVE  FileTypes'
    BY <1>11, <1>a, <1>g, <1>t, <1>v DEF UnlinkRemove, Removed, WriterType
<1>12. ASSUME NEW i \in Inodes, Create(i)
       PROVE  FileTypes'
    BY <1>12, <1>c DEF Create
<1>13. ASSUME NEW i \in Inodes, Truncate(i)
       PROVE  FileTypes'
    BY <1>13, <1>c DEF Truncate
<1>14. CASE TakeEvent
    BY <1>14 DEF TakeEvent
<1> QED
    BY <1>1, <1>2, <1>3, <1>4, <1>5, <1>6, <1>7, <1>8, <1>9, <1>10, <1>11, <1>12, <1>13,
       <1>14 DEF FileStep, WriterStep

LEMMA FilesKeepDep ==
    ASSUME FileTypes, FileStep, NEW d \in Deps, DepHolds(d)
    PROVE  FilesDepHold(d)
<1> DEFINE j == d.inode
<1>j. j \in Inodes /\ d.version \in Nat
    BY DepsAssumption
<1>t. \A w \in Writers : writer[w].inode \in Inodes /\ writer[w].wrote \in BOOLEAN
    BY DEF FileTypes
<1>s. ASSUME NEW i \in Inodes, Change(i)
      PROVE  stamp'[j] = stamp[j] \/ j = i
    BY <1>s, <1>j DEF Change, FileTypes
<1>u. Unsettled(j) <=> ReportComing(j) \/ j \in silent
    BY DEF Unsettled
<1>v. Unsettled(j)' <=> ReportComing(j)' \/ j \in silent'
    BY DEF Unsettled
<1>b. ASSUME NEW i \in Inodes, NEW gone \in BOOLEAN,
             version' = [version EXCEPT ![i] = Bumped(i, gone)]
      PROVE  \/ j = i /\ FilesDepHold(d)
             \/ j # i /\ version'[j] = version[j]
  <2>1. CASE j # i
    BY <2>1, <1>b, <1>j DEF FileTypes
  <2>2. CASE j = i /\ version[j].used
    <3>1. version'[j].number = version[j].number + 1 /\ version'[j].used
      BY <2>2, <1>b, <1>j DEF FileTypes, Bumped, Find
    <3> QED
      BY <2>2, <3>1, <1>j DEF FilesDepHold, FileTypes
  <2>3. CASE j = i /\ ~ version[j].used
    <3>1. version[j].number = 0 /\ d.version = 0
      BY <2>3, <1>j DEF FileTypes, NoEntry, DepHolds
    <3>2. \/ version'[j].used /\ version'[j].number = 2
          \/ ~ version'[j].used /\ version'[j].number = 0
      BY <2>3, <1>b, <1>j DEF FileTypes, Bumped, Find, NoEntry
    <3> QED
      BY <2>3, <3>1, <3>2 DEF FilesDepHold
  <2> QED
    BY <2>1, <2>2, <2>3
<1>1. ASSUME NEW w \in Writers, NEW i \in Inodes, Open(w, i)
      PROVE  FilesDepHold(d)
  <2>1. Goto(w, At("write", i, FALSE)) /\ writer[w].at = "idle"
    BY <1>1 DEF Open
  <2>2. ReportComing(j) <=> ReportComing(j)'
    BY <2>1, <1>j, ReportsAfter DEF At, Reporting
  <2> QED
    BY <1>1, <2>2, <1>u, <1>v DEF Open, FilesDepHold
<1>2. ASSUME NEW w \in Writers, WriteChunk(w)
      PROVE  FilesDepHold(d)
  <2>1. Goto(w, At("write", writer[w].inode, TRUE)) /\ writer[w].at = "write"
    BY <1>2 DEF WriteChunk
  <2>2. /\ j = writer[w].inode => ReportComing(j)'
        /\ j # writer[w].inode => (ReportComing(j) <=> ReportComing(j)')
    BY <2>1, <1>j, ReportsAfter DEF At, Reporting
  <2> QED
    BY <1>2, <2>2, <1>u, <1>v, <1>s, <1>t DEF WriteChunk, FilesDepHold
<1>3. ASSUME NEW w \in Writers, WriteEnd(w)
      PROVE  FilesDepHold(d)
  <2>1. CASE writer[w].wrote
    <3>1. Goto(w, At("report", writer[w].inode, TRUE)) /\ writer[w].at = "write"
      BY <1>3, <2>1 DEF WriteEnd
    <3>2. /\ j = writer[w].inode => ReportComing(j)'
          /\ j # writer[w].inode => (ReportComing(j) <=> ReportComing(j)')
      BY <3>1, <1>j, ReportsAfter DEF At, Reporting
    <3> QED
      BY <1>3, <3>2, <1>u, <1>v DEF WriteEnd, FilesDepHold
  <2>2. CASE ~ writer[w].wrote
    <3>1. Goto(w, Idle)
      BY <1>3, <2>2 DEF WriteEnd
    <3>2. ReportComing(j) <=> ReportComing(j)'
      BY <2>2, <3>1, <1>j, ReportsAfter DEF Idle, Reporting
    <3> QED
      BY <1>3, <3>2, <1>u, <1>v DEF WriteEnd, FilesDepHold
  <2> QED
    BY <2>1, <2>2
<1>4. ASSUME NEW w \in Writers, ShortChunk(w)
      PROVE  FilesDepHold(d)
  <2>1. CASE writer[w].wrote
    <3>1. Goto(w, At("report", writer[w].inode, TRUE)) /\ writer[w].at = "write"
      BY <1>4, <2>1 DEF ShortChunk
    <3>2. /\ j = writer[w].inode => ReportComing(j)'
          /\ j # writer[w].inode => (ReportComing(j) <=> ReportComing(j)')
      BY <3>1, <1>j, ReportsAfter DEF At, Reporting
    <3> QED
      BY <1>4, <2>1, <3>2, <1>u, <1>v, <1>s, <1>t DEF ShortChunk, FilesDepHold
  <2>2. CASE ~ writer[w].wrote
    <3>1. Goto(w, Idle)
      BY <1>4, <2>2 DEF ShortChunk
    <3>2. ReportComing(j) <=> ReportComing(j)'
      BY <2>2, <3>1, <1>j, ReportsAfter DEF Idle, Reporting
    <3> QED
      BY <1>4, <2>2, <3>2, <1>u, <1>v, <1>s, <1>t DEF ShortChunk, FilesDepHold
  <2> QED
    BY <2>1, <2>2
<1>5. ASSUME NEW w \in Writers, NEW i \in Inodes, Patch(w, i)
      PROVE  FilesDepHold(d)
  <2>1. Goto(w, At("patched", i, TRUE)) /\ writer[w].at = "idle"
    BY <1>5 DEF Patch
  <2>2. /\ j = i => ReportComing(j)'
        /\ j # i => (ReportComing(j) <=> ReportComing(j)')
    BY <2>1, <1>j, ReportsAfter DEF At, Reporting
  <2> QED
    BY <1>5, <2>2, <1>u, <1>v, <1>s DEF Patch, FilesDepHold
<1>6. ASSUME NEW w \in Writers, NEW i \in Inodes, PatchFails(w, i)
      PROVE  FilesDepHold(d)
  <2>1. ReportComing(j) <=> ReportComing(j)'
    BY <1>6 DEF PatchFails, ReportComing
  <2> QED
    BY <1>6, <2>1, <1>u, <1>v, <1>s DEF PatchFails, FilesDepHold
<1>7. ASSUME NEW w \in Writers, ContentChanged(w)
      PROVE  FilesDepHold(d)
  <2>1. Goto(w, At("report", writer[w].inode, TRUE)) /\ writer[w].at = "patched"
    BY <1>7 DEF ContentChanged
  <2>2. /\ j = writer[w].inode => ReportComing(j)'
        /\ j # writer[w].inode => (ReportComing(j) <=> ReportComing(j)')
    BY <2>1, <1>j, ReportsAfter DEF At, Reporting
  <2> QED
    BY <1>7, <2>2, <1>u, <1>v DEF ContentChanged, FilesDepHold
<1>8. ASSUME NEW w \in Writers, NotifyBump(w)
      PROVE  FilesDepHold(d)
  <2>1. Goto(w, At("signal", writer[w].inode, TRUE))
    BY <1>8 DEF NotifyBump
  <2>2. j # writer[w].inode => (ReportComing(j) <=> ReportComing(j)')
    BY <2>1, <1>j, ReportsAfter DEF At, Reporting
  <2>3. version' = [version EXCEPT ![writer[w].inode] = Bumped(writer[w].inode, FALSE)]
    BY <1>8 DEF NotifyBump, Bump
  <2>4. \/ j = writer[w].inode /\ FilesDepHold(d)
        \/ j # writer[w].inode /\ version'[j] = version[j]
    BY <2>3, <1>b, <1>t
  <2> QED
    BY <1>8, <2>2, <2>4, <1>u, <1>v DEF NotifyBump, FilesDepHold
<1>9. ASSUME NEW w \in Writers, NotifySignal(w)
      PROVE  FilesDepHold(d)
  <2>1. Goto(w, Idle) /\ writer[w].at = "signal"
    BY <1>9 DEF NotifySignal
  <2>2. ReportComing(j) <=> ReportComing(j)'
    BY <2>1, <1>j, ReportsAfter DEF Idle, Reporting
  <2> QED
    BY <1>9, <2>2, <1>u, <1>v DEF NotifySignal, FilesDepHold
<1>10. ASSUME NEW w \in Writers, NEW i \in Inodes, Unlink(w, i)
       PROVE  FilesDepHold(d)
  <2>1. Goto(w, At("unlinked", i, TRUE)) /\ writer[w].at = "idle"
    BY <1>10 DEF Unlink
  <2>2. /\ j = i => ReportComing(j)'
        /\ j # i => (ReportComing(j) <=> ReportComing(j)')
    BY <2>1, <1>j, ReportsAfter DEF At, Reporting
  <2>3. j # i => live'[j] = live[j]
    BY <1>10, <1>j DEF Unlink, FileTypes
  <2> QED
    BY <1>10, <2>2, <2>3, <1>u, <1>v, <1>s DEF Unlink, FilesDepHold
<1>11. ASSUME NEW w \in Writers, UnlinkRemove(w)
       PROVE  FilesDepHold(d)
  <2>1. Goto(w, Idle)
    BY <1>11 DEF UnlinkRemove
  <2>2. j # writer[w].inode => (ReportComing(j) <=> ReportComing(j)')
    BY <2>1, <1>j, ReportsAfter DEF Idle, Reporting
  <2>3. version' = [version EXCEPT ![writer[w].inode] = Bumped(writer[w].inode, TRUE)]
    BY <1>11 DEF UnlinkRemove, Removed
  <2>4. \/ j = writer[w].inode /\ FilesDepHold(d)
        \/ j # writer[w].inode /\ version'[j] = version[j]
    BY <2>3, <1>b, <1>t
  <2> QED
    BY <1>11, <2>2, <2>4, <1>u, <1>v DEF UnlinkRemove, FilesDepHold
<1>12. ASSUME NEW i \in Inodes, Create(i)
       PROVE  FilesDepHold(d)
  <2>1. ReportComing(j) <=> ReportComing(j)'
    BY <1>12 DEF Create, ReportComing
  <2>2. j # i => live'[j] = live[j]
    BY <1>12, <1>j DEF Create, FileTypes
  <2> QED
    BY <1>12, <2>1, <2>2, <1>u, <1>v, <1>s DEF Create, FilesDepHold
<1>13. ASSUME NEW i \in Inodes, Truncate(i)
       PROVE  FilesDepHold(d)
  <2>1. ReportComing(j) <=> ReportComing(j)'
    BY <1>13 DEF Truncate, ReportComing
  <2> QED
    BY <1>13, <2>1, <1>u, <1>v, <1>s DEF Truncate, FilesDepHold
<1>14. CASE TakeEvent
  <2>1. ReportComing(j) <=> ReportComing(j)'
    BY <1>14 DEF TakeEvent, ReportComing
  <2> QED
    BY <1>14, <2>1, <1>u, <1>v DEF TakeEvent, FilesDepHold
<1> QED
    BY <1>1, <1>2, <1>3, <1>4, <1>5, <1>6, <1>7, <1>8, <1>9, <1>10, <1>11, <1>12, <1>13,
       <1>14 DEF FileStep, WriterStep

----------------------------------------------------------------------------
LEMMA VerdictInit == Init => VerdictInv
<1> SUFFICES ASSUME Init
             PROVE  VerdictInv
    OBVIOUS
<1>1. Around = {NoDep}
    BY DEF Init, ContextInit, Around, NoRecord
<1>2. FileTypes
    BY FileVersionsAssumption DEF Init, FileInit, FileTypes, NoEntry, Idle
<1> QED
    BY <1>1, <1>2, ContextAssumption DEF VerdictInv, DepTypes, DepsHold

LEMMA VerdictNext ==
    ASSUME VerdictInv, PathInv, [Next]_vars
    PROVE  VerdictInv'
<1>0. FileTypes /\ DepTypes /\ DepsHold
    BY DEF VerdictInv
<1>1. CASE ContextOther /\ UNCHANGED fileVars
  <2>1. Around' \subseteq Around \cup {NoDep}
    BY <1>1, PathKeepsDeps DEF PathInv, PathTypes
  <2>2. \A d \in Deps : DepHolds(d) => DepHolds(d)'
    BY <1>1 DEF fileVars, DepHolds, Unsettled, ReportComing
  <2>3. FileTypes'
    BY <1>0, <1>1 DEF fileVars, FileTypes
  <2> QED
    BY <1>0, <2>1, <2>2, <2>3, ContextAssumption DEF VerdictInv, DepTypes, DepsHold
<1>2. CASE FileStep /\ UNCHANGED contextVars
  <2>1. Around' = Around
    BY <1>2 DEF contextVars, Around
  <2>2. FileTypes'
    BY <1>0, <1>2, FileTypesKept
  <2>3. \A d \in Deps : DepHolds(d) => DepHolds(d)'
    BY <1>0, <1>2, <2>2, FilesKeepDep, DepFollows
  <2> QED
    BY <1>0, <2>1, <2>2, <2>3 DEF VerdictInv, DepTypes, DepsHold
<1>3. ASSUME NEW i \in Inodes, Read(i)
      PROVE  VerdictInv'
  <2>1. Around' \subseteq Around \cup {Dependency(i)} /\ Dependency(i) \in Deps
    BY <1>3 DEF Read, ToolReads, path, Around
  <2>2. /\ stamp' = stamp /\ live' = live /\ writer' = writer /\ silent' = silent
        /\ live[i] /\ version' = [version EXCEPT ![i] = Find(i)]
    BY <1>3 DEF Read, Get
  <2>3. /\ Find(i) \in [used: BOOLEAN, number: Nat, deleted: BOOLEAN]
        /\ version[i].used => Find(i) = version[i]
        /\ ~ Find(i).used => Find(i) = NoEntry
    BY <1>0, FindType DEF Find, NoEntry
  <2>4. FileTypes'
    BY <1>0, <2>2, <2>3 DEF FileTypes
  <2>5. \A k \in Inodes : Unsettled(k)' <=> Unsettled(k)
    BY <2>2 DEF Unsettled, ReportComing
  <2>6. ASSUME NEW d \in Deps, DepHolds(d)
        PROVE  DepHolds(d)'
    <3>1. d.inode \in Inodes /\ d.version \in Nat
      BY DepsAssumption
    <3>2. CASE d.inode # i \/ version[i].used
      <4>1. version'[d.inode] = version[d.inode]
        BY <1>0, <2>2, <2>3, <3>1, <3>2 DEF FileTypes
      <4> QED
        BY <4>1, <2>2, <2>5, <2>6, <3>1 DEF DepHolds
    <3>3. CASE d.inode = i /\ ~ version[i].used
      <4>1. d.version = 0 /\ version'[i] = Find(i)
        BY <1>0, <2>2, <2>6, <3>1, <3>3 DEF DepHolds, FileTypes
      <4>2. Find(i).number >= 0 /\ (Find(i).used => Find(i).number # 0)
        BY <3>3 DEF Find, NoEntry
      <4> QED
        BY <3>3, <4>1, <4>2 DEF DepHolds
    <3> QED
      BY <3>2, <3>3
  <2>7. ASSUME NEW d \in Deps, d = Dependency(i)
        PROVE  DepHolds(d)'
    <3>1. d.inode = i /\ d.version = Current(i) /\ d.stamp = stamp[i]
      BY <2>7 DEF Dependency
    <3>2. version'[i] = Find(i)
      BY <1>0, <2>2 DEF FileTypes
    <3> QED
      BY <2>2, <2>3, <3>1, <3>2 DEF DepHolds, Current, NoEntry
  <2>8. DepTypes'
    BY <1>0, <2>1 DEF DepTypes
  <2>9. ASSUME NEW d \in Around', d \in Deps
        PROVE  DepHolds(d)'
    BY <1>0, <2>1, <2>6, <2>7, <2>9 DEF DepsHold
  <2> QED
    BY <2>4, <2>8, <2>9 DEF VerdictInv, DepsHold
<1>4. CASE UNCHANGED vars
  <2>1. Around' = Around /\ FileTypes'
    BY <1>0, <1>4 DEF vars, contextVars, fileVars, Around, FileTypes
  <2>2. \A d \in Deps : DepHolds(d) => DepHolds(d)'
    BY <1>4 DEF vars, fileVars, DepHolds, Unsettled, ReportComing
  <2> QED
    BY <1>0, <2>1, <2>2 DEF VerdictInv, DepTypes, DepsHold
<1> QED
    BY <1>1, <1>2, <1>3, <1>4 DEF Next

(* A verdict "valid" of context_validate is never wrong but for a change that *)
(* is still on its way to the version table or that the code reports nowhere: *)
(* for any number of files, of concurrent writers, of versions, through       *)
(* recycled inodes and a version table that is full.                          *)
THEOREM ValidMeansUnchanged == Spec => []VerdictSound
<1>1. Init => PathInv /\ VerdictInv
    BY PathInit, VerdictInit DEF Init
<1>2. PathInv /\ VerdictInv /\ [Next]_vars => (PathInv /\ VerdictInv)'
    BY PathNext, VerdictNext
<1>3. VerdictInv => VerdictSound
    BY VerdictFollows
<1> QED
    BY <1>1, <1>2, <1>3, PTL DEF Spec

----------------------------------------------------------------------------
(* What the watching agent hears.                                             *)

LEMMA OthersKeepSignals ==
    ASSUME FileTypes, WatcherHears, NEW w \in Writers, NEW s,
           writer' = [writer EXCEPT ![w] = s],
           writer[w] # At("signal", Watched, TRUE),
           version[Watched].deleted => version'[Watched].deleted,
           event => event', unaware' => unaware
    PROVE  WatcherHears'
BY DEF FileTypes, WatcherHears, At

\* The entries of other inodes are left alone.
LEMMA OtherVersions ==
    ASSUME FileTypes, NEW i \in Inodes, NEW e, version' = [version EXCEPT ![i] = e]
    PROVE  /\ version'[i] = e
           /\ i # Watched => version'[Watched] = version[Watched]
BY FileVersionsAssumption DEF FileTypes

LEMMA WatcherStillHears ==
    ASSUME FileTypes, WatcherHears, FileStep
    PROVE  WatcherHears'
<1>1. ASSUME NEW w \in Writers,
             \/ WriteEnd(w) \/ WriteChunk(w) \/ ShortChunk(w)
             \/ ContentChanged(w)
             \/ \E i \in Inodes : Open(w, i) \/ Patch(w, i) \/ Unlink(w, i)
      PROVE  WatcherHears'
    BY <1>1, OthersKeepSignals
    DEF WriteEnd, WriteChunk, ShortChunk, ContentChanged, Open, Patch, Unlink, Goto, At
<1>6. ASSUME NEW w \in Writers, UnlinkRemove(w)
      PROVE  WatcherHears'
  <2>1. /\ writer' = [writer EXCEPT ![w] = Idle] /\ writer[w] # At("signal", Watched, TRUE)
        /\ version' = [version EXCEPT ![writer[w].inode] = Bumped(writer[w].inode, TRUE)]
        /\ event' = event
        /\ unaware' = (unaware \/ (writer[w].inode = Watched /\ Find(Watched).used))
    BY <1>6 DEF UnlinkRemove, Removed, Goto, At
  <2>2. writer[w].inode \in Inodes
    BY DEF FileTypes
  <2>3. CASE writer[w].inode = Watched
    <3>1. version'[Watched] = Bumped(Watched, TRUE)
      BY <2>1, <2>2, <2>3, OtherVersions
    <3>2. CASE Find(Watched).used
      BY <3>1, <3>2 DEF Bumped, WatcherHears
    <3>3. CASE ~ Find(Watched).used
      <4>1. ~ version[Watched].deleted
        BY <3>3, FileVersionsAssumption DEF Find, FileTypes, NoEntry
      <4>2. (event => event') /\ (unaware' => unaware)
        BY <2>1, <3>3, Zenon
      <4> QED
        BY <2>1, <4>1, <4>2, OthersKeepSignals
    <3> QED
      BY <3>2, <3>3
  <2>4. CASE writer[w].inode # Watched
    <3>1. version'[Watched] = version[Watched]
      BY <2>1, <2>2, <2>4, OtherVersions
    <3>2. (event => event') /\ (unaware' => unaware)
      BY <2>1, <2>4, Zenon
    <3> QED
      BY <2>1, <3>1, <3>2, OthersKeepSignals
  <2> QED
    BY <2>3, <2>4
<1>2. ASSUME NEW w \in Writers, NotifyBump(w)
      PROVE  WatcherHears'
  <2>1. writer' = [writer EXCEPT ![w] = At("signal", writer[w].inode, TRUE)]
    BY <1>2 DEF NotifyBump, Goto
  <2>2. writer[w].at = "report" /\ event' = event
        /\ unaware' = (unaware \/ writer[w].inode = Watched)
        /\ version' = [version EXCEPT ![writer[w].inode] = Bumped(writer[w].inode, FALSE)]
        /\ writer[w].inode \in Inodes
    BY <1>2 DEF NotifyBump, Bump, FileTypes
  <2>3. CASE writer[w].inode = Watched
    <3>1. writer'[w] = At("signal", Watched, TRUE)
      BY <2>1, <2>3 DEF FileTypes
    <3> QED
      BY <3>1 DEF WatcherHears
  <2>4. CASE writer[w].inode # Watched
    <3>1. writer[w] # At("signal", Watched, TRUE)
      BY <2>2 DEF At
    <3>2. (event => event') /\ (unaware' => unaware)
      BY <2>2, <2>4, Zenon
    <3>3. version'[Watched] = version[Watched]
      BY <2>2, <2>4, OtherVersions
    <3> QED
      BY <2>1, <3>1, <3>2, <3>3, OthersKeepSignals
  <2> QED
    BY <2>3, <2>4
<1>3. ASSUME NEW w \in Writers, NotifySignal(w)
      PROVE  WatcherHears'
  <2>1. CASE writer[w].inode = Watched
    BY <1>3, <2>1 DEF NotifySignal, WatcherHears
  <2>2. CASE writer[w].inode # Watched
    <3>1. writer' = [writer EXCEPT ![w] = Idle] /\ writer[w] # At("signal", Watched, TRUE)
      BY <1>3, <2>2 DEF NotifySignal, Goto, At
    <3>2. (event => event') /\ (unaware' => unaware) /\ version' = version
      BY <1>3, Zenon DEF NotifySignal
    <3> QED
      BY <3>1, <3>2, OthersKeepSignals
  <2> QED
    BY <2>1, <2>2
<1>4. CASE TakeEvent
    BY <1>4 DEF TakeEvent, WatcherHears
<1>5. ASSUME \/ \E i \in Inodes : Create(i) \/ Truncate(i)
             \/ \E w \in Writers, i \in Inodes : PatchFails(w, i)
      PROVE  WatcherHears'
    BY <1>5 DEF Create, Truncate, PatchFails, WatcherHears
<1> QED
    BY <1>1, <1>2, <1>3, <1>4, <1>5, <1>6 DEF FileStep, WriterStep

(* However writers, patches, unlinks and the creation of files overlap, after  *)
(* the last event the watching agent took (agent_wait), a version it does not  *)
(* know of has an event pending or a signal of agent_notify_file_modified      *)
(* still to come, unless the version says that the file is gone, which         *)
(* sys_unlink tells nobody.                                                    *)
THEOREM WatcherIsTold == Spec => []WatcherHears
<1>1. Init => PathInv /\ VerdictInv /\ WatcherHears
    BY PathInit, VerdictInit DEF Init, FileInit, WatcherHears
<1>2. ASSUME PathInv, VerdictInv, WatcherHears, [Next]_vars
      PROVE  (PathInv /\ VerdictInv /\ WatcherHears)'
  <2>1. (PathInv /\ VerdictInv)'
    BY <1>2, PathNext, VerdictNext
  <2>2. ASSUME FileStep
        PROVE  WatcherHears'
    BY <1>2, <2>2, WatcherStillHears DEF VerdictInv
  <2>3. ASSUME UNCHANGED <<writer, event, unaware>>,
               version[Watched].deleted => version'[Watched].deleted
        PROVE  WatcherHears'
    BY <1>2, <2>3 DEF WatcherHears
  <2>4. ASSUME NEW i \in Inodes, Read(i)
        PROVE  WatcherHears'
    <3>1. /\ UNCHANGED <<writer, event, unaware>>
          /\ version' = [version EXCEPT ![i] = Find(i)]
      BY <2>4 DEF Read, Get
    <3>2. version[Watched].deleted => version[Watched].used
      BY <1>2, FileVersionsAssumption DEF VerdictInv, FileTypes, NoEntry
    <3>3. version[Watched].deleted => version'[Watched].deleted
      BY <1>2, <3>1, <3>2, OtherVersions DEF VerdictInv, Find
    <3> QED
      BY <2>3, <3>1, <3>3
  <2> QED
    BY <1>2, <2>1, <2>2, <2>3, <2>4 DEF Next, vars, fileVars
<1> QED
    BY <1>1, <1>2, PTL DEF Spec

----------------------------------------------------------------------------
(* What the program reads.  During a push the number of the record has been   *)
(* handed out already; unless a copy has failed, the numbers, the bytes and   *)
(* the digests agree with the kernel's arrays all the time, the header when   *)
(* the push is over.                                                          *)

Upcoming == IF step = "evict" THEN next - 1 ELSE next
Numbered == /\ \A i \in 1 .. Len(nodes) : nodes[i].seq = first + i - 1
            /\ nodes # <<>> => Upcoming = first + Len(nodes)
            /\ step = "evict" => record.seq = Upcoming
Placed == \A i \in 1 .. Len(nodes), u \in Units :
            nodes[i].off < u /\ u <= nodes[i].off + nodes[i].len => region[u] = nodes[i].seq
Published == /\ header = Header(FALSE, pathLen, Len(nodes), dropped, first, next)
             /\ ~ odd
ShownInv ==
    /\ region \in [Units -> Nat]
    /\ torn \in BOOLEAN
    /\ ~ torn => Numbered /\ Placed /\ (step # "evict" => Published)

LEMMA ShownFrame ==
    ASSUME ShownInv, region' = region, torn' = torn, nodes' = nodes, first' = first,
           Upcoming' = Upcoming, step' # "evict", ~ torn => Published'
    PROVE  ShownInv'
BY DEF ShownInv, Numbered, Placed

LEMMA ShownTorn ==
    ASSUME region' \in [Units -> Nat], torn' = TRUE
    PROVE  ShownInv'
BY DEF ShownInv

LEMMA SyncPublishes ==
    ASSUME NEW len, NEW count, NEW drop, NEW f, NEW n, Sync(len, count, drop, f, n),
           torn \in BOOLEAN
    PROVE  /\ torn' \in BOOLEAN
           /\ ~ torn' => /\ ~ torn
                         /\ header' = Header(FALSE, len, count, drop, f, n) /\ ~ odd'
<1>1. ~ odd'
    BY DEF Sync
<1>2. CASE header' = Header(FALSE, len, count, drop, f, n) /\ torn' = torn
    BY <1>1, <1>2, Zenon
<1>3. CASE torn' = TRUE
    BY <1>3, Zenon
<1> QED
    BY <1>2, <1>3 DEF Sync

LEMMA EvictKeepsShown ==
    ASSUME PathInv, ShownInv, EvictOldest
    PROVE  ShownInv'
<1> DEFINE gone == nodes[1].len
           rest == pathLen - gone
<1>0. PathTypes /\ NoHoles /\ InOrder
    BY DEF PathInv
<1>1. /\ step = "evict" /\ step' = step /\ record' = record /\ next' = next /\ nodes # <<>>
    BY DEF EvictOldest
<1>2. CASE torn' = TRUE /\ region' = region
    BY <1>2, ShownTorn DEF ShownInv
<1>3. CASE /\ region' = [u \in Units |-> IF u <= rest THEN region[u + gone] ELSE region[u]]
           /\ nodes' = [i \in 1 .. Len(nodes) - 1 |-> MovedDown(nodes[i + 1], gone)]
           /\ first' = first + 1
           /\ torn' = torn
  <2>1. Len(nodes) \in Nat /\ Len(nodes) >= 1 /\ first \in Nat /\ next \in Nat
    BY <1>0, <1>1 DEF PathTypes
  <2>2. \A i \in 1 .. Len(nodes) : nodes[i] \in Node
    BY <1>0 DEF PathTypes
  <2>3. \A i \in 1 .. Len(nodes) : nodes[i].off \in Nat /\ nodes[i].len \in Nat /\ nodes[i].seq \in Nat
    BY <2>2 DEF Node
  <2>4. pathLen \in Nat /\ pathLen <= Capacity /\ Capacity \in Nat
    BY <1>0, ContextAssumption DEF PathTypes
  <2>5. gone \in Nat /\ nodes[1].off = 0 /\ gone <= pathLen
    <3>1. 1 \in 1 .. Len(nodes)
      BY <2>1
    <3>2. nodes[1].off = 0
      BY <1>0, <3>1 DEF NoHoles
    <3>3. nodes[1].off + nodes[1].len <= pathLen
      BY <1>0, <3>1 DEF InOrder
    <3> QED
      BY <3>1, <3>2, <3>3, <2>3, <2>4
  <2>6. Len(nodes') = Len(nodes) - 1
    BY <1>3, <2>1
  <2>7. \A i \in 1 .. Len(nodes') : /\ nodes'[i].off = nodes[i + 1].off - gone
                                    /\ nodes'[i].len = nodes[i + 1].len
                                    /\ nodes'[i].seq = nodes[i + 1].seq
    BY <1>3, <2>1, <2>6 DEF MovedDown
  <2>8. \A u \in Units : u <= rest => u + gone \in Units
    BY <2>4, <2>5 DEF Units
  <2>9. region' \in [Units -> Nat]
    BY <1>3, <2>8 DEF ShownInv
  <2>10. ASSUME ~ torn
         PROVE  Numbered'
    <3>1. Numbered
      BY <2>10 DEF ShownInv
    <3>2. ASSUME NEW i \in 1 .. Len(nodes')
          PROVE  nodes'[i].seq = first' + i - 1
      <4>1. i + 1 \in 1 .. Len(nodes)
        BY <2>1, <2>6
      <4>2. nodes[i + 1].seq = first + (i + 1) - 1
        BY <3>1, <4>1 DEF Numbered
      <4> QED
        BY <4>2, <2>7, <1>3, <2>1
    <3>3. Upcoming' = Upcoming /\ Upcoming = first + Len(nodes)
      BY <3>1, <1>1 DEF Numbered, Upcoming
    <3>4. first' + Len(nodes') = first + Len(nodes)
      BY <1>3, <2>1, <2>6
    <3>5. record'.seq = Upcoming'
      BY <3>1, <3>3, <1>1 DEF Numbered
    <3> QED
      BY <3>2, <3>3, <3>4, <3>5 DEF Numbered
  <2>11. ASSUME ~ torn
         PROVE  Placed'
    <3>1. SUFFICES ASSUME NEW i \in 1 .. Len(nodes'), NEW u \in Units,
                          nodes'[i].off < u, u <= nodes'[i].off + nodes'[i].len
                   PROVE  region'[u] = nodes'[i].seq
      BY DEF Placed
    <3>2. i + 1 \in 1 .. Len(nodes) /\ u \in Nat
      BY <2>1, <2>6, <2>4 DEF Units
    <3>3. nodes[i + 1].off < u + gone /\ u + gone <= nodes[i + 1].off + nodes[i + 1].len
      <4>1. /\ nodes[i + 1].off \in Nat /\ nodes[i + 1].len \in Nat
            /\ nodes'[i].off = nodes[i + 1].off - gone /\ nodes'[i].len = nodes[i + 1].len
        BY <3>2, <2>3, <2>7
      <4> QED
        BY <4>1, <3>1, <3>2, <2>5
    <3>4. nodes[i + 1].off + nodes[i + 1].len <= pathLen
      BY <1>0, <3>2 DEF InOrder
    <3>5. u <= rest
      <4>1. nodes[i + 1].off \in Nat /\ nodes[i + 1].len \in Nat
        BY <3>2, <2>3
      <4> QED
        BY <4>1, <3>2, <3>3, <3>4, <2>4, <2>5
    <3>6. region[u + gone] = nodes[i + 1].seq
      BY <2>11, <3>2, <3>3, <3>5, <2>8 DEF ShownInv, Placed
    <3> QED
      BY <3>5, <3>6, <1>3, <2>7
  <2> QED
    BY <1>1, <1>3, <2>9, <2>10, <2>11 DEF ShownInv
<1> QED
    BY <1>2, <1>3 DEF EvictOldest

LEMMA PushEndKeepsShown ==
    ASSUME PathInv, ShownInv, PushEnd
    PROVE  ShownInv'
<1> DEFINE n == [seq |-> record.seq, off |-> pathLen, len |-> record.len,
                 dep |-> record.dep, auto |-> record.auto]
           end == pathLen + record.len
<1>0. PathTypes /\ NoHoles /\ InOrder
    BY DEF PathInv
<1>1. /\ nodes' = Append(nodes, n)
      /\ first' = IF nodes = <<>> THEN record.seq ELSE first
      /\ next' = next /\ dropped' = dropped /\ pathLen' = end
      /\ step = "evict" /\ step' = "idle" /\ record.seq \in Nat
      /\ region' = [u \in Units |-> IF u \in pathLen + 1 .. end THEN record.seq ELSE region[u]]
    BY <1>0 DEF PushEnd, Quiet, PathTypes
<1>2. Sync(end, Len(nodes) + 1, dropped, first', next)
    BY <1>1 DEF PushEnd
<1>3. /\ Len(nodes) \in Nat /\ Len(nodes') = Len(nodes) + 1
      /\ \A i \in 1 .. Len(nodes) : nodes'[i] = nodes[i] /\ nodes[i] \in Node
      /\ nodes'[Len(nodes) + 1] = n
    BY <1>0, <1>1 DEF PathTypes
<1>4. region' \in [Units -> Nat]
    BY <1>1 DEF ShownInv
<1>5. /\ torn' \in BOOLEAN
      /\ ~ torn' => /\ ~ torn
                    /\ header' = Header(FALSE, end, Len(nodes) + 1, dropped, first', next)
                    /\ ~ odd'
    BY <1>2, SyncPublishes DEF ShownInv
<1>6. ASSUME ~ torn
      PROVE  Numbered'
  <2>1. Numbered /\ record.seq = next - 1 /\ next \in Nat /\ first \in Nat /\ Upcoming' = next
    BY <1>0, <1>1, <1>6 DEF ShownInv, Numbered, Upcoming, PathTypes
  <2>2. first' + Len(nodes) = record.seq
    BY <2>1, <1>1, <1>3 DEF Numbered, Upcoming
  <2>3. ASSUME NEW i \in 1 .. Len(nodes')
        PROVE  nodes'[i].seq = first' + i - 1
    <3>1. CASE i \in 1 .. Len(nodes)
      BY <2>1, <3>1, <1>1, <1>3 DEF Numbered
    <3>2. CASE i = Len(nodes) + 1
      <4>1. nodes'[i].seq = record.seq
        BY <1>1, <1>3, <3>2
      <4>2. first' \in Nat /\ Len(nodes) \in Nat
        BY <1>1, <1>3, <2>1
      <4> QED
        BY <4>1, <4>2, <2>2, <3>2
    <3> QED
      BY <3>1, <3>2, <1>3
  <2>4. Upcoming' = first' + Len(nodes')
    <3>1. first' \in Nat /\ Len(nodes) \in Nat /\ Len(nodes') = Len(nodes) + 1
      BY <1>1, <1>3, <2>1
    <3> QED
      BY <3>1, <2>1, <2>2
  <2> QED
    BY <2>3, <2>4, <1>1 DEF Numbered
<1>7. ASSUME ~ torn
      PROVE  Placed'
  <2>1. SUFFICES ASSUME NEW i \in 1 .. Len(nodes'), NEW u \in Units,
                        nodes'[i].off < u, u <= nodes'[i].off + nodes'[i].len
                 PROVE  region'[u] = nodes'[i].seq
    BY DEF Placed
  <2>2. u \in Nat /\ pathLen \in Nat /\ record.len \in Nat
    BY <1>0, ContextAssumption DEF Units, PathTypes
  <2>3. CASE i \in 1 .. Len(nodes)
    <3>1. nodes[i].off + nodes[i].len <= pathLen /\ nodes[i].off \in Nat /\ nodes[i].len \in Nat
      BY <1>0, <1>3, <2>3 DEF InOrder, Node
    <3>2. u <= pathLen /\ region[u] = nodes[i].seq
      BY <1>3, <1>7, <2>1, <2>2, <2>3, <3>1 DEF ShownInv, Placed
    <3> QED
      BY <1>1, <1>3, <2>2, <2>3, <3>2
  <2>4. CASE i = Len(nodes) + 1
    BY <1>1, <1>3, <2>1, <2>2, <2>4
  <2> QED
    BY <2>3, <2>4, <1>3
<1> QED
    BY <1>1, <1>3, <1>4, <1>5, <1>6, <1>7 DEF ShownInv, Published

LEMMA RollbackKeepsShown ==
    ASSUME PathInv, ShownInv, NEW keep \in 1 .. MaxNodes, Rollback(keep)
    PROVE  ShownInv'
<1>0. PathTypes
    BY DEF PathInv
<1>1. /\ keep \in 1 .. Len(nodes) /\ nodes' = SubSeq(nodes, 1, keep)
      /\ first' = first /\ next' = first + keep /\ dropped' = dropped /\ region' = region
      /\ step' = step /\ step = "idle" /\ Sync(pathLen', keep, dropped, first, first + keep)
    BY DEF Rollback
<1>2. Len(nodes) \in Nat /\ first \in Nat
    BY <1>0 DEF PathTypes
<1>3. Len(nodes') = keep /\ \A i \in 1 .. keep : nodes'[i] = nodes[i]
    BY <1>0, <1>1, <1>2 DEF PathTypes
<1>4. /\ torn' \in BOOLEAN
      /\ ~ torn' => /\ ~ torn /\ ~ odd'
                    /\ header' = Header(FALSE, pathLen', keep, dropped, first, first + keep)
    BY <1>1, SyncPublishes DEF ShownInv
<1>5. ~ torn => Numbered'
    BY <1>1, <1>2, <1>3 DEF ShownInv, Numbered, Upcoming
<1>6. ASSUME ~ torn
      PROVE  Placed'
  <2>1. Placed /\ 1 .. keep \subseteq 1 .. Len(nodes)
    BY <1>1, <1>2, <1>6 DEF ShownInv
  <2>2. SUFFICES ASSUME NEW i \in 1 .. Len(nodes'), NEW u \in Units,
                        nodes'[i].off < u, u <= nodes'[i].off + nodes'[i].len
                 PROVE  region'[u] = nodes'[i].seq
    BY DEF Placed
  <2>3. i \in 1 .. Len(nodes) /\ nodes'[i] = nodes[i] /\ region' = region
    BY <1>1, <1>3, <2>1
  <2> QED
    BY <2>1, <2>2, <2>3 DEF Placed
<1> QED
    BY <1>1, <1>3, <1>4, <1>5, <1>6 DEF ShownInv, Published

LEMMA AgentKeepsShown ==
    ASSUME PathInv, ShownInv, ContextOther
    PROVE  ShownInv'
<1>0. PathTypes
    BY DEF PathInv
<1>1. CASE ToolStart \/ ToolRuns \/ NodeNotAllocated
  <2>1. /\ region' = region /\ torn' = torn /\ nodes' = nodes /\ first' = first
        /\ next' = next /\ dropped' = dropped /\ pathLen' = pathLen
        /\ header' = header /\ odd' = odd /\ step # "evict" /\ step' # "evict"
    BY <1>1 DEF ToolStart, ToolRuns, NodeNotAllocated, Quiet, path
  <2> QED
    BY <2>1, ShownFrame DEF ShownInv, Published, Upcoming
<1>2. ASSUME NEW len \in Lengths, PushBegin(len)
      PROVE  ShownInv'
  <2>1. region' = region /\ nodes' = nodes /\ first' = first /\ step # "evict"
    BY <1>2 DEF PushBegin, path
  <2>2. CASE len > Capacity
    <3>1. /\ torn' = torn /\ header' = header /\ odd' = odd /\ next' = next
          /\ pathLen' = pathLen /\ dropped' = dropped /\ step' = "idle"
      BY <1>2, <2>2 DEF PushBegin, path, Quiet
    <3> QED
      BY <2>1, <3>1, ShownFrame DEF ShownInv, Published, Upcoming
  <2>3. CASE torn' = TRUE
    BY <2>1, <2>3, ShownTorn DEF ShownInv
  <2>4. CASE /\ torn' = torn /\ next' = next + 1 /\ step' = "evict"
             /\ record' = [seq |-> next, len |-> len, dep |-> pending, auto |-> step = "made"]
    <3>1. Upcoming' = Upcoming /\ record'.seq = Upcoming' /\ next \in Nat
      BY <1>0, <2>1, <2>4 DEF Upcoming, PathTypes
    <3>2. Numbered => Numbered'
      BY <2>1, <3>1 DEF Numbered
    <3>3. Placed => Placed'
      BY <2>1 DEF Placed
    <3> QED
      BY <2>1, <2>4, <3>2, <3>3 DEF ShownInv
  <2> QED
    BY <1>2, <2>2, <2>3, <2>4 DEF PushBegin
<1>3. CASE EvictOldest
    BY <1>3, EvictKeepsShown
<1>4. CASE PushEnd
    BY <1>4, PushEndKeepsShown
<1>5. CASE PushFails \/ RollbackFails
    BY <1>5, ShownTorn DEF PushFails, RollbackFails, ShownInv
<1>6. CASE Clear
  <2>1. CASE torn' = TRUE
    BY <1>6, <2>1, ShownTorn DEF Clear, ShownInv
  <2>2. CASE torn' = FALSE
    <3>1. /\ nodes' = <<>> /\ Len(nodes') = 0 /\ step' = "idle" /\ ~ odd'
          /\ region' = [u \in Units |-> 0]
          /\ header' = Header(FALSE, pathLen', Len(nodes'), dropped', first', next')
      BY <1>6, <2>2 DEF Clear
    <3>2. 1 .. Len(nodes') = {}
      BY <3>1
    <3>3. Numbered' /\ Placed'
      BY <3>1, <3>2 DEF Numbered, Placed
    <3>4. region' \in [Units -> Nat]
      BY <3>1
    <3> QED
      BY <2>2, <3>1, <3>3, <3>4 DEF ShownInv, Published
  <2> QED
    BY <1>6, <2>1, <2>2 DEF Clear
<1>7. ASSUME NEW keep \in 1 .. MaxNodes, Rollback(keep)
      PROVE  ShownInv'
    BY <1>7, RollbackKeepsShown
<1> QED
    BY <1>1, <1>2, <1>3, <1>4, <1>5, <1>6, <1>7 DEF ContextOther

LEMMA ShownNext ==
    ASSUME PathInv, ShownInv, [Next]_vars
    PROVE  ShownInv'
<1>1. ASSUME NEW i \in Inodes, Read(i)
      PROVE  ShownInv'
    BY <1>1, ShownFrame DEF Read, ToolReads, path, ShownInv, Published, Upcoming
<1>2. CASE ContextOther
    BY <1>2, AgentKeepsShown
<1>3. CASE UNCHANGED contextVars
    BY <1>3 DEF contextVars, ShownInv, Numbered, Placed, Published, Upcoming
<1> QED
    BY <1>1, <1>2, <1>3 DEF Next, vars

LEMMA ShownInit == ContextInit => ShownInv
<1> SUFFICES ASSUME ContextInit PROVE ShownInv
    OBVIOUS
<1>1. /\ nodes = <<>> /\ Len(nodes) = 0 /\ step = "idle" /\ ~ odd /\ torn \in BOOLEAN
      /\ region = [u \in Units |-> 0]
      /\ header = Header(FALSE, pathLen, Len(nodes), dropped, first, next)
    BY DEF ContextInit
<1>2. 1 .. Len(nodes) = {}
    BY <1>1
<1>3. Numbered /\ Placed
    BY <1>1, <1>2 DEF Numbered, Placed
<1>4. region \in [Units -> Nat]
    BY <1>1
<1> QED
    BY <1>1, <1>3, <1>4 DEF ShownInv, Published

(* Between two calls the region shows the program the path the kernel keeps,  *)
(* for any capacity and any lengths, unless a page of it was missing since    *)
(* the last clear: records with consecutive numbers, each with its own bytes  *)
(* however often evictions moved them, under a header that is up to date.     *)
THEOREM RegionShowsPath == Spec => []PathIsShown
<1>1. Init => PathInv /\ ShownInv
    BY PathInit, ShownInit DEF Init
<1>2. PathInv /\ ShownInv /\ [Next]_vars => (PathInv /\ ShownInv)'
    BY PathNext, ShownNext
<1>3. ShownInv => PathIsShown
    BY DEF ShownInv, PathIsShown, Numbered, Placed, Published, Upcoming
<1> QED
    BY <1>1, <1>2, <1>3, PTL DEF Spec

----------------------------------------------------------------------------
(* The k-th newest digest of the ring.                                        *)
Slot(h, k) == (h + DigestMax - k) % DigestMax

LEMMA SlotIs ==
    ASSUME NEW h \in 0 .. DigestMax - 1, NEW k \in 0 .. DigestMax
    PROVE  /\ Slot(h, k) = IF k <= h THEN h - k ELSE h + DigestMax - k
           /\ Slot(h, k) \in 0 .. DigestMax - 1
<1> DEFINE D == DigestMax
<1>0. D \in Nat \ {0}
    BY ContextAssumption
<1>1. \A a \in 0 .. D - 1 : a % D = a /\ (a + D) % D = a
    BY <1>0
<1>2. k <= h \/ h + D - k \in 0 .. D - 1
    BY <1>0
<1>3. ASSUME k <= h
      PROVE  h + D - k = (h - k) + D /\ h - k \in 0 .. D - 1
    BY <1>0, <1>3
<1> HIDE DEF D
<1> QED
    BY <1>0, <1>1, <1>2, <1>3 DEF D, Slot

LEMMA SlotMoves ==
    ASSUME NEW h \in 0 .. DigestMax - 1, NEW k \in 1 .. DigestMax
    PROVE  /\ (h + 1) % DigestMax \in 0 .. DigestMax - 1
           /\ Slot((h + 1) % DigestMax, 1) = h
           /\ k < DigestMax => /\ Slot((h + 1) % DigestMax, k + 1) = Slot(h, k)
                               /\ Slot(h, k) # h
<1> DEFINE D == DigestMax
           g == (h + 1) % D
<1>0. D \in Nat \ {0}
    BY ContextAssumption
<1>1. g = IF h + 1 = D THEN 0 ELSE h + 1
  <2>1. \A a \in 0 .. D - 1 : a % D = a /\ (a + D) % D = a
    BY <1>0
  <2>2. h + 1 = D => (h + 1) % D = 0
    <3>1. 0 \in 0 .. D - 1 /\ 0 + D = D
      BY <1>0
    <3> QED
      BY <2>1, <3>1
  <2>3. h + 1 # D => h + 1 \in 0 .. D - 1
    BY <1>0
  <2> QED
    BY <2>1, <2>2, <2>3
<1>2. g \in 0 .. D - 1
    BY <1>0, <1>1
<1>3. Slot(g, 1) = IF 1 <= g THEN g - 1 ELSE g + D - 1
  <2>1. 1 \in 0 .. D
    BY <1>0
  <2> HIDE DEF g
  <2> QED
    BY <1>2, <2>1, SlotIs
<1>4. Slot(h, k) = IF k <= h THEN h - k ELSE h + D - k
    BY <1>0, SlotIs
<1>5. k < D => Slot(g, k + 1) = IF k + 1 <= g THEN g - (k + 1) ELSE g + D - (k + 1)
  <2>1. k < D => k + 1 \in 0 .. D
    BY <1>0
  <2> HIDE DEF g
  <2> QED
    BY <1>2, <2>1, SlotIs
<1>6. Slot(g, 1) = h
    BY <1>0, <1>1, <1>3
<1>7. k < D => Slot(g, k + 1) = Slot(h, k) /\ Slot(h, k) # h
  <2> HIDE DEF g
  <2> QED
    BY <1>0, <1>1, <1>4, <1>5
<1> QED
    BY <1>2, <1>6, <1>7

LEMMA SlotFromOldest ==
    ASSUME NEW h \in 0 .. DigestMax - 1, NEW j \in 0 .. DigestMax, NEW i \in 0 .. j
    PROVE  (Slot(h, j) + i) % DigestMax = Slot(h, j - i)
<1> DEFINE D == DigestMax
<1>0. D \in Nat \ {0}
    BY ContextAssumption
<1>1. Slot(h, j) = IF j <= h THEN h - j ELSE h + D - j
    BY SlotIs
<1>2. j - i \in 0 .. D
    BY <1>0
<1>3. Slot(h, j - i) = IF j - i <= h THEN h - (j - i) ELSE h + D - (j - i)
    BY <1>2, SlotIs
<1>4. \A a \in 0 .. D - 1 : a % D = a /\ (a + D) % D = a
    BY <1>0
<1>5. CASE Slot(h, j) + i < D
  <2>1. Slot(h, j) + i \in 0 .. D - 1
    BY <1>0, <1>1, <1>5
  <2>2. Slot(h, j) + i = Slot(h, j - i)
    BY <1>0, <1>1, <1>3, <1>5
  <2> QED
    BY <1>4, <2>1, <2>2
<1>6. CASE Slot(h, j) + i >= D
  <2>1. Slot(h, j) + i - D \in 0 .. D - 1
    BY <1>0, <1>1, <1>6
  <2>2. Slot(h, j) + i = (Slot(h, j) + i - D) + D
    BY <1>0, <1>1
  <2>3. Slot(h, j) + i - D = Slot(h, j - i)
    BY <1>0, <1>1, <1>3, <1>6
  <2> QED
    BY <1>4, <2>1, <2>2, <2>3
<1> QED
  <2>1. Slot(h, j) \in Nat
    BY <1>0, <1>1
  <2> QED
    BY <1>0, <1>5, <1>6, <2>1

(* What the ring holds, unless a copy has failed: the digests it counts are   *)
(* of the last records, each over the digest before it.                       *)
RingTypes == /\ ring \in [0 .. DigestMax - 1 -> [seq: Nat, prev: Nat]]
             /\ head \in 0 .. DigestMax - 1 /\ held \in 0 .. DigestMax
             /\ torn \in BOOLEAN
Chained ==
    /\ \A k \in 1 .. held : ring[Slot(head, k)].seq + k = Upcoming
    /\ \A k \in 1 .. held : k < held => ring[Slot(head, k)].prev = ring[Slot(head, k + 1)].seq
    /\ step # "evict" /\ held > 0 => nodes # <<>>
    /\ step = "evict" => record.seq = Upcoming
DigestInv == RingTypes /\ (~ torn => Chained)

LEMMA DigestsFollow ==
    ASSUME PathTypes, DigestInv
    PROVE  DigestsVouch
<1>0. SUFFICES ASSUME step # "evict", ~ torn
               PROVE  /\ Verified
                      /\ held > 0 => /\ nodes # <<>>
                                     /\ ring[(head + DigestMax - 1) % DigestMax].seq = next - 1
                                     /\ \A k \in 1 .. held :
                                          ring[(head + DigestMax - k) % DigestMax].seq = next - k
    BY DEF DigestsVouch
<1>1. /\ next \in Nat /\ held \in 0 .. DigestMax /\ DigestMax \in Nat \ {0} /\ head \in 0 .. DigestMax - 1
      /\ Chained /\ Upcoming = next
    BY <1>0, ContextAssumption DEF DigestInv, RingTypes, PathTypes, Upcoming
<1>2. ASSUME NEW k \in 1 .. held
      PROVE  /\ ring[Slot(head, k)].seq \in Nat
             /\ ring[Slot(head, k)].seq = next - k
             /\ ring[Slot(head, k)].seq + k = next
  <2>1. Slot(head, k) \in 0 .. DigestMax - 1
    BY <1>1, SlotIs
  <2>2. ring[Slot(head, k)].seq \in Nat
    BY <2>1 DEF DigestInv, RingTypes
  <2>3. ring[Slot(head, k)].seq + k = next
    BY <1>1 DEF Chained
  <2> QED
    BY <1>1, <2>2, <2>3
<1>3. Verified
  <2>1. SUFFICES ASSUME NEW i \in 1 .. held - 1
                 PROVE  /\ ring[(Oldest + i) % DigestMax].prev = ring[(Oldest + i - 1) % DigestMax].seq
                        /\ ring[(Oldest + i) % DigestMax].seq
                             = ring[(Oldest + i - 1) % DigestMax].seq + 1
    BY DEF Verified
  <2>2. held - i \in 1 .. held /\ held - i < held /\ (held - i) + 1 = held - (i - 1) /\ (held - i) + 1 \in 1 .. held
    BY <1>1
  <2>3. Oldest = Slot(head, held)
    BY DEF Oldest, Slot
  <2>4. (Oldest + i) % DigestMax = Slot(head, held - i)
    BY <1>1, <2>3, SlotFromOldest
  <2>5. (Oldest + (i - 1)) % DigestMax = Slot(head, held - (i - 1))
    BY <1>1, <2>3, SlotFromOldest
  <2>6. Oldest + i - 1 = Oldest + (i - 1)
    BY <1>1, <2>3, SlotIs
  <2>7. ring[Slot(head, held - i)].prev = ring[Slot(head, held - i + 1)].seq
    BY <1>1, <2>2 DEF Chained
  <2>8. ring[Slot(head, held - i)].seq = ring[Slot(head, held - i + 1)].seq + 1
    <3>1. /\ ring[Slot(head, held - i)].seq = next - (held - i)
          /\ ring[Slot(head, held - i + 1)].seq = next - (held - i + 1)
      BY <1>2, <2>2
    <3> QED
      BY <1>1, <3>1
  <2> QED
    BY <2>2, <2>4, <2>5, <2>6, <2>7, <2>8
<1>4. held > 0 => nodes # <<>>
    BY <1>0, <1>1 DEF Chained
<1>5. \A k \in 1 .. held : ring[(head + DigestMax - k) % DigestMax].seq = next - k
    BY <1>2 DEF Slot
<1>6. held > 0 => ring[(head + DigestMax - 1) % DigestMax].seq = next - 1
  <2>1. held > 0 => 1 \in 1 .. held
    BY <1>1
  <2> QED
    BY <2>1, <1>5
<1> QED
    BY <1>3, <1>4, <1>5, <1>6

LEMMA DigestFrame ==
    ASSUME DigestInv, ring' = ring, head' = head, held' = held, torn' = torn, Upcoming' = Upcoming,
           step' # "evict", nodes # <<>> => nodes' # <<>>, step # "evict" \/ nodes' # <<>>
    PROVE  DigestInv'
BY DEF DigestInv, RingTypes, Chained, Slot

LEMMA DigestTorn ==
    ASSUME RingTypes', torn' = TRUE
    PROVE  DigestInv'
BY DEF DigestInv

LEMMA DigestEmpty ==
    ASSUME held' = 0, RingTypes', step' # "evict"
    PROVE  DigestInv'
<1>1. 1 .. held' = {}
    BY ContextAssumption
<1> QED
    BY <1>1 DEF DigestInv, Chained

LEMMA PushEndKeepsDigests ==
    ASSUME PathTypes, DigestInv, PushEnd
    PROVE  DigestInv'
<1> DEFINE D == DigestMax
<1>0. /\ D \in Nat \ {0} /\ head \in 0 .. D - 1 /\ held \in 0 .. D
      /\ ring \in [0 .. D - 1 -> [seq: Nat, prev: Nat]]
      /\ next \in Nat /\ record.seq \in Nat
    BY ContextAssumption DEF DigestInv, RingTypes, PathTypes
<1>1. /\ nodes' # <<>> /\ next' = next /\ step = "evict" /\ step' = "idle"
      /\ ring' = [ring EXCEPT ![head] = Digest(record.seq)]
      /\ head' = (head + 1) % D
      /\ held' = IF held < D THEN held + 1 ELSE held
  <2>1. /\ next' = next /\ step = "evict" /\ step' = "idle" /\ nodes \in Seq(Node)
        /\ ring' = [ring EXCEPT ![head] = Digest(record.seq)]
        /\ head' = (head + 1) % D
        /\ held' = IF held < D THEN held + 1 ELSE held
        /\ nodes' = Append(nodes, [seq |-> record.seq, off |-> pathLen, len |-> record.len,
                                   dep |-> record.dep, auto |-> record.auto])
    BY DEF PushEnd, Quiet, PathTypes
  <2> QED
    BY <2>1
<1>2. torn' \in BOOLEAN /\ (~ torn' => ~ torn)
  <2>1. \E len, count, drop, f, n : Sync(len, count, drop, f, n)
    BY DEF PushEnd
  <2> QED
    BY <2>1, SyncPublishes DEF DigestInv, RingTypes
<1>3. Digest(record.seq) = [seq |-> record.seq,
                            prev |-> IF held = 0 THEN 0 ELSE ring[Slot(head, 1)].seq]
    BY DEF Digest, Slot
<1>4. Slot(head, 1) \in 0 .. D - 1 /\ head' \in 0 .. D - 1
    BY <1>0, <1>1, SlotIs, SlotMoves
<1>5. Digest(record.seq) \in [seq: Nat, prev: Nat]
    BY <1>0, <1>3, <1>4
<1>6. RingTypes'
  <2>1. held' \in 0 .. D
    BY <1>0, <1>1
  <2> QED
    BY <1>0, <1>1, <1>2, <1>4, <1>5, <2>1 DEF RingTypes
<1>7. ASSUME ~ torn
      PROVE  Chained'
  <2>1. Chained
    BY <1>7 DEF DigestInv
  <2>2. record.seq = Upcoming /\ Upcoming = next - 1 /\ Upcoming' = next /\ record.seq + 1 = next
    <3>1. record.seq = Upcoming /\ Upcoming = next - 1 /\ Upcoming' = next
      BY <1>1, <2>1 DEF Chained, Upcoming
    <3> QED
      BY <3>1, <1>0
  <2>3. Slot(head', 1) = head /\ ring'[head] = Digest(record.seq)
    BY <1>0, <1>1, SlotMoves
  <2>4. ASSUME NEW k \in 1 .. held', k # 1
        PROVE  /\ k - 1 \in 1 .. held /\ k - 1 \in 1 .. D /\ k - 1 < D
               /\ Slot(head', k) = Slot(head, k - 1)
               /\ Slot(head', k) \in 0 .. D - 1
               /\ ring'[Slot(head', k)] = ring[Slot(head, k - 1)]
    <3>1. k - 1 \in 1 .. held /\ k - 1 \in 1 .. D /\ k - 1 < D /\ (k - 1) + 1 = k
      BY <1>0, <1>1, <2>4
    <3>2. Slot(head', (k - 1) + 1) = Slot(head, k - 1) /\ Slot(head, k - 1) # head
      BY <1>0, <1>1, <3>1, SlotMoves
    <3>3. Slot(head, k - 1) \in 0 .. D - 1
      <4>1. k - 1 \in 0 .. D
        BY <1>0, <3>1
      <4> QED
        BY <1>0, <4>1, SlotIs
    <3> QED
      BY <1>0, <1>1, <3>1, <3>2, <3>3
  <2>5. ASSUME NEW k \in 1 .. held'
        PROVE  ring'[Slot(head', k)].seq + k = Upcoming'
    <3>1. CASE k = 1
      BY <3>1, <2>2, <2>3, <1>3
    <3>2. CASE k # 1
      <4>1. ring[Slot(head, k - 1)].seq + (k - 1) = Upcoming
        BY <2>1, <2>4, <3>2 DEF Chained
      <4>2. ring[Slot(head, k - 1)].seq \in Nat /\ k \in Nat
        <5>1. Slot(head, k - 1) \in 0 .. D - 1
          BY <2>4, <3>2
        <5> QED
          BY <1>0, <5>1
      <4> QED
        <5>1. ring'[Slot(head', k)].seq = ring[Slot(head, k - 1)].seq
          BY <2>4, <3>2
        <5>2. \A a, b \in Nat : a + (b - 1) = Upcoming => a + b = Upcoming'
          BY <1>0, <2>2
        <5> QED
          BY <4>1, <4>2, <5>1, <5>2
    <3> QED
      BY <3>1, <3>2
  <2>6. ASSUME NEW k \in 1 .. held', k < held'
        PROVE  ring'[Slot(head', k)].prev = ring'[Slot(head', k + 1)].seq
    <3>0. k + 1 \in 1 .. held' /\ k + 1 # 1 /\ (k + 1) - 1 = k
      BY <1>0, <1>1, <2>6
    <3>1. ring'[Slot(head', k + 1)] = ring[Slot(head, k)] /\ k \in 1 .. held
      BY <2>4, <3>0
    <3>2. CASE k = 1
      <4>1. held # 0
        BY <3>1, <1>0
      <4> QED
        BY <3>1, <3>2, <4>1, <2>3, <1>3
    <3>3. CASE k # 1
      <4>1. ring'[Slot(head', k)] = ring[Slot(head, k - 1)] /\ k - 1 \in 1 .. held
        BY <2>4, <3>3
      <4>2. k - 1 < held /\ (k - 1) + 1 = k
        BY <1>0, <3>1
      <4> QED
        BY <2>1, <3>1, <4>1, <4>2 DEF Chained
    <3> QED
      BY <3>2, <3>3
  <2> QED
    BY <2>5, <2>6, <1>1 DEF Chained
<1> QED
    BY <1>2, <1>6, <1>7 DEF DigestInv

LEMMA AgentKeepsDigests ==
    ASSUME PathTypes, DigestInv, ContextOther
    PROVE  DigestInv'
<1>1. CASE ToolStart \/ ToolRuns \/ NodeNotAllocated
  <2>1. UNCHANGED <<nodes, next, digests, torn>> /\ step # "evict" /\ step' # "evict"
    BY <1>1 DEF ToolStart, ToolRuns, NodeNotAllocated, Quiet, path
  <2> QED
    BY <2>1, DigestFrame DEF Upcoming, digests
<1>2. ASSUME NEW len \in Lengths, PushBegin(len)
      PROVE  DigestInv'
  <2>1. UNCHANGED <<nodes, ring, head, held>> /\ step # "evict" /\ RingTypes
    BY <1>2 DEF PushBegin, path, digests, DigestInv
  <2>2. CASE len > Capacity
    <3>1. torn' = torn /\ next' = next /\ step' = "idle"
      BY <1>2, <2>2 DEF PushBegin, path, Quiet
    <3> QED
      BY <2>1, <3>1, DigestFrame DEF Upcoming
  <2>3. CASE torn' = TRUE
    BY <2>1, <2>3, DigestTorn DEF RingTypes
  <2>4. CASE /\ torn' = torn /\ next' = next + 1 /\ step' = "evict"
             /\ record' = [seq |-> next, len |-> len, dep |-> pending, auto |-> step = "made"]
    <3>1. Upcoming' = Upcoming /\ record'.seq = Upcoming'
      BY <2>1, <2>4 DEF Upcoming, PathTypes
    <3>2. Chained => Chained'
      BY <2>1, <2>4, <3>1 DEF Chained, Slot
    <3> QED
      BY <2>1, <2>4, <3>2 DEF DigestInv, RingTypes
  <2> QED
    BY <1>2, <2>2, <2>3, <2>4 DEF PushBegin
<1>3. CASE EvictOldest
  <2>1. UNCHANGED <<ring, head, held, next, record, step>> /\ step = "evict"
    BY <1>3 DEF EvictOldest, digests
  <2>2. CASE torn' = torn
    BY <2>1, <2>2 DEF DigestInv, RingTypes, Chained, Slot, Upcoming
  <2>3. CASE torn' = TRUE
    BY <2>1, <2>3, DigestTorn DEF DigestInv, RingTypes
  <2> QED
    BY <1>3, <2>2, <2>3 DEF EvictOldest
<1>4. CASE PushEnd
    BY <1>4, PushEndKeepsDigests
<1>5. CASE PushFails \/ RollbackFails
    BY <1>5, DigestTorn DEF PushFails, RollbackFails, DigestInv, RingTypes, digests
<1>6. ASSUME NoDigests, step' = "idle", torn' \in BOOLEAN
      PROVE  DigestInv'
  <2>1. held' = 0 /\ head' = 0 /\ ring' = [i \in 0 .. DigestMax - 1 |-> NoDigest]
    BY <1>6 DEF NoDigests
  <2>2. RingTypes'
    BY <1>6, <2>1, ContextAssumption DEF RingTypes, NoDigest
  <2> QED
    BY <1>6, <2>1, <2>2, DigestEmpty
<1>7. CASE Clear
    BY <1>6, <1>7 DEF Clear
<1>8. ASSUME NEW keep \in 1 .. MaxNodes, Rollback(keep)
      PROVE  DigestInv'
  <2>1. NoDigests /\ step' = "idle" /\ Sync(pathLen', keep, dropped, first, first + keep)
    BY <1>8 DEF Rollback
  <2>2. torn' \in BOOLEAN
    BY <2>1, SyncPublishes DEF DigestInv, RingTypes
  <2> QED
    BY <1>6, <2>1, <2>2
<1> QED
    BY <1>1, <1>2, <1>3, <1>4, <1>5, <1>7, <1>8 DEF ContextOther

LEMMA DigestNext ==
    ASSUME PathTypes, DigestInv, [Next]_vars
    PROVE  DigestInv'
<1>1. ASSUME NEW i \in Inodes, Read(i)
      PROVE  DigestInv'
  <2>1. UNCHANGED <<nodes, next, ring, head, held, torn>> /\ step # "evict" /\ step' # "evict"
    BY <1>1 DEF Read, ToolReads, path, digests
  <2> QED
    BY <2>1, DigestFrame DEF Upcoming
<1>2. CASE ContextOther
    BY <1>2, AgentKeepsDigests
<1>3. CASE UNCHANGED contextVars
    BY <1>3 DEF contextVars, DigestInv, RingTypes, Chained, Slot, Upcoming
<1> QED
    BY <1>1, <1>2, <1>3 DEF Next, vars

LEMMA DigestInit == ContextInit => DigestInv
<1> SUFFICES ASSUME ContextInit PROVE DigestInv
    OBVIOUS
<1>1. held = 0 /\ head = 0 /\ ring = [i \in 0 .. DigestMax - 1 |-> NoDigest] /\ step = "idle"
    BY DEF ContextInit
<1>2. torn \in BOOLEAN
    BY DEF ContextInit
<1>3. RingTypes
    BY <1>1, <1>2, ContextAssumption DEF RingTypes, NoDigest
<1>4. 1 .. held = {}
    BY <1>1
<1> QED
    BY <1>1, <1>3, <1>4 DEF DigestInv, Chained

(* The digests vouch for the path, for a ring of any size, unless a page was  *)
(* missing since the last clear: the chain the program can have verified ends *)
(* at the newest record and has no digest of a record that was rolled back,   *)
(* through any number of turns of the ring.                                   *)
THEOREM RingVouches == Spec => []DigestsVouch
<1>1. Init => PathInv /\ DigestInv
    BY PathInit, DigestInit DEF Init
<1>2. PathInv /\ DigestInv /\ [Next]_vars => (PathInv /\ DigestInv)'
    BY PathNext, DigestNext DEF PathInv
<1>3. PathInv /\ DigestInv => DigestsVouch
    BY DigestsFollow DEF PathInv
<1> QED
    BY <1>1, <1>2, <1>3, PTL DEF Spec

----------------------------------------------------------------------------
(* The index: a walk holds the root, and has entered the files up to where it *)
(* has come, as long as the table has room; when nobody walks, a table that   *)
(* has been made is whole.  It says what the inodes say unless a change is    *)
(* still to build, and the postings say what it says unless a build is on.    *)
Shorter(m, n) == IF m <= n THEN m ELSE n
Dirty == \E a \in Agents : call[a].at = "build" /\ call[a].query = None
Changing == \E a \in Agents : call[a].at \in {"build", "walk", "rebuild", "bump"} /\ call[a].query = None

Calls == {NoCall}
         \cup [at: {"build", "walk", "rebuild"}, walked: 0 .. FileCount, query: Queries \cup {None}]
         \cup [at: {"bump"}, walked: {0}, query: {None}]
         \cup [at: {"scan"}, walked: {0}, query: Queries]
         \cup [at: {"store"}, query: Queries, result: SUBSET Files, scanned: Nat, torn: BOOLEAN]

CacheTypes ==
    /\ attr \in [Files -> Values \cup {None}]
    /\ meta \in Seq([file: Files, value: Values \cup {None}])
    /\ ready \in BOOLEAN /\ fsVersion \in Nat
    /\ root \in Agents \cup {None}
    /\ call \in [Agents -> Calls]

RootHeld == \A a \in Agents : root = a <=> call[a].at = "walk"

Entered ==
    /\ \A i \in 1 .. Len(meta) : meta[i].file = i /\ (~ Dirty => meta[i].value = attr[i])
    /\ \A a \in Agents : root = a => Len(meta) = Shorter(call[a].walked, MetaMax)
    /\ root = None /\ (ready \/ \E a \in Agents : call[a].at = "rebuild") =>
         Len(meta) = Shorter(FileCount, MetaMax)

PostingsKept == ready /\ ~ Building => postings = Posted
ScansReady == \A a \in Agents : call[a].at = "scan" => ready

IndexInv == CacheTypes /\ RootHeld /\ Entered /\ PostingsKept /\ ScansReady

LEMMA CallFields ==
    ASSUME CacheTypes, NEW a \in Agents
    PROVE  /\ call[a].at \in {"build", "walk", "rebuild"} =>
                call[a].walked \in 0 .. FileCount /\ call[a].query \in Queries \cup {None}
           /\ call[a].at = "bump" => call[a].query = None
           /\ call[a].at = "scan" => call[a].query \in Queries
           /\ call[a].at = "store" => call[a] \in [at: {"store"}, query: Queries, result: SUBSET Files,
                                                   scanned: Nat, torn: BOOLEAN]
BY DEF CacheTypes, Calls, NoCall

LEMMA EnterFields ==
    ASSUME CacheTypes, NEW a \in Agents, NEW c \in Calls, Enter(a, c)
    PROVE  /\ call' \in [Agents -> Calls]
           /\ call'[a] = c
           /\ \A b \in Agents : b # a => call'[b] = call[b]
BY DEF CacheTypes, Enter

(* A whole table that nobody owes a change answers from the attributes.       *)
LEMMA AnswersTruly ==
    ASSUME IndexInv, ready, ~ Building, ~ Dirty, NEW q \in Queries
    PROVE  Answer(q) = Truth(q)
<1> DEFINE n == Len(meta)
<1>1. /\ CacheTypes /\ Entered /\ postings = Posted
      /\ FileCount \in Nat /\ MetaMax \in Nat /\ q.value # None
    BY QueryCacheAssumption DEF IndexInv, PostingsKept
<1>2. root = None
    BY DEF IndexInv, CacheTypes, RootHeld, Building
<1>3. n = Shorter(FileCount, MetaMax)
    BY <1>1, <1>2 DEF Entered
<1>4. 1 .. n = Indexed
    BY <1>1, <1>3 DEF Indexed, Files, Shorter
<1>5. \A i \in 1 .. n : meta[i].file = i /\ meta[i].value = attr[i]
    BY <1>1 DEF Entered
<1>6. Truth(q) = {i \in 1 .. n : attr[i] = q.value}
    BY <1>4 DEF Truth
<1>7. {j \in 1 .. n : Matches(q, meta[j].value)} = Truth(q)
    BY <1>5, <1>6 DEF Matches
<1>8. ASSUME NEW S \in SUBSET (1 .. n)
      PROVE  {meta[i].file : i \in S} = S
    BY <1>5
<1>9. \A j \in Truth(q) : <<meta[j].file, q.value>> \in postings
  <2> SUFFICES ASSUME NEW j \in Truth(q) PROVE <<meta[j].file, q.value>> \in Posted
    BY <1>1
  <2>1. j \in 1 .. n /\ meta[j].value = q.value
    BY <1>5, <1>6
  <2>2. <<meta[j].file, meta[j].value>>[2] = meta[j].value
    OBVIOUS
  <2> QED
    BY <1>1, <2>1, <2>2 DEF Posted
<1>10. Truth(q) \in SUBSET (1 .. n)
    BY <1>6
<1>11. {j \in 1 .. n : Matches(q, meta[j].value) /\ <<meta[j].file, q.value>> \in postings} = Truth(q)
    BY <1>7, <1>9, <1>10
<1> QED
    BY <1>7, <1>8, <1>10, <1>11 DEF Answer

LEMMA IndexFollows ==
    ASSUME IndexInv
    PROVE  IndexIsTrue
BY AnswersTruly DEF IndexIsTrue, Settled, Building, Dirty

----------------------------------------------------------------------------
LEMMA SetAttrKeepsIndex ==
    ASSUME IndexInv, NEW a \in Agents, NEW f \in Files, NEW v \in Values \cup {None}, SetAttr(a, f, v)
    PROVE  IndexInv'
<1> DEFINE c == Build("build", 0, None)
<1>1. c \in Calls /\ c.at = "build" /\ c.query = None
    BY QueryCacheAssumption DEF Calls, Build
<1>2. /\ call' \in [Agents -> Calls] /\ call'[a] = c /\ call[a].at = "idle"
      /\ \A b \in Agents : b # a => call'[b] = call[b]
      /\ UNCHANGED <<meta, postings, ready, fsVersion, cache, root>>
      /\ attr' \in [Files -> Values \cup {None}]
    BY <1>1, EnterFields DEF IndexInv, CacheTypes, SetAttr
<1>3. Dirty'
    BY <1>1, <1>2 DEF Dirty
<1>4. \A b \in Agents, s \in {"walk", "rebuild", "scan"} : call'[b].at = s <=> call[b].at = s
    BY <1>1, <1>2
<1>5. CacheTypes' /\ RootHeld' /\ ScansReady'
    BY <1>2, <1>4 DEF IndexInv, CacheTypes, RootHeld, ScansReady
<1>6. \A b \in Agents : root = b => call'[b] = call[b]
    BY <1>2 DEF IndexInv, RootHeld
<1>7. Entered'
    BY <1>2, <1>3, <1>4, <1>6 DEF IndexInv, Entered
<1>8. PostingsKept'
    BY <1>2, <1>4 DEF IndexInv, PostingsKept, Building, Posted
<1> QED
    BY <1>5, <1>7, <1>8 DEF IndexInv

LEMMA BuildBeginKeepsIndex ==
    ASSUME IndexInv, NEW a \in Agents, BuildBegin(a)
    PROVE  IndexInv'
<1> DEFINE c == Build("walk", 0, call[a].query)
<1>0. FileCount \in Nat /\ MetaMax \in Nat
    BY QueryCacheAssumption
<1>1. c \in Calls /\ c.at = "walk" /\ c.walked = 0
    BY <1>0, CallFields DEF Calls, Build, BuildBegin, IndexInv
<1>2. /\ call' \in [Agents -> Calls] /\ call'[a] = c /\ call[a].at = "build"
      /\ \A b \in Agents : b # a => call'[b] = call[b]
      /\ UNCHANGED <<attr, ready, fsVersion, cache>>
      /\ root = None /\ root' = a /\ meta' = <<>>
    BY <1>1, EnterFields DEF IndexInv, BuildBegin
<1>3. a # None
    BY QueryCacheAssumption
<1>4. \A b \in Agents : call[b].at # "walk"
    BY <1>2, QueryCacheAssumption DEF IndexInv, RootHeld
<1>5. CacheTypes' /\ RootHeld' /\ ScansReady'
    BY <1>1, <1>2, <1>4 DEF IndexInv, CacheTypes, RootHeld, ScansReady
<1>6. Entered'
  <2>1. Len(meta') = 0 /\ 1 .. Len(meta') = {}
    BY <1>2
  <2>2. Shorter(0, MetaMax) = 0
    BY <1>0 DEF Shorter
  <2> QED
    BY <1>1, <1>2, <1>3, <2>1, <2>2 DEF Entered
<1>7. PostingsKept'
    BY <1>1, <1>2 DEF PostingsKept, Building
<1> QED
    BY <1>5, <1>6, <1>7 DEF IndexInv

LEMMA WalkKeepsIndex ==
    ASSUME IndexInv, NEW a \in Agents, Walk(a)
    PROVE  IndexInv'
<1> DEFINE f == call[a].walked + 1
           c == Build("walk", f, call[a].query)
<1>0. FileCount \in Nat /\ MetaMax \in Nat
    BY QueryCacheAssumption
<1>1. call[a].walked \in 0 .. FileCount /\ f \in Files /\ call[a].at = "walk"
      /\ call[a].query \in Queries \cup {None}
    BY CallFields DEF IndexInv, Walk
<1>2. c \in Calls /\ c.at = "walk" /\ c.walked = f /\ c.query = call[a].query
    BY <1>0, <1>1 DEF Calls, Build, Files
<1>3. /\ call' \in [Agents -> Calls] /\ call'[a] = c
      /\ \A b \in Agents : b # a => call'[b] = call[b]
      /\ UNCHANGED <<attr, postings, ready, fsVersion, cache, root>>
      /\ meta' = IF Len(meta) < MetaMax THEN Append(meta, [file |-> f, value |-> attr[f]]) ELSE meta
    BY <1>2, EnterFields DEF IndexInv, Walk
<1>4. \A b \in Agents : call'[b].at = call[b].at
    BY <1>1, <1>2, <1>3
<1>5. root = a /\ Len(meta) = Shorter(call[a].walked, MetaMax) /\ Len(meta) \in Nat
    BY <1>1 DEF IndexInv, RootHeld, Entered, CacheTypes
<1>6. [file |-> f, value |-> attr[f]] \in [file: Files, value: Values \cup {None}]
    BY <1>1 DEF IndexInv, CacheTypes
<1>7. CacheTypes' /\ RootHeld' /\ ScansReady'
  <2>1. meta' \in Seq([file: Files, value: Values \cup {None}])
    <3> DEFINE M == [file: Files, value: Values \cup {None}]
               m == [file |-> f, value |-> attr[f]]
    <3>1. meta \in Seq(M)
      BY DEF IndexInv, CacheTypes
    <3>2. m \in M
      BY <1>6
    <3>3. meta' = Append(meta, m) \/ meta' = meta
      BY <1>3
    <3> HIDE DEF M, m
    <3>4. meta' \in Seq(M)
      BY <3>1, <3>2, <3>3
    <3> QED
      BY <3>4 DEF M
  <2>2. CacheTypes'
    BY <1>3, <2>1 DEF IndexInv, CacheTypes
  <2>3. RootHeld' /\ ScansReady'
    BY <1>3, <1>4 DEF IndexInv, RootHeld, ScansReady
  <2> QED
    BY <2>2, <2>3
<1>8. Dirty' => Dirty
    BY <1>1, <1>2, <1>3, <1>4 DEF Dirty
<1>9. Dirty => Dirty'
    BY <1>1, <1>2, <1>3, <1>4 DEF Dirty
<1>10. CASE Len(meta) < MetaMax
  <2>1. Len(meta) = call[a].walked /\ f = Len(meta) + 1
    BY <1>0, <1>1, <1>5, <1>10 DEF Shorter
  <2>2. /\ Len(meta') = f
        /\ \A i \in 1 .. Len(meta) : meta'[i] = meta[i]
        /\ meta'[f] = [file |-> f, value |-> attr[f]]
    BY <1>3, <1>10, <2>1 DEF IndexInv, CacheTypes
  <2>3. Len(meta') = Shorter(f, MetaMax)
    BY <1>0, <1>1, <1>10, <2>1, <2>2 DEF Shorter
  <2>4. \A i \in 1 .. Len(meta') : i \in 1 .. Len(meta) \/ i = f
    BY <1>5, <2>1, <2>2
  <2>5. \A i \in 1 .. Len(meta') : meta'[i].file = i /\ (~ Dirty => meta'[i].value = attr[i])
    BY <2>2, <2>4 DEF IndexInv, Entered
  <2> QED
    BY <1>2, <1>3, <1>5, <1>7, <1>8, <1>9, <2>3, <2>5, QueryCacheAssumption DEF Entered, IndexInv, PostingsKept, Building
<1>11. CASE ~ (Len(meta) < MetaMax)
  <2>1. meta' = meta
    BY <1>3, <1>11
  <2>2. Len(meta) = Shorter(f, MetaMax)
    BY <1>0, <1>1, <1>5, <1>11 DEF Shorter
  <2> QED
    BY <1>2, <1>3, <1>5, <1>7, <1>8, <1>9, <2>1, <2>2, QueryCacheAssumption DEF Entered, IndexInv, PostingsKept, Building
<1> QED
    BY <1>10, <1>11

LEMMA WalkEndKeepsIndex ==
    ASSUME IndexInv, NEW a \in Agents, WalkEnd(a)
    PROVE  IndexInv'
<1> DEFINE c == Build("rebuild", FileCount, call[a].query)
<1>0. FileCount \in Nat /\ MetaMax \in Nat
    BY QueryCacheAssumption
<1>1. call[a].walked = FileCount /\ call[a].at = "walk" /\ call[a].query \in Queries \cup {None}
    BY CallFields DEF IndexInv, WalkEnd
<1>2. c \in Calls /\ c.at = "rebuild"
    BY <1>0, <1>1 DEF Calls, Build
<1>3. /\ call' \in [Agents -> Calls] /\ call'[a] = c
      /\ \A b \in Agents : b # a => call'[b] = call[b]
      /\ UNCHANGED <<attr, meta, postings, ready, fsVersion, cache>>
      /\ root' = None
    BY <1>2, EnterFields DEF IndexInv, WalkEnd
<1>4. root = a /\ Len(meta) = Shorter(FileCount, MetaMax)
    BY <1>1 DEF IndexInv, RootHeld, Entered
<1>5. a # None /\ \A b \in Agents : b # None
    BY QueryCacheAssumption
<1>6. CacheTypes' /\ RootHeld' /\ ScansReady'
    BY <1>2, <1>3, <1>4, <1>5 DEF IndexInv, CacheTypes, RootHeld, ScansReady
<1>7. Dirty => Dirty'
    BY <1>1, <1>3 DEF Dirty
<1>8. Entered'
    BY <1>3, <1>4, <1>5, <1>7 DEF IndexInv, Entered
<1>9. PostingsKept'
    BY <1>2, <1>3 DEF PostingsKept, Building
<1> QED
    BY <1>6, <1>8, <1>9 DEF IndexInv

LEMMA BuildEndKeepsIndex ==
    ASSUME IndexInv, NEW a \in Agents, BuildEnd(a)
    PROVE  IndexInv'
<1> DEFINE c == Build(IF call[a].query = None THEN "bump" ELSE "scan", 0, call[a].query)
<1>1. call[a].at = "rebuild" /\ call[a].query \in Queries \cup {None}
    BY CallFields DEF IndexInv, BuildEnd
<1>2. c \in Calls /\ c.at \in {"bump", "scan"}
    BY <1>1 DEF Calls, Build
<1>3. /\ call' \in [Agents -> Calls] /\ call'[a] = c
      /\ \A b \in Agents : b # a => call'[b] = call[b]
      /\ UNCHANGED <<attr, meta, fsVersion, cache, root>>
      /\ postings' = Posted /\ ready' = TRUE
    BY <1>2, EnterFields DEF IndexInv, BuildEnd
<1>4. \A b \in Agents : call'[b].at = "walk" <=> call[b].at = "walk"
    BY <1>1, <1>2, <1>3
<1>5. CacheTypes' /\ RootHeld' /\ ScansReady'
    BY <1>2, <1>3, <1>4 DEF IndexInv, CacheTypes, RootHeld, ScansReady
<1>6. Dirty => Dirty'
    BY <1>1, <1>3 DEF Dirty
<1>7. \A b \in Agents : root = b => call'[b] = call[b]
    BY <1>1, <1>3 DEF IndexInv, RootHeld
<1>8. Entered'
    BY <1>1, <1>3, <1>6, <1>7 DEF IndexInv, Entered
<1>9. PostingsKept'
    BY <1>3 DEF PostingsKept, Posted
<1> QED
    BY <1>5, <1>8, <1>9 DEF IndexInv

(* A step outside the build changes nothing the index is about.               *)
LEMMA OtherKeepsIndex ==
    ASSUME IndexInv, NEW a \in Agents, NEW c \in Calls, Enter(a, c),
           UNCHANGED <<attr, meta, postings, ready, root>>, fsVersion' \in Nat,
           call[a].at \notin {"build", "walk", "rebuild"},
           c.at \notin {"walk", "rebuild"}, c.at = "build" => c.query # None,
           c.at = "scan" => ready
    PROVE  IndexInv'
<1>1. /\ call' \in [Agents -> Calls] /\ call'[a] = c
      /\ \A b \in Agents : b # a => call'[b] = call[b]
    BY EnterFields DEF IndexInv
<1>2. \A b \in Agents, s \in {"walk", "rebuild"} : call'[b].at = s <=> call[b].at = s
    BY <1>1
<1>3. CacheTypes' /\ RootHeld' /\ ScansReady'
    BY <1>1, <1>2 DEF IndexInv, CacheTypes, RootHeld, ScansReady
<1>4. Dirty => Dirty'
    BY <1>1 DEF Dirty
<1>5. \A b \in Agents : root = b => call'[b] = call[b]
    BY <1>1 DEF IndexInv, RootHeld
<1>6. Entered'
    BY <1>2, <1>4, <1>5 DEF IndexInv, Entered
<1>7. PostingsKept'
    BY <1>2 DEF IndexInv, PostingsKept, Building, Posted
<1> QED
    BY <1>3, <1>6, <1>7 DEF IndexInv

LEMMA IndexInit == CacheInit => IndexInv
<1> SUFFICES ASSUME CacheInit PROVE IndexInv
    OBVIOUS
<1>1. \A a \in Agents : call[a] = NoCall /\ call[a].at = "idle" /\ a # None
    BY QueryCacheAssumption DEF CacheInit, NoCall
<1>2. meta = <<>> /\ Len(meta) = 0 /\ 1 .. Len(meta) = {}
    BY DEF CacheInit
<1>3. CacheTypes
  <2>1. ready \in BOOLEAN
    BY DEF CacheInit
  <2>2. call \in [Agents -> Calls]
    BY DEF CacheInit, Calls
  <2> QED
    BY <1>2, <2>1, <2>2 DEF CacheInit, CacheTypes
<1>4. RootHeld /\ Entered /\ PostingsKept /\ ScansReady
    BY <1>1, <1>2 DEF CacheInit, RootHeld, Entered, PostingsKept, ScansReady
<1> QED
    BY <1>3, <1>4 DEF IndexInv

----------------------------------------------------------------------------
(* The cache: a result that was scanned under the version of now, not in the  *)
(* middle of a build, is what the attributes say, unless somebody is on the   *)
(* way to the next version.                                                   *)
Sound(c) == c.scanned = fsVersion /\ ~ c.torn => Changing \/ c.result = Truth(c.query)
ResultInv ==
    /\ \A a \in Agents : call[a].at = "store" => call[a].scanned <= fsVersion /\ Sound(call[a])
    /\ DOMAIN cache = Slots
    /\ \A s \in Slots : cache[s].used =>
         cache[s].scanned \in Nat /\ cache[s].scanned <= fsVersion /\ Sound(cache[s])

LEMMA ResultsFrame ==
    ASSUME ResultInv, attr' = attr, fsVersion' = fsVersion, Changing => Changing',
           \A a \in Agents : call'[a].at = "store" =>
             call'[a] = call[a] \/ (call'[a].scanned <= fsVersion /\ Sound(call'[a])),
           DOMAIN cache' = Slots,
           \A s \in Slots : \/ cache'[s] = cache[s]
    \/ (cache'[s].scanned \in Nat /\ cache'[s].scanned <= fsVersion /\ Sound(cache'[s]))
    PROVE  ResultInv'
<1>1. \A c : Sound(c) => (c.scanned = fsVersion' /\ ~ c.torn => Changing' \/ c.result = {f \in Indexed : attr'[f] = c.query.value})
    BY DEF Sound, Truth
<1>2. ASSUME NEW a \in Agents, call'[a].at = "store"
      PROVE  call'[a].scanned <= fsVersion' /\ Sound(call[a])'
  <2>1. call'[a].scanned <= fsVersion /\ Sound(call'[a])
    BY <1>2 DEF ResultInv
  <2> QED
    BY <1>1, <2>1 DEF Sound, Truth
<1>3. ASSUME NEW s \in Slots, cache'[s].used
      PROVE  cache'[s].scanned \in Nat /\ cache'[s].scanned <= fsVersion' /\ Sound(cache[s])'
  <2>1. cache'[s].scanned \in Nat /\ cache'[s].scanned <= fsVersion /\ Sound(cache'[s])
    BY <1>3 DEF ResultInv
  <2> QED
    BY <1>1, <2>1 DEF Sound, Truth
<1> QED
    BY <1>2, <1>3 DEF ResultInv

(* Steps that leave the attributes, the version and the cache alone, and      *)
(* nobody's change half done.                                                 *)
LEMMA BuildsKeepResults ==
    ASSUME CacheTypes, ResultInv, NEW a \in Agents, NEW c \in Calls, Enter(a, c),
           UNCHANGED <<attr, fsVersion, cache>>, Changing => Changing', c.at # "store"
    PROVE  ResultInv'
<1>1. /\ call'[a] = c
      /\ \A b \in Agents : b # a => call'[b] = call[b]
    BY EnterFields
<1>2. ASSUME NEW b \in Agents, call'[b].at = "store"
      PROVE  call'[b] = call[b] \/ (call'[b].scanned <= fsVersion /\ Sound(call'[b]))
    BY <1>1, <1>2
<1>3. attr' = attr /\ fsVersion' = fsVersion /\ cache' = cache /\ DOMAIN cache' = Slots
    BY DEF ResultInv
<1>4. \A s \in Slots : \/ cache'[s] = cache[s]
    \/ (cache'[s].scanned \in Nat /\ cache'[s].scanned <= fsVersion /\ Sound(cache'[s]))
    BY <1>3, Zenon
<1> QED
    BY <1>2, <1>3, <1>4, ResultsFrame, Zenon

LEMMA SetAttrKeepsResults ==
    ASSUME IndexInv, ResultInv, NEW a \in Agents, NEW f \in Files, NEW v \in Values \cup {None},
           SetAttr(a, f, v)
    PROVE  ResultInv'
<1> DEFINE c == Build("build", 0, None)
<1>1. c \in Calls /\ c.at = "build" /\ c.query = None
    BY QueryCacheAssumption DEF Calls, Build
<1>2. /\ call'[a] = c
      /\ \A b \in Agents : b # a => call'[b] = call[b]
      /\ UNCHANGED <<fsVersion, cache>>
    BY <1>1, EnterFields DEF IndexInv, SetAttr
<1>3. Changing'
    BY <1>1, <1>2 DEF Changing
<1> QED
    BY <1>1, <1>2, <1>3 DEF ResultInv, Sound

LEMMA BumpKeepsResults ==
    ASSUME IndexInv, ResultInv, NEW a \in Agents, BumpGlobal(a)
    PROVE  ResultInv'
<1>1. /\ call'[a] = NoCall /\ NoCall.at = "idle"
      /\ \A b \in Agents : b # a => call'[b] = call[b]
      /\ fsVersion' = fsVersion + 1 /\ cache' = cache /\ fsVersion \in Nat
    BY EnterFields DEF IndexInv, CacheTypes, BumpGlobal, NoCall, Calls
<1>2. \A n \in Nat : n <= fsVersion => n <= fsVersion' /\ n # fsVersion'
    BY <1>1
<1>3. ASSUME NEW b \in Agents, call'[b].at = "store"
      PROVE  call'[b].scanned <= fsVersion' /\ call'[b].scanned # fsVersion'
  <2>1. call'[b] = call[b]
    BY <1>1, <1>3
  <2>2. call[b].scanned \in Nat
    BY <1>3, <2>1, CallFields DEF IndexInv
  <2> QED
    BY <1>2, <1>3, <2>1, <2>2 DEF ResultInv
<1>4. ASSUME NEW s \in Slots, cache'[s].used
      PROVE  cache'[s].scanned <= fsVersion' /\ cache'[s].scanned # fsVersion'
  <2>1. cache[s].scanned \in Nat
    BY <1>1, <1>4 DEF ResultInv
  <2> QED
    BY <1>1, <1>2, <1>4, <2>1 DEF ResultInv
<1> QED
    BY <1>1, <1>3, <1>4 DEF ResultInv, Sound

LEMMA ScanCalls ==
    ASSUME IndexInv, NEW a \in Agents, Scan(a)
    PROVE  [at |-> "store", query |-> call[a].query, result |-> Answer(call[a].query),
            scanned |-> fsVersion, torn |-> Building] \in Calls
<1> DEFINE c == [at |-> "store", query |-> call[a].query, result |-> Answer(call[a].query),
                 scanned |-> fsVersion, torn |-> Building]
<1>0. call[a].at = "scan" /\ call[a].query \in Queries /\ ready /\ fsVersion \in Nat
    BY CallFields DEF Scan, IndexInv, ScansReady, CacheTypes
<1>1. Answer(call[a].query) \in SUBSET Files
  <2>1. \A i \in 1 .. Len(meta) : meta[i].file \in Files
    <3> DEFINE M == [file: Files, value: Values \cup {None}]
    <3>1. meta \in Seq(M)
      BY DEF IndexInv, CacheTypes
    <3>2. \A m \in M : m.file \in Files
      OBVIOUS
    <3> HIDE DEF M
    <3> QED
      BY <3>1, <3>2
  <2> QED
    BY <2>1 DEF Answer
<1>2. c \in Calls
  <2>1. Building \in BOOLEAN
    BY DEF Building
  <2> HIDE DEF Calls
  <2>2. c \in [at: {"store"}, query: Queries, result: SUBSET Files, scanned: Nat, torn: BOOLEAN]
    BY <1>0, <1>1, <2>1
  <2> QED
    BY <2>2 DEF Calls
<1> QED
    BY <1>2

LEMMA ScanKeepsResults ==
    ASSUME IndexInv, ResultInv, NEW a \in Agents, Scan(a)
    PROVE  ResultInv'
<1> DEFINE c == [at |-> "store", query |-> call[a].query, result |-> Answer(call[a].query),
                 scanned |-> fsVersion, torn |-> Building]
<1>0. call[a].at = "scan" /\ call[a].query \in Queries /\ ready /\ fsVersion \in Nat
    BY CallFields DEF Scan, IndexInv, ScansReady, CacheTypes
<1>2. c \in Calls
    BY ScanCalls
<1>3. /\ call'[a] = c
      /\ \A b \in Agents : b # a => call'[b] = call[b]
      /\ UNCHANGED <<attr, fsVersion, cache>>
    BY <1>2, EnterFields DEF IndexInv, Scan
<1>4. Changing' <=> Changing
    BY <1>0, <1>3 DEF Changing
<1>5. ~ c.torn => Changing \/ c.result = Truth(c.query)
  <2>1. CASE Dirty
    BY <2>1 DEF Dirty, Changing
  <2>2. CASE ~ Dirty /\ ~ Building
    <3>1. Answer(call[a].query) = Truth(call[a].query)
      BY <1>0, <2>2, AnswersTruly
    <3> QED
      BY <3>1
  <2>3. CASE Building
    BY <2>3
  <2> QED
    BY <2>1, <2>2, <2>3
<1>6. c.scanned <= fsVersion /\ Sound(c)
    BY <1>0, <1>5 DEF Sound
<1>7. attr' = attr /\ fsVersion' = fsVersion /\ cache' = cache /\ DOMAIN cache' = Slots
    BY <1>3 DEF ResultInv
<1>8. ASSUME NEW b \in Agents, call'[b].at = "store"
      PROVE  call'[b] = call[b] \/ (call'[b].scanned <= fsVersion /\ Sound(call'[b]))
  <2> HIDE DEF c
  <2>1. CASE b = a
    BY <1>3, <1>6, <2>1, Zenon
  <2>2. CASE b # a
    BY <1>3, <2>2, Zenon
  <2> QED
    BY <2>1, <2>2
<1>9. \A s \in Slots : \/ cache'[s] = cache[s]
    \/ (cache'[s].scanned \in Nat /\ cache'[s].scanned <= fsVersion /\ Sound(cache'[s]))
    BY <1>7, Zenon
<1> QED
    BY <1>4, <1>7, <1>8, <1>9, ResultsFrame, Zenon

LEMMA StoreKeepsResults ==
    ASSUME IndexInv, ResultInv, NEW a \in Agents, Store(a)
    PROVE  ResultInv'
<1> DEFINE e == Entry(a, call[a], fsVersion)
           k == SlotFor(call[a].query)
<1>0. /\ call[a].at = "store" /\ fsVersion \in Nat
      /\ call[a] \in [at: {"store"}, query: Queries, result: SUBSET Files, scanned: Nat, torn: BOOLEAN]
    BY CallFields DEF Store, IndexInv, CacheTypes
<1>1. /\ call'[a] = NoCall /\ NoCall.at = "idle"
      /\ \A b \in Agents : b # a => call'[b] = call[b]
      /\ UNCHANGED <<attr, fsVersion>> /\ cache' = [cache EXCEPT ![k] = e]
    BY EnterFields DEF IndexInv, CacheTypes, Store, NoCall, Calls
<1>3. /\ e.scanned = call[a].scanned /\ e.result = call[a].result /\ e.query = call[a].query
      /\ (~ e.torn => ~ call[a].torn)
    BY DEF Entry
<1>4. Changing' <=> Changing
    BY <1>0, <1>1 DEF Changing
<1>5. e.scanned \in Nat /\ e.scanned <= fsVersion /\ Sound(e)
    BY <1>0, <1>3 DEF ResultInv, Sound
<1>6. DOMAIN cache' = Slots /\ \A s \in Slots : cache'[s] = cache[s] \/ cache'[s] = e
    BY <1>1 DEF ResultInv
<1>7. ASSUME NEW b \in Agents, call'[b].at = "store"
      PROVE  call'[b] = call[b] \/ (call'[b].scanned <= fsVersion /\ Sound(call'[b]))
  <2>1. b # a
    BY <1>1, <1>7
  <2> QED
    BY <1>1, <2>1, Zenon
<1>8. ASSUME NEW s \in Slots
      PROVE  \/ cache'[s] = cache[s]
    \/ (cache'[s].scanned \in Nat /\ cache'[s].scanned <= fsVersion /\ Sound(cache'[s]))
  <2> HIDE DEF e
  <2> QED
    BY <1>5, <1>6, Zenon
<1>9. attr' = attr /\ fsVersion' = fsVersion
    BY <1>1
<1> QED
    BY <1>4, <1>6, <1>7, <1>8, <1>9, ResultsFrame, Zenon

LEMMA CacheStep ==
    ASSUME IndexInv, ResultInv, [CacheNext]_cacheVars
    PROVE  IndexInv' /\ ResultInv'
<1>0. NoCall \in Calls /\ NoCall.at = "idle" /\ fsVersion \in Nat /\ CacheTypes
    BY DEF Calls, NoCall, IndexInv, CacheTypes
<1>1. ASSUME NEW a \in Agents, NEW f \in Files, NEW v \in Values \cup {None}, SetAttr(a, f, v)
      PROVE  IndexInv' /\ ResultInv'
    BY <1>1, SetAttrKeepsIndex, SetAttrKeepsResults
<1>2. ASSUME NEW a \in Agents, BuildBegin(a)
      PROVE  IndexInv' /\ ResultInv'
  <2> DEFINE c == Build("walk", 0, call[a].query)
  <2>1. c \in Calls /\ c.at = "walk" /\ c.query = call[a].query /\ call[a].at = "build"
    BY <1>0, <1>2, CallFields, QueryCacheAssumption DEF Calls, Build, BuildBegin
  <2>2. /\ Enter(a, c) /\ UNCHANGED <<attr, fsVersion, cache>>
        /\ call'[a] = c /\ \A b \in Agents : b # a => call'[b] = call[b]
    BY <1>0, <1>2, <2>1, EnterFields DEF BuildBegin
  <2>3. Changing => Changing'
    BY <2>1, <2>2 DEF Changing
  <2> QED
    BY <1>0, <1>2, <2>1, <2>2, <2>3, BuildBeginKeepsIndex, BuildsKeepResults
<1>3. ASSUME NEW a \in Agents, Walk(a)
      PROVE  IndexInv' /\ ResultInv'
  <2> DEFINE c == Build("walk", call[a].walked + 1, call[a].query)
  <2>1. c \in Calls /\ c.at = "walk" /\ c.query = call[a].query /\ call[a].at = "walk"
    BY <1>0, <1>3, CallFields, QueryCacheAssumption DEF Calls, Build, Walk, Files
  <2>2. /\ Enter(a, c) /\ UNCHANGED <<attr, fsVersion, cache>>
        /\ call'[a] = c /\ \A b \in Agents : b # a => call'[b] = call[b]
    BY <1>0, <1>3, <2>1, EnterFields DEF Walk
  <2>3. Changing => Changing'
    BY <2>1, <2>2 DEF Changing
  <2> QED
    BY <1>0, <1>3, <2>1, <2>2, <2>3, WalkKeepsIndex, BuildsKeepResults
<1>4. ASSUME NEW a \in Agents, WalkEnd(a)
      PROVE  IndexInv' /\ ResultInv'
  <2> DEFINE c == Build("rebuild", FileCount, call[a].query)
  <2>1. c \in Calls /\ c.at = "rebuild" /\ c.query = call[a].query /\ call[a].at = "walk"
    BY <1>0, <1>4, CallFields, QueryCacheAssumption DEF Calls, Build, WalkEnd
  <2>2. /\ Enter(a, c) /\ UNCHANGED <<attr, fsVersion, cache>>
        /\ call'[a] = c /\ \A b \in Agents : b # a => call'[b] = call[b]
    BY <1>0, <1>4, <2>1, EnterFields DEF WalkEnd
  <2>3. Changing => Changing'
    BY <2>1, <2>2 DEF Changing
  <2> QED
    BY <1>0, <1>4, <2>1, <2>2, <2>3, WalkEndKeepsIndex, BuildsKeepResults
<1>5. ASSUME NEW a \in Agents, BuildEnd(a)
      PROVE  IndexInv' /\ ResultInv'
  <2> DEFINE c == Build(IF call[a].query = None THEN "bump" ELSE "scan", 0, call[a].query)
  <2>1. /\ c \in Calls /\ c.at # "store" /\ c.query = call[a].query
        /\ c.query = None => c.at = "bump"
    BY <1>0, <1>5, CallFields DEF Calls, Build, BuildEnd
  <2>2. /\ Enter(a, c) /\ UNCHANGED <<attr, fsVersion, cache>>
        /\ call'[a] = c /\ \A b \in Agents : b # a => call'[b] = call[b]
    BY <1>0, <1>5, <2>1, EnterFields DEF BuildEnd
  <2>3. Changing => Changing'
    BY <2>1, <2>2 DEF Changing
  <2> QED
    BY <1>0, <1>5, <2>1, <2>2, <2>3, BuildEndKeepsIndex, BuildsKeepResults
<1>6. ASSUME NEW a \in Agents, BumpGlobal(a)
      PROVE  IndexInv' /\ ResultInv'
    BY <1>0, <1>6, BumpKeepsResults, OtherKeepsIndex DEF BumpGlobal
<1>7. ASSUME NEW a \in Agents, NEW q \in Queries, QueryMiss(a, q)
      PROVE  IndexInv' /\ ResultInv'
  <2> DEFINE c == Build(IF ready THEN "scan" ELSE "build", 0, q)
  <2>1. /\ c \in Calls /\ c.at \in {"scan", "build"} /\ c.query # None
        /\ c.at = "scan" => ready
    BY QueryCacheAssumption DEF Calls, Build
  <2>2. /\ Enter(a, c) /\ UNCHANGED <<attr, meta, postings, ready, fsVersion, cache, root>>
        /\ call'[a] = c /\ \A b \in Agents : b # a => call'[b] = call[b]
        /\ call[a].at = "idle"
    BY <1>0, <1>7, <2>1, EnterFields DEF QueryMiss
  <2>3. Changing => Changing'
    BY <2>2 DEF Changing
  <2> QED
    BY <1>0, <2>1, <2>2, <2>3, OtherKeepsIndex, BuildsKeepResults
<1>8. ASSUME NEW a \in Agents, Scan(a)
      PROVE  IndexInv' /\ ResultInv'
  <2> DEFINE c == [at |-> "store", query |-> call[a].query, result |-> Answer(call[a].query),
                   scanned |-> fsVersion, torn |-> Building]
  <2>1. c \in Calls /\ c.at = "store"
    BY <1>8, ScanCalls
  <2>2. IndexInv'
    BY <1>0, <1>8, <2>1, OtherKeepsIndex DEF Scan
  <2> QED
    BY <1>8, <2>2, ScanKeepsResults
<1>9. ASSUME NEW a \in Agents, Store(a)
      PROVE  IndexInv' /\ ResultInv'
    BY <1>0, <1>9, StoreKeepsResults, OtherKeepsIndex DEF Store
<1>10. CASE UNCHANGED cacheVars
  <2>1. IndexInv'
    BY <1>10 DEF cacheVars, IndexInv, CacheTypes, RootHeld, Entered, PostingsKept, ScansReady,
                 Dirty, Building, Posted
  <2>2. ResultInv'
    BY <1>10 DEF cacheVars, ResultInv, Sound, Truth, Changing
  <2> QED
    BY <2>1, <2>2
<1> QED
    BY <1>1, <1>2, <1>3, <1>4, <1>5, <1>6, <1>7, <1>8, <1>9, <1>10 DEF CacheNext

LEMMA ResultInit == CacheInit => ResultInv
BY DEF CacheInit, ResultInv, NoCall, Vacant

(* Whatever builds overlapped, once nobody is building the index answers      *)
(* every query from the attributes, for any agents, files and table size.     *)
THEOREM IndexAnswersTruly == CacheSpec => []IndexIsTrue
<1>1. CacheInit => IndexInv /\ ResultInv
    BY IndexInit, ResultInit
<1>2. IndexInv /\ ResultInv /\ [CacheNext]_cacheVars => (IndexInv /\ ResultInv)'
    BY CacheStep
<1> QED
    BY <1>1, <1>2, IndexFollows, PTL DEF CacheSpec

(* Once the changes are over the shared cache serves nothing the attributes   *)
(* do not say, unless it was scanned during a build or overtaken by a change. *)
THEOREM CacheServesTruth == CacheSpec => []CacheIsTrue
<1>1. CacheInit => IndexInv /\ ResultInv
    BY IndexInit, ResultInit
<1>2. IndexInv /\ ResultInv /\ [CacheNext]_cacheVars => (IndexInv /\ ResultInv)'
    BY CacheStep
<1>3. ResultInv => CacheIsTrue
    BY DEF ResultInv, Sound, CacheIsTrue, NoChange, Changing, Served
<1> QED
    BY <1>1, <1>2, <1>3, PTL DEF CacheSpec

-----------------------------------------------------------------------------
(* The dynamic tools, also when kills fall between the test of the flag and   *)
(* the sleep.  The argument: every slot in use is the slot of exactly one     *)
(* caller, which alone gives it back; who is not awake waits for something    *)
(* that has not come; and tools belong to the living, so that a request       *)
(* without an answer has somebody who still can answer it or whose exit will. *)

\* An answer is one for the id of its request, or SERVICE_GONE.
AnswersFit ==
    \A i \in SlotIndex : slots[i].replied =>
        slots[i].status = "gone" \/ slots[i].result = slots[i].id

\* Tools belong to processes that live.
OwnersLive ==
    \A t \in ToolIndex : tools[t] # NoTool => pc[tools[t].owner] # "gone"

\* NoMissedWakeup, and the same of who still is about to fall asleep.
Resting ==
    \A p \in Procs : wait[p] # "awake" =>
        /\ pc[p] \in {"call", "recv"}
        /\ Calling(p) => ~Answered(p)
        /\ pc[p] = "recv" => Undelivered(p) = {}

ToolsInv ==
    /\ ToolsTypeOK
    /\ CallersKeepSlots
    /\ SlotsHaveCallers
    /\ AnswersFit
    /\ OwnersLive
    /\ Resting

-----------------------------------------------------------------------------
\* What the entries of the tables are.
LEMMA Entries ==
    ASSUME ToolsTypeOK
    PROVE  /\ \A i \in SlotIndex : slots[i].used => slots[i] \in Request
           /\ \A i \in SlotIndex : ~slots[i].used => slots[i] = Empty
           /\ \A t \in ToolIndex, n \in Names :
                 tools[t].name = n => tools[t] \in Tool /\ tools[t] # NoTool
           /\ NoTool \notin Tool
           /\ Empty \notin Request
<1>1. ASSUME NEW i \in SlotIndex PROVE slots[i] \in Request \union {Empty}
  BY DEF ToolsTypeOK
<1>2. ~Empty.used /\ \A slot \in Request : slot.used
  BY DEF Empty, Request
<1>3. NoTool.name = NoName /\ \A tool \in Tool : tool.name \in Names
  BY DEF NoTool, Tool
<1>4. ASSUME NEW t \in ToolIndex PROVE tools[t] \in Tool \union {NoTool}
  BY DEF ToolsTypeOK
<1> QED
  BY <1>1, <1>2, <1>3, <1>4, ToolsAssumption

LEMMA NewRequestFields ==
    ASSUME NEW p \in Procs, NEW s \in Procs, nextId \in Ids
    PROVE  NewRequest(p, s) \in Request
BY DEF NewRequest, Request

LEMMA Delivering ==
    ASSUME NEW slot \in Request
    PROVE  Delivered(slot) \in Request
BY DEF Delivered, Request

LEMMA Answering ==
    ASSUME NEW slot \in Request, NEW status \in {"ok", "gone"},
           NEW result \in Ids \union {0}
    PROVE  WithAnswer(slot, status, result) \in Request
BY DEF WithAnswer, Request

\* A wakeup in a region leaves everybody awake but the caller itself.
LEMMA AllAwake ==
    ASSUME ToolsTypeOK, NEW p \in Procs, Unlocked
    PROVE  /\ Woken(p) \in [Procs -> {"awake", "falling", "asleep"}]
           /\ \A q \in Procs : q # p => Woken(p)[q] = "awake"
           /\ Woken(p)[p] = wait[p]
BY DEF ToolsTypeOK, Unlocked, Woken

-----------------------------------------------------------------------------
(* Types.                                                                   *)

LEMMA TypeInit == ToolsInit => ToolsTypeOK
<1> SUFFICES ASSUME ToolsInit PROVE ToolsTypeOK
  OBVIOUS
<1>1. 1 \in 1..(MaxId + 1)
  BY ToolsAssumption
<1> QED
  BY <1>1 DEF ToolsInit, ToolsTypeOK

LEMMA TypeStep == ToolsTypeOK /\ [ToolsNext]_toolsVars => ToolsTypeOK'
<1> SUFFICES ASSUME ToolsTypeOK, [ToolsNext]_toolsVars PROVE ToolsTypeOK'
  OBVIOUS
<1>1. ASSUME NEW p \in Procs, NEW n \in Names, NEW public \in BOOLEAN,
             Register(p, n, public)
      PROVE  ToolsTypeOK'
  <2>1. [name |-> n, owner |-> p, group |-> ProcGroup[p], public |-> public] \in Tool
    BY ToolsAssumption DEF Tool
  <2>2. tools' \in [ToolIndex -> Tool \union {NoTool}]
    BY <1>1, <2>1 DEF Register, ToolsTypeOK
  <2> QED
    BY <1>1, <2>2 DEF Register, ToolsTypeOK, callVars
<1>2. ASSUME NEW p \in Procs, NEW n \in Names, Call(p, n)
      PROVE  ToolsTypeOK'
  <2>1. PICK t \in ToolIndex, i \in SlotIndex :
          /\ tools[t].name = n
          /\ wait' = [Woken(p) EXCEPT ![p] =
                        IF p \in killed THEN "awake" ELSE "falling"]
          /\ IF p \in killed
             THEN UNCHANGED <<slots, pc, callVars>>
             ELSE /\ slots' = [slots EXCEPT ![i] = NewRequest(p, tools[t].owner)]
                  /\ pc' = [pc EXCEPT ![p] = "call"]
                  /\ slotOf' = [slotOf EXCEPT ![p] = i]
                  /\ reqOf' = [reqOf EXCEPT ![p] = nextId]
    BY <1>2 DEF Call
  <2>2. nextId \in Ids /\ nextId' = nextId + 1 /\ UNCHANGED <<tools, got, killed>>
        /\ Unlocked
    BY <1>2 DEF Call
  <2>3. tools[t].owner \in Procs
    BY <2>1, Entries DEF Tool
  <2>4. NewRequest(p, tools[t].owner) \in Request
    BY <2>2, <2>3, NewRequestFields
  <2>5. wait' \in [Procs -> {"awake", "falling", "asleep"}]
    BY <2>1, <2>2, AllAwake
  <2>6. nextId' \in 1..(MaxId + 1)
    BY <2>2, ToolsAssumption DEF Ids
  <2>7. CASE p \in killed
    BY <2>1, <2>2, <2>5, <2>6, <2>7 DEF ToolsTypeOK, callVars
  <2>8. CASE p \notin killed
    <3>1. slots' \in [SlotIndex -> Request \union {Empty}]
      BY <2>1, <2>4, <2>8 DEF ToolsTypeOK
    <3> QED
      BY <2>1, <2>2, <2>5, <2>6, <2>8, <3>1 DEF ToolsTypeOK, callVars
  <2> QED
    BY <2>7, <2>8
<1>3. ASSUME NEW p \in Procs, CallTurn(p)
      PROVE  ToolsTypeOK'
  <2>1. Woken(p) \in [Procs -> {"awake", "falling", "asleep"}]
    BY <1>3, AllAwake DEF CallTurn
  <2>2. slots' \in [SlotIndex -> Request \union {Empty}]
    BY <1>3 DEF CallTurn, Freed, ToolsTypeOK
  <2>3. wait' \in [Procs -> {"awake", "falling", "asleep"}]
    BY <1>3, <2>1 DEF CallTurn, ToolsTypeOK
  <2>4. /\ pc' \in [Procs -> {"user", "call", "recv", "gone"}]
        /\ slotOf' \in [Procs -> SlotIndex \union {0}]
        /\ reqOf' \in [Procs -> Ids \union {0}]
    BY <1>3 DEF CallTurn, ToolsTypeOK, callVars
  <2> QED
    BY <1>3, <2>2, <2>3, <2>4 DEF CallTurn, ToolsTypeOK
<1>4. ASSUME NEW p \in Procs, FallAsleep(p)
      PROVE  ToolsTypeOK'
  BY <1>4 DEF FallAsleep, ToolsTypeOK, callVars
<1>5. ASSUME NEW p \in Procs, RecvEnter(p)
      PROVE  ToolsTypeOK'
  BY <1>5 DEF RecvEnter, ToolsTypeOK, callVars
<1>6. ASSUME NEW p \in Procs, RecvTurn(p)
      PROVE  ToolsTypeOK'
  <2>1. CASE UNCHANGED <<slots, got>>
    BY <1>6, <2>1 DEF RecvTurn, ToolsTypeOK, callVars
  <2>2. ASSUME NEW i \in SlotIndex, NEW ok \in Copyouts,
               i \in Undelivered(p),
               slots' = [slots EXCEPT ![i] = Delivered(slots[i])],
               got' = IF ok THEN [got EXCEPT ![p] = @ \union {slots[i].id}]
                      ELSE got,
               pc' = [pc EXCEPT ![p] = "user"],
               UNCHANGED wait
        PROVE  ToolsTypeOK'
    <3>1. slots[i] \in Request
      BY <2>2, Entries DEF Undelivered
    <3>2. Delivered(slots[i]) \in Request
      BY <3>1, Delivering
    <3>3. slots' \in [SlotIndex -> Request \union {Empty}]
      BY <2>2, <3>2 DEF ToolsTypeOK
    <3>4. got' \in [Procs -> SUBSET Ids]
      BY <2>2, <3>1 DEF ToolsTypeOK, Request
    <3> QED
      BY <1>6, <2>2, <3>3, <3>4 DEF RecvTurn, ToolsTypeOK, callVars
  <2> QED
    BY <1>6, <2>1, <2>2 DEF RecvTurn, Lowest
<1>7. ASSUME NEW p \in Procs, NEW id \in Ids, Reply(p, id)
      PROVE  ToolsTypeOK'
  <2>1. PICK i \in SlotIndex :
          /\ Lowest(i, Awaiting(p, id))
          /\ slots' = [slots EXCEPT ![i] = WithAnswer(slots[i], "ok", id)]
    BY <1>7 DEF Reply
  <2>2. slots[i] \in Request
    BY <2>1, Entries DEF Lowest, Awaiting
  <2>3. WithAnswer(slots[i], "ok", id) \in Request
    BY <2>2, Answering
  <2>4. slots' \in [SlotIndex -> Request \union {Empty}]
    BY <2>1, <2>3 DEF ToolsTypeOK
  <2>5. wait' \in [Procs -> {"awake", "falling", "asleep"}]
    BY <1>7, AllAwake DEF Reply
  <2> QED
    BY <1>7, <2>4, <2>5 DEF Reply, ToolsTypeOK, callVars
<1>8. ASSUME NEW p \in Procs, Exit(p)
      PROVE  ToolsTypeOK'
  <2>1. ASSUME NEW i \in SlotIndex
        PROVE  slots'[i] \in Request \union {Empty}
    <3>1. CASE slots[i].used /\ slots[i].caller = p
      BY <1>8, <3>1 DEF Exit
    <3>2. CASE ~(slots[i].used /\ slots[i].caller = p) /\ Orphan(slots[i], p)
      <4>1. slots[i] \in Request
        BY <3>2, Entries DEF Orphan
      <4>2. slots'[i] = WithAnswer(slots[i], "gone", slots[i].result)
        BY <1>8, <3>2 DEF Exit
      <4>3. slots[i].result \in Ids \union {0}
        BY <4>1 DEF Request
      <4> QED
        BY <4>1, <4>2, <4>3, Answering
    <3>3. CASE ~(slots[i].used /\ slots[i].caller = p) /\ ~Orphan(slots[i], p)
      BY <1>8, <3>3 DEF Exit, ToolsTypeOK
    <3> QED
      BY <3>1, <3>2, <3>3
  <2>2. slots' \in [SlotIndex -> Request \union {Empty}]
    BY <1>8, <2>1 DEF Exit
  <2>3. tools' \in [ToolIndex -> Tool \union {NoTool}]
    BY <1>8 DEF Exit, ToolsTypeOK
  <2>4. wait' \in [Procs -> {"awake", "falling", "asleep"}]
    BY <1>8, AllAwake DEF Exit
  <2> QED
    BY <1>8, <2>2, <2>3, <2>4 DEF Exit, ToolsTypeOK, callVars
<1>9. ASSUME NEW p \in Procs, Kill(p)
      PROVE  ToolsTypeOK'
  BY <1>9 DEF Kill, ToolsTypeOK, callVars
<1>10. CASE UNCHANGED toolsVars
  BY <1>10 DEF toolsVars, callVars, ToolsTypeOK
<1> QED
  BY <1>1, <1>2, <1>3, <1>4, <1>5, <1>6, <1>7, <1>8, <1>9, <1>10 DEF ToolsNext

\* DynamicTools: the tables hold requests and tools of the right form only,
\* and a slot that is not in use is empty.
THEOREM ToolTypes == ToolsSpec => []ToolsTypeOK
<1>1. ToolsInit => ToolsTypeOK
  BY TypeInit
<1>2. ToolsTypeOK /\ [ToolsNext]_toolsVars => ToolsTypeOK'
  BY TypeStep
<1> QED
  BY <1>1, <1>2, PTL DEF ToolsSpec

-----------------------------------------------------------------------------
(* The invariant, action by action.                                         *)

Rest ==
    /\ CallersKeepSlots
    /\ SlotsHaveCallers
    /\ AnswersFit
    /\ OwnersLive
    /\ Resting

LEMMA RestInit == ToolsInit => Rest
BY DEF ToolsInit, Rest, CallersKeepSlots, SlotsHaveCallers, AnswersFit, OwnersLive,
       Resting, Calling, Empty

\* A wakeup by somebody who does not go to sleep leaves nobody at rest.
LEMMA NobodyRests ==
    ASSUME ToolsTypeOK, NEW p \in Procs, Unlocked, wait[p] = "awake" \/ pc[p] = "user",
           Resting, wait' = Woken(p)
    PROVE  Resting'
<1>1. wait[p] = "awake"
  BY DEF Resting, ToolsTypeOK
<1>2. \A q \in Procs : wait'[q] = "awake"
  BY <1>1, AllAwake
<1> QED
  BY <1>2 DEF Resting

\* Whom a used slot belongs to.
LEMMA CallerOfSlot ==
    ASSUME Rest, ToolsTypeOK, NEW i \in SlotIndex, slots[i].used
    PROVE  /\ slots[i].caller \in Procs
           /\ Calling(slots[i].caller)
           /\ slotOf[slots[i].caller] = i
           /\ slots[i].replied \/ pc[slots[i].service] # "gone"
BY DEF Rest, SlotsHaveCallers, CallersKeepSlots

LEMMA RegisterKeeps ==
    ASSUME Rest, ToolsTypeOK, NEW p \in Procs, NEW n \in Names, NEW public \in BOOLEAN,
           Register(p, n, public)
    PROVE  Rest'
<1>1. PICK t \in ToolIndex :
        tools' = [tools EXCEPT ![t] = [name |-> n, owner |-> p,
                                       group |-> ProcGroup[p], public |-> public]]
  BY DEF Register
<1>2. pc[p] # "gone" /\ UNCHANGED <<slots, pc, wait, slotOf, reqOf>>
  BY DEF Register, InUser, callVars
<1>3. OwnersLive'
  BY <1>1, <1>2 DEF Rest, OwnersLive, ToolsTypeOK
<1> QED
  BY <1>2, <1>3 DEF Rest, CallersKeepSlots, SlotsHaveCallers, AnswersFit, Resting,
                    Calling, Answered, Undelivered

LEMMA CallKeeps ==
    ASSUME Rest, ToolsTypeOK, NEW p \in Procs, NEW n \in Names, Call(p, n)
    PROVE  Rest'
<1>1. PICK t \in ToolIndex, i \in SlotIndex :
        /\ tools[t].name = n
        /\ Lowest(i, {j \in SlotIndex : ~slots[j].used})
        /\ wait' = [Woken(p) EXCEPT ![p] =
                      IF p \in killed THEN "awake" ELSE "falling"]
        /\ IF p \in killed
           THEN UNCHANGED <<slots, pc, callVars>>
           ELSE /\ slots' = [slots EXCEPT ![i] = NewRequest(p, tools[t].owner)]
                /\ pc' = [pc EXCEPT ![p] = "call"]
                /\ slotOf' = [slotOf EXCEPT ![p] = i]
                /\ reqOf' = [reqOf EXCEPT ![p] = nextId]
  BY DEF Call
<1>2. Unlocked /\ pc[p] = "user" /\ UNCHANGED <<tools, killed>>
  BY DEF Call, InUser
<1>3. \A q \in Procs : q # p => wait'[q] = "awake"
  BY <1>1, <1>2, AllAwake
<1>4. wait'[p] = IF p \in killed THEN "awake" ELSE "falling"
  BY <1>1, <1>2, AllAwake
<1>5. ~slots[i].used
  BY <1>1 DEF Lowest
<1>6. tools[t].owner \in Procs /\ pc[tools[t].owner] # "gone"
  BY <1>1, Entries DEF Tool, Rest, OwnersLive
<1>7. CASE p \in killed
  <2>1. Resting'
    BY <1>3, <1>4, <1>7 DEF Resting
  <2> QED
    BY <1>1, <1>2, <1>7, <2>1 DEF Rest, CallersKeepSlots, SlotsHaveCallers,
                                  AnswersFit, OwnersLive, Calling, callVars
<1>8. CASE p \notin killed
  <2> DEFINE new == NewRequest(p, tools[t].owner)
  <2>1. /\ new.used /\ new.caller = p /\ new.id = nextId /\ ~new.replied
        /\ new.service = tools[t].owner /\ ~new.delivered
    BY DEF NewRequest
  <2>2. \A j \in SlotIndex : slots'[j] = IF j = i THEN new ELSE slots[j]
    BY <1>1, <1>8 DEF ToolsTypeOK
  <2>3. \A q \in Procs : /\ pc'[q] = IF q = p THEN "call" ELSE pc[q]
                         /\ slotOf'[q] = IF q = p THEN i ELSE slotOf[q]
                         /\ reqOf'[q] = IF q = p THEN nextId ELSE reqOf[q]
    BY <1>1, <1>8 DEF ToolsTypeOK
  <2> HIDE DEF new
  <2>4. CallersKeepSlots'
    <3> SUFFICES ASSUME NEW q \in Procs, pc'[q] = "call"
                 PROVE  /\ slotOf'[q] \in SlotIndex
                        /\ slots'[slotOf'[q]].used
                        /\ slots'[slotOf'[q]].caller = q
                        /\ slots'[slotOf'[q]].id = reqOf'[q]
                        /\ \/ slots'[slotOf'[q]].replied
                           \/ pc'[slots'[slotOf'[q]].service] # "gone"
      BY DEF CallersKeepSlots, Calling
    <3>1. CASE q = p
      BY <1>6, <2>1, <2>2, <2>3, <3>1
    <3>2. CASE q # p
      <4>1. /\ slotOf[q] \in SlotIndex /\ slots[slotOf[q]].used
            /\ slots[slotOf[q]].caller = q /\ slots[slotOf[q]].id = reqOf[q]
            /\ slots[slotOf[q]].replied \/ pc[slots[slotOf[q]].service] # "gone"
        BY <2>3, <3>2 DEF Rest, CallersKeepSlots, Calling
      <4>2. slots[slotOf[q]].service \in Procs
        BY <4>1, Entries DEF Request
      <4> QED
        BY <1>5, <2>2, <2>3, <3>2, <4>1, <4>2
    <3> QED
      BY <3>1, <3>2
  <2>5. SlotsHaveCallers'
    <3> SUFFICES ASSUME NEW j \in SlotIndex, slots'[j].used
                 PROVE  \E q \in Procs : pc'[q] = "call" /\ slotOf'[q] = j
      BY DEF SlotsHaveCallers, Calling
    <3>1. CASE j = i
      BY <2>3, <3>1
    <3>2. CASE j # i
      BY <1>2, <2>2, <2>3, <3>2 DEF Rest, SlotsHaveCallers, Calling
    <3> QED
      BY <3>1, <3>2
  <2>6. AnswersFit'
    BY <2>1, <2>2 DEF Rest, AnswersFit
  <2>7. OwnersLive'
    <3> SUFFICES ASSUME NEW u \in ToolIndex, tools[u] # NoTool
                 PROVE  pc'[tools[u].owner] # "gone"
      BY <1>2 DEF OwnersLive
    <3>1. tools[u].owner \in Procs
      BY DEF ToolsTypeOK, Tool
    <3> QED
      BY <2>3, <3>1 DEF Rest, OwnersLive
  <2>8. Resting'
    <3> SUFFICES ASSUME NEW q \in Procs, wait'[q] # "awake"
                 PROVE  pc'[q] = "call" /\ ~slots'[slotOf'[q]].replied
      BY DEF Resting, Calling, Answered
    <3> QED
      BY <1>3, <2>1, <2>2, <2>3
  <2> QED
    BY <2>4, <2>5, <2>6, <2>7, <2>8 DEF Rest
<1> QED
  BY <1>7, <1>8

LEMMA CallTurnKeeps ==
    ASSUME Rest, ToolsTypeOK, NEW p \in Procs, CallTurn(p)
    PROVE  Rest'
<1>1. /\ pc[p] = "call" /\ wait[p] = "awake" /\ Unlocked
      /\ UNCHANGED <<tools, killed>>
  BY DEF CallTurn
<1>2. /\ slotOf[p] \in SlotIndex
      /\ slots[slotOf[p]].used /\ slots[slotOf[p]].caller = p
      /\ slots[slotOf[p]].id = reqOf[p]
  BY <1>1 DEF Rest, CallersKeepSlots, Calling
<1>3. ~Lost(p)
  BY <1>2 DEF Lost
<1>4. CASE Answered(p) \/ GivesUp(p)
  <2>1. /\ slots' = [slots EXCEPT ![slotOf[p]] = Empty]
        /\ wait' = Woken(p)
        /\ pc' = [pc EXCEPT ![p] = "user"]
        /\ slotOf' = [slotOf EXCEPT ![p] = 0]
        /\ reqOf' = [reqOf EXCEPT ![p] = 0]
    BY <1>4 DEF CallTurn, Freed
  <2>2. Resting'
    BY <1>1, <2>1, NobodyRests DEF Rest
  <2>3. \A q \in Procs : /\ pc'[q] = IF q = p THEN "user" ELSE pc[q]
                         /\ slotOf'[q] = IF q = p THEN 0 ELSE slotOf[q]
                         /\ reqOf'[q] = IF q = p THEN 0 ELSE reqOf[q]
    BY <2>1 DEF ToolsTypeOK
  <2>4. \A j \in SlotIndex :
           slots'[j] = IF j = slotOf[p] THEN Empty ELSE slots[j]
    BY <2>1 DEF ToolsTypeOK
  <2>5. ~Empty.used /\ ~Empty.replied
    BY DEF Empty
  <2>6. CallersKeepSlots'
    <3> SUFFICES ASSUME NEW q \in Procs, pc'[q] = "call"
                 PROVE  /\ slotOf'[q] \in SlotIndex
                        /\ slots'[slotOf'[q]].used
                        /\ slots'[slotOf'[q]].caller = q
                        /\ slots'[slotOf'[q]].id = reqOf'[q]
                        /\ \/ slots'[slotOf'[q]].replied
                           \/ pc'[slots'[slotOf'[q]].service] # "gone"
      BY DEF CallersKeepSlots, Calling
    <3>1. q # p /\ pc[q] = "call"
      BY <2>3
    <3>2. /\ slotOf[q] \in SlotIndex /\ slots[slotOf[q]].used
          /\ slots[slotOf[q]].caller = q /\ slots[slotOf[q]].id = reqOf[q]
          /\ slots[slotOf[q]].replied \/ pc[slots[slotOf[q]].service] # "gone"
      BY <3>1 DEF Rest, CallersKeepSlots, Calling
    <3>3. slots[slotOf[q]].service \in Procs
      BY <3>2, Entries DEF Request
    <3>4. slotOf[q] # slotOf[p]
      BY <1>2, <3>1, <3>2
    <3> QED
      BY <2>3, <2>4, <3>1, <3>2, <3>3, <3>4
  <2>7. SlotsHaveCallers'
    <3> SUFFICES ASSUME NEW j \in SlotIndex, slots'[j].used
                 PROVE  \E q \in Procs : pc'[q] = "call" /\ slotOf'[q] = j
      BY DEF SlotsHaveCallers, Calling
    <3>1. j # slotOf[p] /\ slots[j].used
      BY <2>4, <2>5
    <3> QED
      BY <2>3, <3>1 DEF Rest, SlotsHaveCallers, Calling
  <2>8. AnswersFit'
    BY <2>4, <2>5 DEF Rest, AnswersFit
  <2>9. OwnersLive'
    <3> SUFFICES ASSUME NEW u \in ToolIndex, tools[u] # NoTool
                 PROVE  pc'[tools[u].owner] # "gone"
      BY <1>1 DEF OwnersLive
    <3>1. tools[u].owner \in Procs
      BY DEF ToolsTypeOK, Tool
    <3> QED
      BY <2>3, <3>1 DEF Rest, OwnersLive
  <2> QED
    BY <2>2, <2>6, <2>7, <2>8, <2>9 DEF Rest
<1>5. CASE ~Answered(p) /\ ~GivesUp(p)
  <2>1. /\ UNCHANGED <<slots, pc, slotOf, reqOf>>
        /\ wait' = [wait EXCEPT ![p] = "falling"]
    BY <1>3, <1>5 DEF CallTurn, callVars
  <2>2. Resting'
    BY <1>1, <1>5, <2>1 DEF Rest, Resting, Calling, Answered, Undelivered, ToolsTypeOK
  <2> QED
    BY <1>1, <2>1, <2>2 DEF Rest, CallersKeepSlots, SlotsHaveCallers, AnswersFit,
                            OwnersLive, Calling
<1> QED
  BY <1>4, <1>5

LEMMA FallAsleepKeeps ==
    ASSUME Rest, ToolsTypeOK, NEW p \in Procs, FallAsleep(p)
    PROVE  Rest'
<1>1. /\ wait[p] = "falling" /\ wait' = [wait EXCEPT ![p] = "asleep"]
      /\ UNCHANGED <<tools, slots, pc, slotOf, reqOf>>
  BY DEF FallAsleep, callVars
<1>2. \A q \in Procs : wait'[q] # "awake" => wait[q] # "awake"
  BY <1>1 DEF ToolsTypeOK
<1>3. Resting'
  BY <1>1, <1>2 DEF Rest, Resting, Calling, Answered, Undelivered
<1> QED
  BY <1>1, <1>3 DEF Rest, CallersKeepSlots, SlotsHaveCallers, AnswersFit,
                    OwnersLive, Calling

\* A step that begins and ends no call and keeps whose request is whose.
LEMMA CallsStay ==
    ASSUME Rest, ToolsTypeOK, Resting',
           UNCHANGED <<tools, slotOf, reqOf>>,
           \A q \in Procs : /\ pc'[q] = "call" <=> pc[q] = "call"
                            /\ pc'[q] = "gone" <=> pc[q] = "gone",
           \A i \in SlotIndex :
              /\ slots'[i].used = slots[i].used
              /\ slots'[i].caller = slots[i].caller
              /\ slots'[i].service = slots[i].service
              /\ slots'[i].id = slots[i].id
              /\ slots[i].replied => slots'[i].replied
              /\ slots'[i].replied => \/ slots'[i].status = "gone"
                                      \/ slots'[i].result = slots'[i].id
    PROVE  Rest'
<1>1. \A q \in Procs : Calling(q)' <=> Calling(q)
  BY DEF Calling
<1>2. CallersKeepSlots'
  <2> SUFFICES ASSUME NEW q \in Procs, Calling(q)
               PROVE  /\ slotOf[q] \in SlotIndex
                      /\ slots'[slotOf[q]].used
                      /\ slots'[slotOf[q]].caller = q
                      /\ slots'[slotOf[q]].id = reqOf[q]
                      /\ \/ slots'[slotOf[q]].replied
                         \/ pc'[slots'[slotOf[q]].service] # "gone"
    BY <1>1 DEF CallersKeepSlots
  <2>1. /\ slotOf[q] \in SlotIndex /\ slots[slotOf[q]].used
        /\ slots[slotOf[q]].caller = q /\ slots[slotOf[q]].id = reqOf[q]
        /\ slots[slotOf[q]].replied \/ pc[slots[slotOf[q]].service] # "gone"
    BY DEF Rest, CallersKeepSlots
  <2>2. slots[slotOf[q]].service \in Procs
    BY <2>1, Entries DEF Request
  <2> QED
    BY <2>1, <2>2
<1>3. OwnersLive'
  <2> SUFFICES ASSUME NEW u \in ToolIndex, tools[u] # NoTool
               PROVE  pc'[tools[u].owner] # "gone"
    BY DEF OwnersLive
  <2>1. tools[u].owner \in Procs
    BY DEF ToolsTypeOK, Tool
  <2> QED
    BY <2>1 DEF Rest, OwnersLive
<1>4. SlotsHaveCallers' /\ AnswersFit'
  BY <1>1 DEF Rest, SlotsHaveCallers, AnswersFit
<1> QED
  BY <1>2, <1>3, <1>4 DEF Rest

LEMMA RecvEnterKeeps ==
    ASSUME Rest, ToolsTypeOK, NEW p \in Procs, RecvEnter(p)
    PROVE  Rest'
<1>1. /\ pc[p] = "user" /\ pc' = [pc EXCEPT ![p] = "recv"]
      /\ UNCHANGED <<tools, slots, wait, slotOf, reqOf>>
  BY DEF RecvEnter, InUser, callVars
<1>2. \A q \in Procs : pc'[q] = IF q = p THEN "recv" ELSE pc[q]
  BY <1>1 DEF ToolsTypeOK
<1>3. wait[p] = "awake"
  BY <1>1 DEF Rest, Resting
<1>4. Resting'
  BY <1>1, <1>2, <1>3 DEF Rest, Resting, Calling, Answered, Undelivered
<1> QED
  BY <1>1, <1>2, <1>4, CallsStay DEF Rest, AnswersFit

LEMMA RecvTurnKeeps ==
    ASSUME Rest, ToolsTypeOK, NEW p \in Procs, RecvTurn(p)
    PROVE  Rest'
<1>1. /\ pc[p] = "recv" /\ wait[p] = "awake" /\ Unlocked
      /\ UNCHANGED <<tools, slotOf, reqOf>>
  BY DEF RecvTurn, callVars
<1>3. ASSUME NEW i \in SlotIndex, i \in Undelivered(p),
             slots' = [slots EXCEPT ![i] = Delivered(slots[i])],
             pc' = [pc EXCEPT ![p] = "user"],
             UNCHANGED wait
      PROVE  Rest'
  <2>1. \A q \in Procs : pc'[q] = IF q = p THEN "user" ELSE pc[q]
    BY <1>3 DEF ToolsTypeOK
  <2>2. \A j \in SlotIndex :
           /\ slots'[j].used = slots[j].used
           /\ slots'[j].caller = slots[j].caller
           /\ slots'[j].service = slots[j].service
           /\ slots'[j].id = slots[j].id
           /\ slots'[j].replied = slots[j].replied
           /\ slots'[j].status = slots[j].status
           /\ slots'[j].result = slots[j].result
           /\ slots[j].delivered => slots'[j].delivered
    <3>1. \A j \in SlotIndex :
             slots'[j] = IF j = i THEN Delivered(slots[i]) ELSE slots[j]
      BY <1>3 DEF ToolsTypeOK
    <3> QED
      BY <3>1 DEF Delivered
  <2>3. Resting'
    <3> SUFFICES ASSUME NEW q \in Procs, wait'[q] # "awake"
                 PROVE  /\ pc'[q] \in {"call", "recv"}
                        /\ pc'[q] = "call" => ~slots'[slotOf'[q]].replied
                        /\ pc'[q] = "recv" =>
                             \A j \in SlotIndex :
                               ~(/\ slots'[j].used /\ ~slots'[j].delivered
                                 /\ slots'[j].service = q)
      BY DEF Resting, Calling, Answered, Undelivered
    <3>1. q # p /\ wait[q] # "awake" /\ pc'[q] = pc[q] /\ slotOf'[q] = slotOf[q]
      BY <1>1, <1>3, <2>1
    <3>2. /\ pc[q] \in {"call", "recv"}
          /\ pc[q] = "call" => ~slots[slotOf[q]].replied
          /\ pc[q] = "recv" => \A j \in SlotIndex :
                                 ~(/\ slots[j].used /\ ~slots[j].delivered
                                   /\ slots[j].service = q)
      BY <3>1 DEF Rest, Resting, Calling, Answered, Undelivered
    <3>3. pc[q] = "call" => slotOf[q] \in SlotIndex
      BY DEF Rest, CallersKeepSlots, Calling
    <3> QED
      BY <2>2, <3>1, <3>2, <3>3
  <2> QED
    BY <1>1, <2>1, <2>2, <2>3, CallsStay DEF Rest, AnswersFit
<1>4. CASE UNCHANGED <<slots, wait>> /\ pc' = [pc EXCEPT ![p] = "user"]
  <2>1. \A q \in Procs : pc'[q] = IF q = p THEN "user" ELSE pc[q]
    BY <1>4 DEF ToolsTypeOK
  <2>2. Resting'
    BY <1>1, <1>4, <2>1 DEF Rest, Resting, Calling, Answered, Undelivered
  <2> QED
    BY <1>1, <1>4, <2>1, <2>2, CallsStay DEF Rest, AnswersFit
<1>5. CASE /\ Undelivered(p) = {} /\ UNCHANGED <<slots, pc>>
           /\ wait' = [wait EXCEPT ![p] = "falling"]
  <2>1. \A q \in Procs : wait'[q] = IF q = p THEN "falling" ELSE wait[q]
    BY <1>5 DEF ToolsTypeOK
  <2>2. Resting'
    BY <1>1, <1>5, <2>1 DEF Rest, Resting, Calling, Answered, Undelivered
  <2> QED
    BY <1>1, <1>5, <2>2, CallsStay DEF Rest, AnswersFit
<1> QED
  BY <1>3, <1>4, <1>5 DEF RecvTurn, Lowest

LEMMA ReplyKeeps ==
    ASSUME Rest, ToolsTypeOK, NEW p \in Procs, NEW id \in Ids, Reply(p, id)
    PROVE  Rest'
<1>1. PICK i \in SlotIndex :
        /\ Lowest(i, Awaiting(p, id))
        /\ slots' = [slots EXCEPT ![i] = WithAnswer(slots[i], "ok", id)]
  BY DEF Reply
<1>2. /\ pc[p] = "user" /\ Unlocked /\ wait' = Woken(p)
      /\ UNCHANGED <<tools, pc, slotOf, reqOf>>
  BY DEF Reply, InUser, callVars
<1>3. Resting'
  BY <1>2, NobodyRests DEF Rest
<1>4. slots[i].id = id
  BY <1>1 DEF Lowest, Awaiting
<1>5. \A j \in SlotIndex :
         slots'[j] = IF j = i THEN WithAnswer(slots[i], "ok", id) ELSE slots[j]
  BY <1>1 DEF ToolsTypeOK
<1>6. \A j \in SlotIndex :
         /\ slots'[j].used = slots[j].used
         /\ slots'[j].caller = slots[j].caller
         /\ slots'[j].service = slots[j].service
         /\ slots'[j].id = slots[j].id
         /\ slots[j].replied => slots'[j].replied
         /\ slots'[j].replied => \/ slots'[j].status = "gone"
                                 \/ slots'[j].result = slots'[j].id
  <2> SUFFICES ASSUME NEW j \in SlotIndex
               PROVE  /\ slots'[j].used = slots[j].used
                      /\ slots'[j].caller = slots[j].caller
                      /\ slots'[j].service = slots[j].service
                      /\ slots'[j].id = slots[j].id
                      /\ slots[j].replied => slots'[j].replied
                      /\ slots'[j].replied => \/ slots'[j].status = "gone"
                                              \/ slots'[j].result = slots'[j].id
    OBVIOUS
  <2>1. CASE j = i
    BY <1>4, <1>5, <2>1 DEF WithAnswer
  <2>2. CASE j # i
    BY <1>5, <2>2 DEF Rest, AnswersFit
  <2> QED
    BY <2>1, <2>2
<1> QED
  BY <1>2, <1>3, <1>6, CallsStay

\* Only processes outside of every call exit, so no request of theirs is left.
LEMMA ExitKeeps ==
    ASSUME Rest, ToolsTypeOK, NEW p \in Procs, Exit(p)
    PROVE  Rest'
<1>1. /\ pc[p] = "user" /\ Unlocked /\ wait' = Woken(p)
      /\ pc' = [pc EXCEPT ![p] = "gone"] /\ UNCHANGED <<slotOf, reqOf>>
  BY DEF Exit, InUser, callVars
<1>2. \A q \in Procs : pc'[q] = IF q = p THEN "gone" ELSE pc[q]
  BY <1>1 DEF ToolsTypeOK
<1>3. ASSUME NEW i \in SlotIndex
      PROVE  slots'[i] = IF Orphan(slots[i], p)
                         THEN WithAnswer(slots[i], "gone", slots[i].result)
                         ELSE slots[i]
  <2>1. ~(slots[i].used /\ slots[i].caller = p)
    BY <1>1, CallerOfSlot DEF Calling
  <2> QED
    BY <2>1 DEF Exit
<1>4. \A i \in SlotIndex :
         /\ slots'[i].used = slots[i].used
         /\ slots'[i].caller = slots[i].caller
         /\ slots'[i].service = slots[i].service
         /\ slots'[i].id = slots[i].id
         /\ slots[i].replied => slots'[i].replied
         /\ slots[i].used /\ slots[i].service = p => slots'[i].replied
         /\ slots'[i].replied => \/ slots'[i].status = "gone"
                                 \/ slots'[i].result = slots'[i].id
  <2> SUFFICES ASSUME NEW i \in SlotIndex
               PROVE  /\ slots'[i].used = slots[i].used
                      /\ slots'[i].caller = slots[i].caller
                      /\ slots'[i].service = slots[i].service
                      /\ slots'[i].id = slots[i].id
                      /\ slots[i].replied => slots'[i].replied
                      /\ slots[i].used /\ slots[i].service = p => slots'[i].replied
                      /\ slots'[i].replied => \/ slots'[i].status = "gone"
                                              \/ slots'[i].result = slots'[i].id
    OBVIOUS
  <2>1. CASE Orphan(slots[i], p)
    <3>1. slots'[i] = WithAnswer(slots[i], "gone", slots[i].result)
      BY <1>3, <2>1
    <3> QED
      BY <3>1 DEF WithAnswer
  <2>2. CASE ~Orphan(slots[i], p)
    <3>1. slots'[i] = slots[i]
      BY <1>3, <2>2
    <3>2. slots[i].used /\ slots[i].service = p => slots[i].replied
      BY <2>2 DEF Orphan
    <3> QED
      BY <3>1, <3>2 DEF Rest, AnswersFit
  <2> QED
    BY <2>1, <2>2
<1>5. Resting'
  BY <1>1, NobodyRests DEF Rest
<1>6. CallersKeepSlots'
  <2> SUFFICES ASSUME NEW q \in Procs, pc'[q] = "call"
               PROVE  /\ slotOf[q] \in SlotIndex
                      /\ slots'[slotOf[q]].used
                      /\ slots'[slotOf[q]].caller = q
                      /\ slots'[slotOf[q]].id = reqOf[q]
                      /\ \/ slots'[slotOf[q]].replied
                         \/ pc'[slots'[slotOf[q]].service] # "gone"
    BY <1>1 DEF CallersKeepSlots, Calling
  <2>1. /\ slotOf[q] \in SlotIndex /\ slots[slotOf[q]].used
        /\ slots[slotOf[q]].caller = q /\ slots[slotOf[q]].id = reqOf[q]
        /\ slots[slotOf[q]].replied \/ pc[slots[slotOf[q]].service] # "gone"
    BY <1>1, <1>2 DEF Rest, CallersKeepSlots, Calling
  <2>2. slots[slotOf[q]].service \in Procs
    BY <2>1, Entries DEF Request
  <2> QED
    BY <1>2, <1>4, <2>1, <2>2
<1>7. SlotsHaveCallers'
  BY <1>1, <1>2, <1>4 DEF Rest, SlotsHaveCallers, Calling
<1>8. OwnersLive'
  <2> SUFFICES ASSUME NEW u \in ToolIndex, tools'[u] # NoTool
               PROVE  pc'[tools'[u].owner] # "gone"
    BY DEF OwnersLive
  <2>1. tools'[u] = tools[u] /\ tools[u].owner # p
    BY DEF Exit
  <2>2. tools[u].owner \in Procs
    BY <2>1 DEF ToolsTypeOK, Tool
  <2> QED
    BY <1>2, <2>1, <2>2 DEF Rest, OwnersLive
<1>9. AnswersFit'
  BY <1>4 DEF AnswersFit
<1> QED
  BY <1>5, <1>6, <1>7, <1>8, <1>9 DEF Rest

LEMMA KillKeeps ==
    ASSUME Rest, ToolsTypeOK, NEW p \in Procs, Kill(p)
    PROVE  Rest'
<1>1. /\ UNCHANGED <<tools, slots, pc, slotOf, reqOf>>
      /\ \A q \in Procs : wait'[q] # "awake" => wait[q] # "awake"
  BY DEF Kill, callVars, ToolsTypeOK
<1>2. Resting'
  BY <1>1 DEF Rest, Resting, Calling, Answered, Undelivered
<1> QED
  BY <1>1, <1>2, CallsStay DEF Rest, AnswersFit

LEMMA RestStep == ToolsTypeOK /\ Rest /\ [ToolsNext]_toolsVars => Rest'
<1> SUFFICES ASSUME ToolsTypeOK, Rest, [ToolsNext]_toolsVars PROVE Rest'
  OBVIOUS
<1>1. CASE UNCHANGED toolsVars
  BY <1>1 DEF toolsVars, callVars, Rest, CallersKeepSlots, SlotsHaveCallers,
              AnswersFit, OwnersLive, Resting, Calling, Answered, Undelivered
<1>2. CASE ToolsNext
  BY <1>2, RegisterKeeps, CallKeeps, CallTurnKeeps, FallAsleepKeeps,
     RecvEnterKeeps, RecvTurnKeeps, ReplyKeeps, ExitKeeps, KillKeeps DEF ToolsNext
<1> QED
  BY <1>1, <1>2

THEOREM RestHolds == ToolsSpec => [](ToolsTypeOK /\ Rest)
<1>1. ToolsInit => ToolsTypeOK /\ Rest
  BY TypeInit, RestInit
<1>2. ToolsTypeOK /\ Rest /\ [ToolsNext]_toolsVars => ToolsTypeOK' /\ Rest'
  BY TypeStep, RestStep
<1> QED
  BY <1>1, <1>2, PTL DEF ToolsSpec

\* agent_dynamic_tool_call: the slot a caller waits for keeps its request, so
\* the return "tool request lost" of the loop never happens, and a request
\* without an answer has a service that lives.
THEOREM SlotsAreKept == ToolsSpec => []CallersKeepSlots
<1>1. ToolsTypeOK /\ Rest => CallersKeepSlots
  BY DEF Rest
<1> QED
  BY <1>1, RestHolds, PTL

\* agent_dynamic_tool_call, agent_proc_exit: every slot in use has somebody
\* who waits for it and will give it back.
THEOREM NoSlotIsLeaked == ToolsSpec => []SlotsHaveCallers
<1>1. ToolsTypeOK /\ Rest => SlotsHaveCallers
  BY DEF Rest
<1> QED
  BY <1>1, RestHolds, PTL

\* sleep and wakeup on dynamic_requests: nobody sleeps through its answer or
\* its request, whenever it is killed.
THEOREM NobodyOversleeps == ToolsSpec => []NoMissedWakeup
<1>1. ToolsTypeOK /\ Rest => NoMissedWakeup
  BY DEF Rest, Resting, NoMissedWakeup
<1> QED
  BY <1>1, RestHolds, PTL

-----------------------------------------------------------------------------
(* DynamicTools implements ToolCalls: a request is asked when it enters its *)
(* slot, answered by the reply or the exit of its service, and returned     *)
(* when the caller leaves its loop; the rest is not seen.                   *)

\* What a caller sees while it waits.
LEMMA CallSeen ==
    ASSUME Rest, ToolsTypeOK, NEW p \in Procs, Calling(p)
    PROVE  /\ slotOf[p] \in SlotIndex
           /\ slots[slotOf[p]].used
           /\ slots[slotOf[p]].caller = p
           /\ slots[slotOf[p]].id = reqOf[p]
           /\ slots[slotOf[p]].service \in Procs
           /\ CallOf(p) # NobodysCall
           /\ CallOf(p) = [service |-> slots[slotOf[p]].service,
                           answer |-> IF ~slots[slotOf[p]].replied THEN "none"
                                      ELSE IF slots[slotOf[p]].status = "gone"
                                      THEN "gone" ELSE "reply"]
<1>1. /\ slotOf[p] \in SlotIndex
      /\ slots[slotOf[p]].used
      /\ slots[slotOf[p]].caller = p
      /\ slots[slotOf[p]].id = reqOf[p]
  BY DEF Rest, CallersKeepSlots
<1>2. slots[slotOf[p]].service \in Procs
  BY <1>1, Entries DEF Request
<1>3. slots[slotOf[p]].replied =>
        \/ slots[slotOf[p]].status = "gone"
        \/ slots[slotOf[p]].result = reqOf[p]
  BY <1>1 DEF Rest, AnswersFit
<1>4. CallOf(p) = [service |-> slots[slotOf[p]].service,
                   answer |-> IF ~slots[slotOf[p]].replied THEN "none"
                              ELSE IF slots[slotOf[p]].status = "gone"
                              THEN "gone" ELSE "reply"]
  BY <1>3 DEF CallOf
<1>5. CallOf(p).service # NobodysCall.service
  BY <1>2, <1>4, ToolsAssumption DEF NobodysCall
<1> QED
  BY <1>1, <1>2, <1>4, <1>5

LEMMA PromiseInit == ToolsInit => Promise!Init
<1> SUFFICES ASSUME ToolsInit PROVE Promise!Init
  OBVIOUS
<1>1. \A p \in Procs : CallOf(p) = NobodysCall
  BY DEF ToolsInit, CallOf, Calling
<1> QED
  BY <1>1 DEF ToolsInit, Promise!Init

\* A call is not seen to change when its slot's fields do not.
LEMMA SameCall ==
    ASSUME NEW p \in Procs,
           pc'[p] = "call" <=> pc[p] = "call",
           pc[p] = "call" =>
              /\ slotOf'[p] = slotOf[p]
              /\ reqOf'[p] = reqOf[p]
              /\ slots'[slotOf[p]].service = slots[slotOf[p]].service
              /\ slots'[slotOf[p]].replied = slots[slotOf[p]].replied
              /\ slots'[slotOf[p]].status = slots[slotOf[p]].status
              /\ slots'[slotOf[p]].result = slots[slotOf[p]].result
    PROVE  CallOf(p)' = CallOf(p)
BY DEF CallOf, Calling

\* Steps that ToolCalls does not see.
LEMMA Unseen ==
    ASSUME \A p \in Procs : CallOf(p)' = CallOf(p),
           \A p \in Procs : pc'[p] = "gone" <=> pc[p] = "gone",
           UNCHANGED killed
    PROVE  UNCHANGED Promise!vars
<1>1. [p \in Procs |-> CallOf(p)]' = [p \in Procs |-> CallOf(p)]
  OBVIOUS
<1>2. {p \in Procs : pc[p] = "gone"}' = {p \in Procs : pc[p] = "gone"}
  OBVIOUS
<1> QED
  BY <1>1, <1>2 DEF Promise!vars

LEMMA AskSeen ==
    ASSUME Rest, ToolsTypeOK, Rest', ToolsTypeOK',
           NEW p \in Procs, NEW n \in Names, Call(p, n)
    PROVE  [Promise!Next]_Promise!vars
<1>1. PICK t \in ToolIndex, i \in SlotIndex :
        /\ tools[t].name = n
        /\ Lowest(i, {j \in SlotIndex : ~slots[j].used})
        /\ IF p \in killed
           THEN UNCHANGED <<slots, pc, callVars>>
           ELSE /\ slots' = [slots EXCEPT ![i] = NewRequest(p, tools[t].owner)]
                /\ pc' = [pc EXCEPT ![p] = "call"]
                /\ slotOf' = [slotOf EXCEPT ![p] = i]
                /\ reqOf' = [reqOf EXCEPT ![p] = nextId]
  BY DEF Call
<1>2. pc[p] = "user" /\ UNCHANGED killed
  BY DEF Call, InUser
<1>3. tools[t].owner \in Procs /\ pc[tools[t].owner] # "gone"
  BY <1>1, Entries DEF Tool, Rest, OwnersLive
<1>4. CASE p \in killed
  BY <1>1, <1>2, <1>4, SameCall, Unseen DEF callVars
<1>5. CASE p \notin killed
  <2>1. ~slots[i].used
    BY <1>1 DEF Lowest
  <2>2. \A j \in SlotIndex :
           slots'[j] = IF j = i THEN NewRequest(p, tools[t].owner) ELSE slots[j]
    BY <1>1, <1>5 DEF ToolsTypeOK
  <2>3. \A q \in Procs : /\ pc'[q] = IF q = p THEN "call" ELSE pc[q]
                         /\ slotOf'[q] = IF q = p THEN i ELSE slotOf[q]
                         /\ reqOf'[q] = IF q = p THEN nextId ELSE reqOf[q]
    BY <1>1, <1>5 DEF ToolsTypeOK
  <2>4. CallOf(p) = NobodysCall
    BY <1>2 DEF CallOf, Calling
  <2>5. CallOf(p)' = [service |-> tools[t].owner, answer |-> "none"]
    <3>1. /\ ~slots'[slotOf'[p]].replied
          /\ slots'[slotOf'[p]].service = tools[t].owner
      BY <2>2, <2>3 DEF NewRequest
    <3> QED
      BY <2>3, <3>1 DEF CallOf, Calling
  <2>6. ASSUME NEW q \in Procs, q # p
        PROVE  CallOf(q)' = CallOf(q)
    <3>1. pc[q] = "call" => slotOf[q] \in SlotIndex /\ slotOf[q] # i
      BY <2>1, CallSeen DEF Calling
    <3> QED
      BY <2>2, <2>3, <2>6, <3>1, SameCall
  <2>7. [q \in Procs |-> CallOf(q)]' =
          [[q \in Procs |-> CallOf(q)] EXCEPT
             ![p] = [service |-> tools[t].owner, answer |-> "none"]]
    BY <2>5, <2>6
  <2>8. {q \in Procs : pc[q] = "gone"}' = {q \in Procs : pc[q] = "gone"}
    BY <1>2, <2>3
  <2>9. Promise!Ask(p, tools[t].owner)
    BY <1>2, <1>3, <2>4, <2>7, <2>8 DEF Promise!Ask
  <2> QED
    BY <1>3, <2>9 DEF Promise!Next
<1> QED
  BY <1>4, <1>5

LEMMA ReturnSeen ==
    ASSUME Rest, ToolsTypeOK, Rest', ToolsTypeOK', NEW p \in Procs, CallTurn(p)
    PROVE  [Promise!Next]_Promise!vars
<1>1. pc[p] = "call" /\ UNCHANGED killed
  BY DEF CallTurn
<1>2. /\ slotOf[p] \in SlotIndex
      /\ slots[slotOf[p]].caller = p
      /\ ~Lost(p)
      /\ CallOf(p) # NobodysCall
      /\ CallOf(p).answer = "none" <=> ~Answered(p)
  BY <1>1, CallSeen DEF Calling, Lost, Answered
<1>3. CASE Answered(p) \/ GivesUp(p)
  <2>1. /\ \A j \in SlotIndex :
              slots'[j] = IF j = slotOf[p] THEN Empty ELSE slots[j]
        /\ \A q \in Procs : /\ pc'[q] = IF q = p THEN "user" ELSE pc[q]
                            /\ slotOf'[q] = IF q = p THEN 0 ELSE slotOf[q]
                            /\ reqOf'[q] = IF q = p THEN 0 ELSE reqOf[q]
    BY <1>3 DEF CallTurn, Freed, ToolsTypeOK
  <2>2. CallOf(p)' = NobodysCall
    BY <2>1 DEF CallOf, Calling
  <2>3. ASSUME NEW q \in Procs, q # p
        PROVE  CallOf(q)' = CallOf(q)
    <3>1. pc[q] = "call" => slotOf[q] \in SlotIndex /\ slotOf[q] # slotOf[p]
      BY <1>2, <2>3, CallSeen DEF Calling
    <3> QED
      BY <2>1, <2>3, <3>1, SameCall
  <2>4. [q \in Procs |-> CallOf(q)]' =
          [[q \in Procs |-> CallOf(q)] EXCEPT ![p] = NobodysCall]
    BY <2>2, <2>3
  <2>5. {q \in Procs : pc[q] = "gone"}' = {q \in Procs : pc[q] = "gone"}
    BY <1>1, <2>1
  <2>6. CallOf(p).answer # "none" \/ p \in killed
    BY <1>2, <1>3 DEF GivesUp
  <2>7. [q \in Procs |-> CallOf(q)][p] = CallOf(p)
    OBVIOUS
  <2>8. Promise!Return(p)
    BY <1>1, <1>2, <2>4, <2>5, <2>6, <2>7 DEF Promise!Return
  <2> QED
    BY <2>8 DEF Promise!Next
<1>4. CASE ~Answered(p) /\ ~GivesUp(p)
  <2>1. UNCHANGED <<slots, pc, slotOf, reqOf>>
    BY <1>2, <1>4 DEF CallTurn, callVars
  <2> QED
    BY <1>1, <2>1, SameCall, Unseen
<1> QED
  BY <1>3, <1>4

LEMMA RecvUnseen ==
    ASSUME Rest, ToolsTypeOK, NEW p \in Procs, RecvTurn(p)
    PROVE  [Promise!Next]_Promise!vars
<1>1. /\ pc[p] = "recv" /\ UNCHANGED <<slotOf, reqOf, killed>>
      /\ pc' = pc \/ pc' = [pc EXCEPT ![p] = "user"]
  BY DEF RecvTurn, callVars
<1>2. \A q \in Procs : /\ pc'[q] = "call" <=> pc[q] = "call"
                       /\ pc'[q] = "gone" <=> pc[q] = "gone"
  BY <1>1 DEF ToolsTypeOK
<1>3. \A j \in SlotIndex :
         /\ slots'[j].service = slots[j].service
         /\ slots'[j].replied = slots[j].replied
         /\ slots'[j].status = slots[j].status
         /\ slots'[j].result = slots[j].result
  <2>1. CASE UNCHANGED slots
    BY <2>1
  <2>2. ASSUME NEW i \in SlotIndex,
               slots' = [slots EXCEPT ![i] = Delivered(slots[i])]
        PROVE  \A j \in SlotIndex :
                 /\ slots'[j].service = slots[j].service
                 /\ slots'[j].replied = slots[j].replied
                 /\ slots'[j].status = slots[j].status
                 /\ slots'[j].result = slots[j].result
    <3>1. \A j \in SlotIndex :
             slots'[j] = IF j = i THEN Delivered(slots[i]) ELSE slots[j]
      BY <2>2 DEF ToolsTypeOK
    <3> QED
      BY <3>1 DEF Delivered
  <2> QED
    BY <2>1, <2>2 DEF RecvTurn
<1>4. ASSUME NEW q \in Procs PROVE CallOf(q)' = CallOf(q)
  <2>1. pc[q] = "call" => slotOf[q] \in SlotIndex
    BY CallSeen DEF Calling
  <2> QED
    BY <1>1, <1>2, <1>3, <2>1, SameCall
<1> QED
  BY <1>1, <1>2, <1>4, Unseen

LEMMA AnswerSeen ==
    ASSUME Rest, ToolsTypeOK, Rest', ToolsTypeOK',
           NEW p \in Procs, NEW id \in Ids, Reply(p, id)
    PROVE  [Promise!Next]_Promise!vars
<1>1. PICK i \in SlotIndex :
        /\ Lowest(i, Awaiting(p, id))
        /\ slots' = [slots EXCEPT ![i] = WithAnswer(slots[i], "ok", id)]
  BY DEF Reply
<1>2. pc[p] = "user" /\ UNCHANGED <<pc, slotOf, reqOf, killed>>
  BY DEF Reply, InUser, callVars
<1>3. slots[i].used /\ slots[i].id = id /\ slots[i].service = p
  BY <1>1 DEF Lowest, Awaiting
<1>4. PICK c \in Procs :
        c = slots[i].caller /\ pc[c] = "call" /\ slotOf[c] = i
  BY <1>3, CallerOfSlot DEF Calling
<1>5. \A j \in SlotIndex :
         slots'[j] = IF j = i THEN WithAnswer(slots[i], "ok", id) ELSE slots[j]
  BY <1>1 DEF ToolsTypeOK
<1>6. /\ CallOf(c) # NobodysCall
      /\ CallOf(c).service = p
      /\ CallOf(c) = [service |-> p, answer |-> CallOf(c).answer]
      /\ reqOf[c] = id
  BY <1>3, <1>4, CallSeen DEF Calling
<1>7. CallOf(c)' = [service |-> p, answer |-> "reply"]
  <2>1. /\ slots'[slotOf'[c]].replied
        /\ slots'[slotOf'[c]].service = p
        /\ slots'[slotOf'[c]].status = "ok"
        /\ slots'[slotOf'[c]].result = id
    BY <1>2, <1>3, <1>4, <1>5 DEF WithAnswer
  <2>2. pc'[c] = "call" /\ reqOf'[c] = id
    BY <1>2, <1>4, <1>6
  <2>3. CallOf(c)' = [service |-> slots'[slotOf'[c]].service, answer |-> "reply"]
    BY <2>1, <2>2 DEF CallOf, Calling
  <2> QED
    BY <2>1, <2>3
<1>8. ASSUME NEW q \in Procs, q # c
      PROVE  CallOf(q)' = CallOf(q)
  <2>1. pc[q] = "call" => slotOf[q] \in SlotIndex /\ slotOf[q] # i
    BY <1>4, <1>8, CallSeen DEF Calling
  <2> QED
    BY <1>2, <1>5, <2>1, SameCall
<1>9. \A q \in Procs : CallOf(q)' = IF q = c THEN [service |-> p, answer |-> "reply"]
                                             ELSE CallOf(q)
  BY <1>7, <1>8
<1>10. [q \in Procs |-> CallOf(q)]' =
         [[q \in Procs |-> CallOf(q)] EXCEPT ![c].answer = "reply"]
  BY <1>4, <1>6, <1>9
<1>11. {q \in Procs : pc[q] = "gone"}' = {q \in Procs : pc[q] = "gone"}
  BY <1>2
<1>12. Promise!Answer(c)
  BY <1>2, <1>4, <1>6, <1>10, <1>11 DEF Promise!Answer
<1> QED
  BY <1>4, <1>12 DEF Promise!Next

LEMMA LeaveSeen ==
    ASSUME Rest, ToolsTypeOK, Rest', ToolsTypeOK', NEW p \in Procs, Exit(p)
    PROVE  [Promise!Next]_Promise!vars
<1>1. /\ pc[p] = "user" /\ pc' = [pc EXCEPT ![p] = "gone"]
      /\ UNCHANGED <<slotOf, reqOf, killed>>
  BY DEF Exit, InUser, callVars
<1>2. \A q \in Procs : pc'[q] = IF q = p THEN "gone" ELSE pc[q]
  BY <1>1 DEF ToolsTypeOK
<1>3. pc[p] # "call" /\ pc'[p] # "call"
  BY <1>1, <1>2
<1>4. \A i \in SlotIndex :
         slots[i].used => slots[i].caller # p
  BY <1>1, CallerOfSlot DEF Calling
<1>5. ASSUME NEW q \in Procs
      PROVE  CallOf(q)' = IF /\ CallOf(q) # NobodysCall
                             /\ CallOf(q).service = p
                             /\ CallOf(q).answer = "none"
                          THEN [CallOf(q) EXCEPT !.answer = "gone"]
                          ELSE CallOf(q)
  <2>1. CASE ~Calling(q)
    <3>1. pc[q] # "call" /\ pc'[q] # "call"
      BY <1>2, <2>1 DEF Calling
    <3>2. CallOf(q) = NobodysCall
      BY <3>1 DEF CallOf, Calling
    <3>3. CallOf(q)' = NobodysCall
      BY <3>1 DEF CallOf, Calling
    <3> QED
      BY <3>2, <3>3
  <2>2. CASE Calling(q) /\ Orphan(slots[slotOf[q]], p)
    <3>1. /\ slotOf[q] \in SlotIndex /\ slots[slotOf[q]].used
          /\ slots[slotOf[q]].service = p /\ ~slots[slotOf[q]].replied
      BY <2>2, CallSeen DEF Orphan
    <3>2. slots'[slotOf[q]] =
            WithAnswer(slots[slotOf[q]], "gone", slots[slotOf[q]].result)
      BY <1>4, <2>2, <3>1 DEF Exit
    <3>3. /\ slots'[slotOf[q]].replied /\ slots'[slotOf[q]].status = "gone"
          /\ slots'[slotOf[q]].service = p
      BY <3>1, <3>2 DEF WithAnswer
    <3>4. q # p /\ pc'[q] = "call" /\ slotOf'[q] = slotOf[q]
      BY <1>1, <1>2, <2>2 DEF Calling
    <3>5. CallOf(q)' = [service |-> p, answer |-> "gone"]
      BY <3>3, <3>4 DEF CallOf, Calling
    <3>6. CallOf(q) = [service |-> p, answer |-> "none"]
      BY <2>2, <3>1 DEF CallOf
    <3>7. CallOf(q) # NobodysCall
      BY <2>2, CallSeen
    <3> QED
      BY <3>5, <3>6, <3>7
  <2>3. CASE Calling(q) /\ ~Orphan(slots[slotOf[q]], p)
    <3>1. slotOf[q] \in SlotIndex /\ slots[slotOf[q]].used
      BY <2>3, CallSeen
    <3>2. slots'[slotOf[q]] = slots[slotOf[q]]
      BY <1>4, <2>3, <3>1 DEF Exit
    <3>3. CallOf(q)' = CallOf(q)
      BY <1>1, <1>2, <2>3, <3>2, SameCall DEF Calling
    <3>4. slots[slotOf[q]].service = p => slots[slotOf[q]].replied
      BY <2>3, <3>1 DEF Orphan
    <3>5. ~(CallOf(q).service = p /\ CallOf(q).answer = "none")
      BY <2>3, <3>4, CallSeen
    <3> QED
      BY <3>3, <3>5
  <2> QED
    BY <2>1, <2>2, <2>3
<1>6. [q \in Procs |-> CallOf(q)]' =
        [q \in Procs |->
           IF /\ CallOf(q) # NobodysCall
              /\ CallOf(q).service = p
              /\ CallOf(q).answer = "none"
           THEN [CallOf(q) EXCEPT !.answer = "gone"]
           ELSE CallOf(q)]
  BY <1>5
<1>7. {q \in Procs : pc[q] = "gone"}' = {q \in Procs : pc[q] = "gone"} \union {p}
  BY <1>2
<1>8. CallOf(p) = NobodysCall
  BY <1>3 DEF CallOf, Calling
<1>9. Promise!Leave(p)
  BY <1>1, <1>6, <1>7, <1>8 DEF Promise!Leave
<1> QED
  BY <1>9 DEF Promise!Next

LEMMA PromiseStep ==
    ToolsTypeOK /\ Rest /\ ToolsTypeOK' /\ Rest' /\ [ToolsNext]_toolsVars
        => [Promise!Next]_Promise!vars
<1> SUFFICES ASSUME ToolsTypeOK, Rest, ToolsTypeOK', Rest', [ToolsNext]_toolsVars
             PROVE  [Promise!Next]_Promise!vars
  OBVIOUS
<1>1. CASE UNCHANGED toolsVars
  BY <1>1, SameCall, Unseen DEF toolsVars, callVars
<1>2. ASSUME NEW p \in Procs, NEW n \in Names, NEW public \in BOOLEAN,
             Register(p, n, public)
      PROVE  [Promise!Next]_Promise!vars
  BY <1>2, SameCall, Unseen DEF Register, callVars
<1>3. ASSUME NEW p \in Procs, FallAsleep(p)
      PROVE  [Promise!Next]_Promise!vars
  BY <1>3, SameCall, Unseen DEF FallAsleep, callVars
<1>4. ASSUME NEW p \in Procs, RecvEnter(p)
      PROVE  [Promise!Next]_Promise!vars
  <2>1. /\ UNCHANGED <<slots, slotOf, reqOf, killed>>
        /\ \A q \in Procs : /\ pc'[q] = "call" <=> pc[q] = "call"
                            /\ pc'[q] = "gone" <=> pc[q] = "gone"
    BY <1>4 DEF RecvEnter, InUser, callVars, ToolsTypeOK
  <2> QED
    BY <2>1, SameCall, Unseen
<1>5. ASSUME NEW p \in Procs, Kill(p)
      PROVE  [Promise!Next]_Promise!vars
  <2>1. UNCHANGED <<slots, pc, slotOf, reqOf>> /\ pc[p] # "gone"
        /\ killed' = killed \union {p}
    BY <1>5 DEF Kill, callVars
  <2>2. \A q \in Procs : CallOf(q)' = CallOf(q)
    BY <2>1, SameCall
  <2>3. [q \in Procs |-> CallOf(q)]' = [q \in Procs |-> CallOf(q)]
    BY <2>2
  <2>4. {q \in Procs : pc[q] = "gone"}' = {q \in Procs : pc[q] = "gone"}
    BY <2>1
  <2>5. Promise!Kill(p)
    BY <2>1, <2>3, <2>4 DEF Promise!Kill
  <2> QED
    BY <2>5 DEF Promise!Next
<1>6. CASE ToolsNext
  BY <1>2, <1>3, <1>4, <1>5, <1>6, AskSeen, ReturnSeen, RecvUnseen, AnswerSeen,
     LeaveSeen DEF ToolsNext
<1> QED
  BY <1>1, <1>6

\* agent_dynamic_tool_call, agent_tool_reply, agent_proc_exit: a call returns
\* only with an answer of its own service meant for this call, or with
\* SERVICE_GONE when that service has exited, or because its caller is killed.
THEOREM CallsAreAnswered == ToolsSpec => Promised
<1>1. ToolsInit => Promise!Init
  BY PromiseInit
<1>2. ToolsTypeOK /\ Rest /\ ToolsTypeOK' /\ Rest' /\ [ToolsNext]_toolsVars
        => [Promise!Next]_Promise!vars
  BY PromiseStep
<1> QED
  BY <1>1, <1>2, RestHolds, PTL DEF ToolsSpec, Promised, Promise!Spec
=============================================================================
