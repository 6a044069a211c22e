------------------------------ MODULE Context ------------------------------
(* The context path of one agent (kernel/agent_context.c, the digest ring of *)
(* kernel/agent.c and the part of agent_tool_call that records a call).      *)
(*                                                                           *)
(* The kernel keeps the path twice: its own arrays (offsets, lengths,        *)
(* dependencies, counters) and the bytes of the records in a region of the   *)
(* process, behind a header the program reads.  A unit of the region stands  *)
(* for a run of bytes; what a record says is abstracted to its number.       *)
(* generation is kept by its parity: odd while the region is being changed.  *)
EXTENDS Naturals, Sequences

CONSTANTS
    MaxNodes,       \* AGENT_CONTEXT_MAX_NODES
    Capacity,       \* agent_path_capacity, in units
    Lengths,        \* how long a record may be
    DigestMax,      \* AGENT_CONTEXT_DIGEST_MAX
    Deps,           \* what a file tool may leave as a dependency
    NoDep,          \* pending_context_dep = 0, dep.used = 0
    MaxSeq,         \* bound: sequence numbers handed out
    ContextFaults   \* whether pages of the region may be missing (sbrk)

ASSUME ContextAssumption ==
    /\ MaxNodes \in Nat \ {0} /\ Capacity \in Nat \ {0} /\ DigestMax \in Nat \ {0}
    /\ Lengths \subseteq Nat \ {0}
    /\ NoDep \notin Deps
    /\ MaxSeq \in Nat
    /\ ContextFaults \in BOOLEAN

VARIABLES
    nodes,      \* records in the order of the path: number, place, dependency
    pathLen,    \* context_path_len
    first,      \* context_first_sequence
    next,       \* context_next_sequence
    dropped,    \* context_dropped_nodes
    odd,        \* context_generation & 1
    pending,    \* the dependency the next record takes
    region,     \* whose record each unit of the region holds, 0: none
    header,     \* what the header in the region says
    ring,       \* context_digests
    head,       \* context_digest_head
    held,       \* context_digest_count
    step,       \* where the agent is in a call
    record,     \* the record being pushed
    torn        \* history: a copy to the region failed since the last clear

path == <<nodes, pathLen, first, next, dropped>>
digests == <<ring, head, held>>
contextVars == <<nodes, pathLen, first, next, dropped, odd, pending, region,
                 header, ring, head, held, step, record, torn>>

Units == 1 .. Capacity
Node == [seq: Nat, off: Nat, len: Nat, dep: Deps \cup {NoDep}, auto: BOOLEAN]
NoRecord == [seq |-> 0, len |-> 0, dep |-> NoDep, auto |-> FALSE]
NoDigest == [seq |-> 0, prev |-> 0]
Header(o, len, count, drop, f, n) ==
    [odd |-> o, len |-> len, count |-> count, dropped |-> drop, first |-> f, next |-> n]

ContextInit ==
    /\ nodes = <<>> /\ pathLen = 0 /\ first = 0 /\ next = 1 /\ dropped = 0
    /\ odd = FALSE /\ pending = NoDep
    /\ region = [u \in Units |-> 0]
    /\ header = Header(FALSE, 0, 0, 0, 0, 1)
    /\ ring = [i \in 0 .. DigestMax - 1 |-> NoDigest] /\ head = 0 /\ held = 0
    /\ step = "idle" /\ record = NoRecord /\ torn = FALSE

\* agent_sync_header: the kernel's new state is published under an even
\* generation; a header page that is gone leaves the old header there.
Sync(len, count, drop, f, n) ==
    /\ odd' = FALSE
    /\ \/ /\ header' = Header(FALSE, len, count, drop, f, n)
          /\ torn' = torn
       \/ /\ ContextFaults
          /\ header' = header
          /\ torn' = TRUE

Quiet == step' = "idle" /\ record' = NoRecord

----------------------------------------------------------------------------
(* A tool call: the dependency of an earlier call is forgotten, the tool may  *)
(* leave one of its own, and a node is allocated and pushed.                  *)

ToolStart ==
    /\ step = "idle"
    /\ pending' = NoDep
    /\ step' = "tool"
    /\ UNCHANGED <<path, odd, region, header, digests, record, torn>>

ToolReads(d) ==
    /\ step = "tool" /\ d \in Deps
    /\ pending' = d
    /\ step' = "made"
    /\ UNCHANGED <<path, odd, region, header, digests, record, torn>>

ToolRuns ==
    /\ step = "tool"
    /\ step' = "made"
    /\ UNCHANGED <<path, odd, pending, region, header, digests, record, torn>>

\* kalloc of the node fails: the call returns its answer and pushes nothing.
NodeNotAllocated ==
    /\ step = "made"
    /\ Quiet
    /\ UNCHANGED <<path, odd, pending, region, header, digests, torn>>

----------------------------------------------------------------------------
(* agent_context_push_node, for a tool call or for the program itself.        *)

PushBegin(len) ==
    /\ step \in {"idle", "made"}
    /\ next <= MaxSeq
    /\ pending' = NoDep
    /\ IF len > Capacity
       THEN Quiet /\ UNCHANGED <<path, odd, region, header, digests, torn>>
       ELSE /\ odd' = TRUE
            /\ UNCHANGED <<nodes, pathLen, first, dropped, region, digests>>
            /\ \/ /\ header' = Header(TRUE, pathLen, Len(nodes), dropped, first, next)
                  /\ next' = next + 1
                  /\ record' = [seq |-> next, len |-> len, dep |-> pending,
                                auto |-> step = "made"]
                  /\ step' = "evict"
                  /\ torn' = torn
               \/ /\ ContextFaults        \* no header page: nothing is pushed
                  /\ torn' = TRUE
                  /\ Quiet
                  /\ UNCHANGED <<next, header>>

Full == Len(nodes) >= MaxNodes \/ pathLen + record.len > Capacity

\* Mutant: the offsets are kept when the records move down.
EvictOldest_OffsetsKept ==
    /\ step = "evict" /\ Full /\ nodes # <<>>
    /\ LET gone == nodes[1].len
           rest == pathLen - gone
       IN /\ region' = [u \in Units |-> IF u <= rest THEN region[u + gone] ELSE region[u]]
          /\ pathLen' = rest
    /\ nodes' = Tail(nodes)
    /\ dropped' = dropped + 1 /\ first' = first + 1
    /\ UNCHANGED <<next, odd, pending, header, digests, step, record, torn>>

MovedDown(n, gone) == [seq |-> n.seq, off |-> n.off - gone, len |-> n.len,
                       dep |-> n.dep, auto |-> n.auto]

\* agent_evict_oldest: the region moves down over the oldest record.  (Its
\* branch for an empty path is never taken: an empty path is not Full.)
EvictOldest ==
    /\ step = "evict" /\ Full /\ nodes # <<>>
    /\ UNCHANGED <<next, odd, pending, header, digests, step, record>>
    /\ LET gone == nodes[1].len
           rest == pathLen - gone
       IN \/ /\ region' = [u \in Units |-> IF u <= rest THEN region[u + gone]
                                           ELSE region[u]]
             /\ pathLen' = rest
             /\ nodes' = [i \in 1 .. Len(nodes) - 1 |-> MovedDown(nodes[i + 1], gone)]
             /\ dropped' = dropped + 1
             /\ first' = first + 1
             /\ torn' = torn
          \/ /\ ContextFaults /\ rest > 0   \* the move fails halfway
             /\ pathLen' = 0 /\ nodes' = <<>>
             /\ torn' = TRUE
             /\ UNCHANGED <<first, dropped, region>>

\* Mutant: the previous digest is looked up at the head itself.
Digest_AtHead(seq) == [seq |-> seq, prev |-> IF held = 0 THEN 0 ELSE ring[head].seq]

\* The digest of a record contains the hash of the digest before it, which
\* the number of that digest's record stands for (within a ring it is unique).
Digest(seq) == [seq |-> seq,
                prev |-> IF held = 0 THEN 0
                         ELSE ring[(head + DigestMax - 1) % DigestMax].seq]

PushEnd ==
    /\ step = "evict" /\ ~ Full
    /\ LET n == [seq |-> record.seq, off |-> pathLen, len |-> record.len,
                 dep |-> record.dep, auto |-> record.auto]
           f == IF nodes = <<>> THEN record.seq ELSE first
           end == pathLen + record.len
       IN /\ region' = [u \in Units |-> IF u \in pathLen + 1 .. end THEN record.seq
                                        ELSE region[u]]
          /\ first' = f
          /\ nodes' = Append(nodes, n)
          /\ pathLen' = end
          /\ ring' = [ring EXCEPT ![head] = Digest(record.seq)]
          /\ head' = (head + 1) % DigestMax
          /\ held' = IF held < DigestMax THEN held + 1 ELSE held
          /\ Sync(end, Len(nodes) + 1, dropped, f, next)
    /\ Quiet
    /\ UNCHANGED <<next, dropped, pending>>

\* The record's bytes do not fit into what is mapped: the number is used up,
\* the generation stays odd and no digest is kept.
PushFails ==
    /\ ContextFaults
    /\ step = "evict" /\ ~ Full
    /\ torn' = TRUE
    /\ Quiet
    /\ UNCHANGED <<path, odd, pending, region, header, digests>>

----------------------------------------------------------------------------
(* Rollback and clear.                                                        *)

NoDigests == /\ ring' = [i \in 0 .. DigestMax - 1 |-> NoDigest]
             /\ head' = 0 /\ held' = 0

\* agent_context_clear; also the whole of a rollback to nothing.
Clear ==
    /\ step = "idle"
    /\ nodes' = <<>> /\ pathLen' = 0 /\ first' = 0 /\ next' = 1 /\ dropped' = 0
    /\ pending' = NoDep
    /\ odd' = FALSE
    /\ NoDigests
    /\ \/ /\ region' = [u \in Units |-> 0]
          /\ header' = Header(FALSE, 0, 0, 0, 0, 1)
          /\ torn' = FALSE
       \/ ContextFaults /\ torn' = TRUE /\ UNCHANGED <<region, header>>
    /\ UNCHANGED <<step, record>>

\* Mutant: a rollback goes on with the numbers it has handed out before.
Rollback_NumbersGoOn(keep) ==
    /\ step = "idle"
    /\ keep \in 1 .. Len(nodes)
    /\ LET end == nodes[keep].off + nodes[keep].len
       IN /\ pathLen' = end
          /\ nodes' = SubSeq(nodes, 1, keep)
          /\ Sync(end, keep, dropped, first, next)
    /\ pending' = NoDep
    /\ NoDigests
    /\ UNCHANGED <<first, next, dropped, region, step, record>>

Rollback(keep) ==
    /\ step = "idle"
    /\ keep \in 1 .. Len(nodes)
    /\ LET end == nodes[keep].off + nodes[keep].len
       IN /\ pathLen' = end
          /\ nodes' = SubSeq(nodes, 1, keep)
          /\ next' = first + keep
          /\ Sync(end, keep, dropped, first, first + keep)
    /\ pending' = NoDep
    /\ NoDigests
    /\ UNCHANGED <<first, dropped, region, step, record>>

\* agent_context_write_begin finds no header page.
RollbackFails ==
    /\ ContextFaults
    /\ step = "idle" /\ nodes # <<>>
    /\ odd' = TRUE /\ torn' = TRUE
    /\ UNCHANGED <<path, pending, region, header, digests, step, record>>

ContextOther == \/ ToolStart \/ ToolRuns \/ NodeNotAllocated
                \/ \E len \in Lengths : PushBegin(len)
                \/ EvictOldest \/ PushEnd \/ PushFails
                \/ Clear \/ RollbackFails
                \/ \E keep \in 1 .. MaxNodes : Rollback(keep)

----------------------------------------------------------------------------
(* Reading the path back.                                                     *)

\* agent_context_digest_verify: the chain of the digests still held.
Oldest == (head + DigestMax - held) % DigestMax
Verified ==
    \A i \in 1 .. held - 1 :
      LET d == ring[(Oldest + i) % DigestMax]
          e == ring[(Oldest + i - 1) % DigestMax]
      IN d.prev = e.seq /\ d.seq = e.seq + 1

\* The record agent_context_validate takes for a number: the first that has it.
Found(seq) == {i \in 1 .. Len(nodes) :
                 /\ nodes[i].seq = seq
                 /\ \A j \in 1 .. i - 1 : nodes[j].seq # seq}
=============================================================================
