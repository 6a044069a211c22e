----------------------------- MODULE QueryCache -----------------------------
(* File attributes, their index and the query cache all agents share          *)
(* (kernel/agent_fs.c).                                                       *)
(*                                                                            *)
(* Setting or deleting an attribute changes the inode, then rebuilds the      *)
(* whole index file by file, then bumps one global version.  A query looks    *)
(* into the cache, builds the index if there is none, scans it and stores its *)
(* result under the version of that moment.  Each of these steps takes a lock *)
(* of its own, and nothing is held from one to the next.                      *)
EXTENDS Naturals, FiniteSets, Sequences

CONSTANTS
    Agents,
    Group,          \* agent_group of each agent
    FileCount,      \* the files are 1 .. FileCount, in the order of the walk
    Values,         \* values of the one attribute key
    Queries,        \* [value, scan, public]: the condition, mode=scan, public=true
    MetaMax,        \* AGENT_FILE_META_MAX
    CacheMax,       \* AGENT_SHARED_QUERY_CACHE_MAX
    None,
    MaxChange       \* bound: changes of attributes

ASSUME QueryCacheAssumption ==
    /\ FileCount \in Nat /\ MetaMax \in Nat /\ CacheMax \in Nat \ {0} /\ MaxChange \in Nat
    /\ None \notin Values \cup Agents \cup Queries
    /\ \A q \in Queries : q.value \in Values /\ q.scan \in BOOLEAN /\ q.public \in BOOLEAN

VARIABLES
    attr,       \* the attribute of each inode
    meta,       \* file_meta: a sequence of [file, value]
    postings,   \* file_postings: pairs of a file and its value
    ready,      \* agent_file_index_ready
    fsVersion,  \* agent_file_version
    cache,      \* shared_query_cache
    root,       \* who holds the inode of "/"
    call        \* the call each agent is in

cacheVars == <<attr, meta, postings, ready, fsVersion, cache, root, call>>

Files == 1 .. FileCount
Slots == 1 .. CacheMax
NoCall == [at |-> "idle"]
Vacant == [used |-> FALSE]

CacheInit == /\ attr \in [Files -> Values \cup {None}]
        /\ meta = <<>> /\ postings = {} /\ ready = FALSE
        /\ fsVersion = 1
        /\ cache = [s \in Slots |-> Vacant]
        /\ root = None
        /\ call = [a \in Agents |-> NoCall]

Enter(a, c) == call' = [call EXCEPT ![a] = c]

\* A build on the way to changing the version, or to the scan of query q.
Build(at, walked, q) == [at |-> at, walked |-> walked, query |-> q]

----------------------------------------------------------------------------
\* set_file_attr, and del_file_attr with None: the inode in one transaction.
SetAttr(a, f, v) ==
    /\ call[a].at = "idle"
    /\ fsVersion <= MaxChange
    /\ v = None => attr[f] # None
    /\ attr' = [attr EXCEPT ![f] = v]
    /\ Enter(a, Build("build", 0, None))
    /\ UNCHANGED <<meta, postings, ready, fsVersion, cache, root>>

----------------------------------------------------------------------------
(* file_index_build: the locked root inode keeps the walks apart, and the     *)
(* postings are made after it has been let go.                                *)

\* A variant with a plausible bug, for the mutation checks: walks may overlap.
BuildBegin_Unlocked(a) ==
    /\ call[a].at = "build"
    /\ root' = a
    /\ meta' = <<>> /\ postings' = {}
    /\ Enter(a, Build("walk", 0, call[a].query))
    /\ UNCHANGED <<attr, ready, fsVersion, cache>>

BuildBegin(a) ==
    /\ call[a].at = "build" /\ root = None
    /\ root' = a
    /\ meta' = <<>> /\ postings' = {}
    /\ Enter(a, Build("walk", 0, call[a].query))
    /\ UNCHANGED <<attr, ready, fsVersion, cache>>

Walk(a) ==
    LET f == call[a].walked + 1
    IN /\ call[a].at = "walk" /\ f \in Files
       /\ meta' = IF Len(meta) < MetaMax THEN Append(meta, [file |-> f, value |-> attr[f]])
                  ELSE meta
       /\ Enter(a, Build("walk", f, call[a].query))
       /\ UNCHANGED <<attr, postings, ready, fsVersion, cache, root>>

WalkEnd(a) ==
    /\ call[a].at = "walk" /\ call[a].walked = FileCount
    /\ root' = None
    /\ Enter(a, Build("rebuild", FileCount, call[a].query))
    /\ UNCHANGED <<attr, meta, postings, ready, fsVersion, cache>>

\* file_rebuild_postings_locked; a build begun for a query goes on with it.
Posted == {p \in {<<meta[i].file, meta[i].value>> : i \in 1 .. Len(meta)} : p[2] # None}

BuildEnd(a) ==
    /\ call[a].at = "rebuild"
    /\ postings' = Posted
    /\ ready' = TRUE
    /\ Enter(a, Build(IF call[a].query = None THEN "bump" ELSE "scan", 0, call[a].query))
    /\ UNCHANGED <<attr, meta, fsVersion, cache, root>>

\* A variant with a plausible bug, for the mutation checks: the bump is forgotten.
BumpGlobal_Lost(a) ==
    /\ call[a].at = "bump"
    /\ Enter(a, NoCall)
    /\ UNCHANGED <<attr, meta, postings, ready, fsVersion, cache, root>>

\* agent_file_version_bump, at the end of a change.
BumpGlobal(a) ==
    /\ call[a].at = "bump"
    /\ fsVersion' = fsVersion + 1
    /\ Enter(a, NoCall)
    /\ UNCHANGED <<attr, meta, postings, ready, cache, root>>

----------------------------------------------------------------------------
(* query_file.                                                                *)

Access(a, e) == e.query.public \/ Group[a] = e.group
Hits(a, q) == {s \in Slots : /\ cache[s].used
                             /\ cache[s].version = fsVersion
                             /\ cache[s].query = q
                             /\ Access(a, cache[s])}

\* A hit answers from the entry and changes nothing the model keeps; on a miss
\* file_index_ensure builds the index unless there has been one.
QueryMiss(a, q) ==
    /\ call[a].at = "idle" /\ Hits(a, q) = {}
    /\ Enter(a, Build(IF ready THEN "scan" ELSE "build", 0, q))
    /\ UNCHANGED <<attr, meta, postings, ready, fsVersion, cache, root>>

Matches(q, v) == v = q.value
Answer(q) ==
    IF q.scan
    THEN {meta[i].file : i \in {j \in 1 .. Len(meta) : Matches(q, meta[j].value)}}
    ELSE {meta[i].file : i \in {j \in 1 .. Len(meta) :
            Matches(q, meta[j].value) /\ <<meta[j].file, q.value>> \in postings}}

Building == \E a \in Agents : call[a].at \in {"walk", "rebuild"}

\* One critical section of agent_file_lock.  scanned and torn are history: the
\* version of this moment, and whether a build was under way.
Scan(a) ==
    /\ call[a].at = "scan"
    /\ Enter(a, [at |-> "store", query |-> call[a].query, result |-> Answer(call[a].query),
                scanned |-> fsVersion, torn |-> Building])
    /\ UNCHANGED <<attr, meta, postings, ready, fsVersion, cache, root>>

\* The slot of the same query, else the first free one, else the first.
SlotFor(q) ==
    LET same == {s \in Slots : cache[s].used /\ cache[s].query = q}
        free == {s \in Slots : ~ cache[s].used}
        First(S) == CHOOSE s \in S : \A t \in S : s <= t
    IN IF same # {} THEN First(same) ELSE IF free # {} THEN First(free) ELSE 1

Entry(a, c, v) == [used |-> TRUE, query |-> c.query, result |-> c.result,
                   group |-> Group[a], version |-> v,
                   scanned |-> c.scanned, torn |-> c.torn]

Store(a) ==
    /\ call[a].at = "store"
    /\ cache' = [cache EXCEPT ![SlotFor(call[a].query)] = Entry(a, call[a], fsVersion)]
    /\ Enter(a, NoCall)
    /\ UNCHANGED <<attr, meta, postings, ready, fsVersion, root>>

CacheNext == \E a \in Agents :
          \/ \E f \in Files, v \in Values \cup {None} : SetAttr(a, f, v)
          \/ BuildBegin(a) \/ Walk(a) \/ WalkEnd(a) \/ BuildEnd(a) \/ BumpGlobal(a)
          \/ \E q \in Queries : QueryMiss(a, q)
          \/ Scan(a) \/ Store(a)

CacheSpec == CacheInit /\ [][CacheNext]_cacheVars

----------------------------------------------------------------------------
\* Nobody is between the change of an attribute and the end of its build.
Settled == \A a \in Agents : call[a].at \notin {"build", "walk", "rebuild"}
Indexed == {f \in Files : f <= MetaMax}
Truth(q) == {f \in Indexed : attr[f] = q.value}

(* Whatever builds overlapped, with walks and postings made in any order:     *)
(* once the last of them has ended, the index answers every query, by index   *)
(* or by scan, from the attributes of the inodes (of the first MetaMax files  *)
(* of the walk, which is all it has room for).                                *)
IndexIsTrue == Settled /\ ready => \A q \in Queries : Answer(q) = Truth(q)

NoChange == \A a \in Agents : call[a].at \notin {"build", "walk", "rebuild", "bump"}
Served(s) == cache[s].used /\ cache[s].version = fsVersion

(* Once the changes are over, a result that would be served is what the       *)
(* attributes say, if no build was under way at its scan and no change bumped *)
(* the version between the scan and the store.  (The code checks neither.)    *)
CacheIsTrue ==
    NoChange => \A s \in Slots :
               Served(s) /\ cache[s].scanned = fsVersion /\ ~ cache[s].torn
                 => cache[s].result = Truth(cache[s].query)
=============================================================================
