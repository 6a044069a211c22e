-------------------------------- MODULE Mmap --------------------------------
(* Memory mapped files: sys_mmap and sys_munmap (kernel/sysfile.c), the page  *)
(* fault and the write-back (kernel/vm.c), and what fork, exec and exit do    *)
(* with the mappings (kernel/proc.c, kernel/exec.c).                          *)
(*                                                                            *)
(* All processes take their areas from one table, in which length 0 means     *)
(* "not used", and each links its own through next.  The unit is a page; what *)
(* is in it is left out.  One open file stands for all; its other users are   *)
(* the descriptors.                                                           *)
EXTENDS Naturals, Sequences, FiniteSets, SequencesExt

CONSTANTS
    Users,          \* processes
    VmaCount,       \* MAX_VMA_COUNT
    VmaStart, Top,  \* VMA_START, and a bound: the last page programs map
    FilePages,      \* pages the file has at first
    Sizes,          \* pages of a mapping
    Kinds           \* [shared, write]: MAP_SHARED, PROT_WRITE

ASSUME MmapAssumption ==
    /\ VmaCount \in Nat /\ VmaStart \in Nat /\ Top \in Nat /\ FilePages \in Nat
    /\ Sizes \subseteq Nat \ {0} /\ Kinds \subseteq [shared: BOOLEAN, write: BOOLEAN]

VARIABLES
    vma,        \* vma_list
    areas,      \* p->vma: the first area of a process, 0: none
    frames,     \* the pages a process has in its page table above VMA_START
    size,       \* pages of the file
    fd,         \* processes with a descriptor of the file
    refs,       \* f->ref
    call        \* the call a process is in, or how it is

mmapVars == <<vma, areas, frames, size, fd, refs, call>>

Areas == 1 .. VmaCount
Pages == 0 .. Top
NotUsed == [length |-> 0, start |-> 0, end |-> 0, off |-> 0,
           shared |-> FALSE, write |-> FALSE, next |-> 0]
\* An area out of use; of its other fields next alone is ever read again.
Freed(next) == [NotUsed EXCEPT !.next = next]
UserMode == [at |-> "user"]
Gone == [at |-> "gone"]

MmapInit ==
    /\ vma = [s \in Areas |-> NotUsed]
    /\ areas = [p \in Users |-> 0]
    /\ frames = [p \in Users |-> {}]
    /\ size = FilePages
    /\ fd = {} /\ refs = 0
    /\ call = [p \in Users |-> Gone]

InUserMode(p) == call[p] = UserMode
Goto(p, c) == call' = [call EXCEPT ![p] = c]

\* A list of areas, and that of a process.
From(s) ==
    LET at[n \in Areas] == IF n = 1 THEN s
                           ELSE IF at[n - 1] = 0 THEN 0 ELSE vma[at[n - 1]].next
    IN [n \in 1 .. Cardinality({m \in Areas : at[m] # 0}) |-> at[n]]
Chain(p) == From(areas[p])

\* The first area of the list with the address.
Holds(s, a) == vma[s].start <= a /\ a < vma[s].end
Area(p, a) ==
    LET c == Chain(p)
        found == {n \in 1 .. Len(c) : Holds(c[n], a)}
    IN IF found = {} THEN 0 ELSE c[CHOOSE n \in found : \A m \in found : n <= m]

\* vma_alloc takes the first area of length 0, and panics if there is none: the
\* areas that so many calls of it take.
Allocated(f) ==
    \A k \in DOMAIN f :
      LET free == {s \in Areas : vma[s].length = 0} \ {f[j] : j \in 1 .. k - 1}
      IN f[k] \in free /\ \A s \in free : f[k] <= s

\* The shell runs a program, which opens the file.
Start(p) ==
    /\ \A q \in Users : call[q] = Gone
    /\ fd' = {p} /\ refs' = refs + 1
    /\ Goto(p, UserMode)
    /\ UNCHANGED <<vma, areas, frames, size>>

----------------------------------------------------------------------------
(* sys_mmap.  Into an empty list the new area goes as it is: its next is what *)
(* its last user left there.                                                  *)
MapFile(p, n, kind) ==
  \E s \in Areas :
    LET c == Chain(p)
        start == IF c = <<>> THEN VmaStart ELSE vma[Last(c)].end
        new == [length |-> n, start |-> start, end |-> start + n, off |-> 0,
                shared |-> kind.shared, write |-> kind.write,
                next |-> IF c = <<>> THEN vma[s].next ELSE 0]
    IN /\ InUserMode(p) /\ p \in fd /\ Allocated(<<s>>) /\ start + n <= Top + 1
       /\ vma' = IF c = <<>> THEN [vma EXCEPT ![s] = new]
                 ELSE [vma EXCEPT ![Last(c)].next = s, ![s] = new]
       /\ areas' = IF c = <<>> THEN [areas EXCEPT ![p] = s] ELSE areas
       /\ refs' = refs + 1
       /\ UNCHANGED <<frames, size, fd, call>>

\* usertrap and mmap_handler: a page that is not there is read from the file.
\* (Where there is no area, or one that may not be used so, the process dies.)
Fault(p, a) ==
    /\ InUserMode(p) /\ Area(p, a) # 0 /\ a \notin frames[p]
    /\ frames' = [frames EXCEPT ![p] = @ \cup {a}]
    /\ UNCHANGED <<vma, areas, size, fd, refs, call>>

----------------------------------------------------------------------------
(* sys_munmap.  An address inside an area that is neither its start nor ends  *)
(* with it panics and is left out.                                            *)

\* A write-back of n pages from a, for munmap or for exit.
Back(s, a, n, exit) == [at |-> "back", area |-> s, from |-> a, count |-> n, done |-> 0,
                        exit |-> exit]

UnmapHead(p, a, n) ==
    LET s == Area(p, a)
    IN /\ InUserMode(p) /\ s # 0 /\ a = vma[s].start /\ n \in 1 .. vma[s].length
       /\ Goto(p, Back(s, a, n, FALSE))
       /\ UNCHANGED <<vma, areas, frames, size, fd, refs>>

\* The tail is only cut off: its pages are neither written nor unmapped.
UnmapTail(p, a, n) ==
    LET s == Area(p, a)
    IN /\ InUserMode(p) /\ s # 0 /\ a # vma[s].start /\ a + n = vma[s].end
       /\ vma' = [vma EXCEPT ![s].length = @ - n, ![s].end = @ - n]
       /\ UNCHANGED <<areas, frames, size, fd, refs, call>>

\* writeback, a page at a time, each in a transaction under the inode lock.
\* copyin does not fault pages in, and writei does not go past a hole.
InBack(p) == call[p].at = "back"
Position(c) == vma[c.area].off + c.done + 1
Writes(p, c) == /\ c.done < c.count /\ vma[c.area].write /\ vma[c.area].shared
                /\ c.from + c.done \in frames[p]
                /\ Position(c) <= size + 1

WritePage(p) ==
    LET c == call[p]
    IN /\ InBack(p) /\ Writes(p, c)
       /\ size' = IF Position(c) > size THEN Position(c) ELSE size
       /\ Goto(p, [c EXCEPT !.done = @ + 1])
       /\ UNCHANGED <<vma, areas, frames, fd, refs>>

\* uvmunmap skips what is not there.
Cleared(p, from, n) == [frames EXCEPT ![p] = @ \ (from .. from + n - 1)]

\* A variant with a plausible bug, for the mutation checks: the list keeps it.
Unlinked_LengthOnly(p, s) == vma' = [vma EXCEPT ![s] = Freed(vma[s].next)] /\ UNCHANGED areas

\* The area leaves the list, its next only when another area precedes it.
Unlinked(p, s) ==
    IF areas[p] = s
    THEN /\ areas' = [areas EXCEPT ![p] = vma[s].next]
         /\ vma' = [vma EXCEPT ![s] = Freed(vma[s].next)]
    ELSE /\ \E t \in Range(Chain(p)) :
              /\ vma[t].next = s
              /\ vma' = [vma EXCEPT ![t].next = vma[s].next, ![s] = Freed(0)]
         /\ UNCHANGED areas

\* The pages are unmapped, and the file is closed with the last of them.
UnmapAll(p) ==
    LET c == call[p]
    IN /\ InBack(p) /\ ~ c.exit /\ ~ Writes(p, c) /\ c.count = vma[c.area].length
       /\ frames' = Cleared(p, c.from, c.count)
       /\ Unlinked(p, c.area) /\ refs' = refs - 1
       /\ Goto(p, UserMode)
       /\ UNCHANGED <<size, fd>>

\* Some pages are left, but the area is moved down where it should move up.
UnmapSome(p) ==
    LET c == call[p]
    IN /\ InBack(p) /\ ~ c.exit /\ ~ Writes(p, c) /\ c.count < vma[c.area].length
       /\ c.count <= vma[c.area].start
       /\ frames' = Cleared(p, c.from, c.count)
       /\ vma' = [vma EXCEPT ![c.area].start = @ - c.count, ![c.area].off = @ + c.count,
                             ![c.area].length = @ - c.count]
       /\ Goto(p, UserMode)
       /\ UNCHANGED <<areas, refs, size, fd>>

----------------------------------------------------------------------------
(* close, fork, exec, exit.                                                   *)

CloseFd(p) ==
    /\ InUserMode(p) /\ p \in fd
    /\ fd' = fd \ {p} /\ refs' = refs - 1
    /\ UNCHANGED <<vma, areas, frames, size, call>>

\* The child gets an area for each of its parent's, and none of the pages.
Fork(p, q) ==
  \E f \in [1 .. Len(Chain(p)) -> Areas] :
    LET c == Chain(p)
        new(k) == [vma[c[k]] EXCEPT !.next = IF k < Len(c) THEN f[k + 1] ELSE 0]
    IN /\ InUserMode(p) /\ call[q] = Gone /\ Allocated(f)
       /\ vma' = [s \in Areas |-> IF \E k \in 1 .. Len(c) : f[k] = s
                                   THEN new(CHOOSE k \in 1 .. Len(c) : f[k] = s) ELSE vma[s]]
       /\ areas' = [areas EXCEPT ![q] = IF c = <<>> THEN 0 ELSE f[1]]
       /\ fd' = IF p \in fd THEN fd \cup {q} ELSE fd
       /\ refs' = refs + Len(c) + Cardinality(fd' \ fd)
       /\ Goto(q, UserMode)
       /\ UNCHANGED <<frames, size>>

\* A new page table; the areas stay as they are, and the dirty pages are gone.
Exec(p) ==
    /\ InUserMode(p)
    /\ frames' = [frames EXCEPT ![p] = {}]
    /\ UNCHANGED <<vma, areas, size, fd, refs, call>>

\* exit goes through the list and then closes the descriptors.
ExitAt(p, s) == Goto(p, IF s = 0 THEN [at |-> "close"]
                        ELSE Back(s, vma[s].start, vma[s].length, TRUE))
ExitBegin(p) ==
    /\ InUserMode(p)
    /\ ExitAt(p, areas[p])
    /\ UNCHANGED <<vma, areas, frames, size, fd, refs>>

ExitUnmap(p) ==
    LET c == call[p]
    IN /\ InBack(p) /\ c.exit /\ ~ Writes(p, c)
       /\ frames' = Cleared(p, c.from, c.count)
       /\ refs' = refs - 1
       /\ vma' = [vma EXCEPT ![c.area] = Freed(0)]
       /\ ExitAt(p, vma[c.area].next)
       /\ UNCHANGED <<areas, size, fd>>

ExitClose(p) ==
    /\ call[p].at = "close"
    /\ fd' = fd \ {p} /\ refs' = refs - Cardinality(fd \cap {p})
    /\ frames' = [frames EXCEPT ![p] = {}]
    /\ areas' = [areas EXCEPT ![p] = 0]
    /\ Goto(p, Gone)
    /\ UNCHANGED <<vma, size>>

\* munmap takes a mapping whole, and it is the latest.
Tidily(p, a, n) == LET s == Area(p, a)
                   IN s # 0 /\ s = Last(Chain(p)) /\ n = vma[s].length

TidyNext ==
    \E p \in Users :
      \/ Start(p)
      \/ \E n \in Sizes, kind \in Kinds : MapFile(p, n, kind)
      \/ \E a \in Pages : Fault(p, a)
      \/ \E a \in Pages, n \in Sizes : Tidily(p, a, n) /\ UnmapHead(p, a, n)
      \/ WritePage(p) \/ UnmapAll(p)
      \/ CloseFd(p) \/ Exec(p)
      \/ \E q \in Users : Fork(p, q)
      \/ ExitBegin(p) \/ ExitUnmap(p) \/ ExitClose(p)

\* What programs may do besides.
UntidyNext ==
    \E p \in Users :
      \/ \E a \in Pages, n \in Sizes : UnmapHead(p, a, n) \/ UnmapTail(p, a, n)
      \/ UnmapSome(p)

TidySpec == MmapInit /\ [][TidyNext]_mmapVars
MmapSpec == MmapInit /\ [][TidyNext \/ UntidyNext]_mmapVars

----------------------------------------------------------------------------
\* The areas a process still has: exit goes on from the one it has come to.
Linked(p) ==
    CASE call[p].at \in {"gone", "close"} -> <<>>
      [] InBack(p) /\ call[p].exit -> From(call[p].area)
      [] OTHER -> Chain(p)

(* Length 0 means that the area is not used (proc.h): no process that is in   *)
(* user mode has it in its list.                                              *)
NotUsedIsNobodys ==
    \A p \in Users : InUserMode(p) =>
      \A k \in 1 .. Len(Chain(p)) : vma[Chain(p)[k]].length # 0

(* Whatever order processes map, unmap tidily, fork, exec and exit in: every  *)
(* area in use is in the list of one process, once, and no other area is in   *)
(* any; the areas of a process do not overlap and its pages are in them; and  *)
(* the file has a reference for each descriptor and each area.                *)
MappingsSound ==
    LET used == {s \in Areas : vma[s].length # 0}
    IN /\ \A p \in Users, k \in 1 .. VmaCount :
            k \in DOMAIN Linked(p) =>
              /\ Linked(p)[k] \in used
              /\ \A q \in Users : \A j \in DOMAIN Linked(q) :
                   Linked(q)[j] = Linked(p)[k] => q = p /\ j = k
              /\ k > 1 => vma[Linked(p)[k - 1]].end <= vma[Linked(p)[k]].start
       /\ \A s \in used : \E p \in Users : \E k \in DOMAIN Linked(p) : Linked(p)[k] = s
       /\ \A p \in Users, a \in Pages : a \in frames[p] =>
            \E k \in DOMAIN Linked(p) : Holds(Linked(p)[k], a)
       /\ refs = Cardinality(fd) + Cardinality(used)
=============================================================================
