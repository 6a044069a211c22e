--------------------------- MODULE FileTreeProofs ---------------------------
(* The counts and locks of inodes are right for every number of processes,    *)
(* inodes and names (FileTree).  The inductive invariant TreeInv says what    *)
(* types things have, what the processes have in their hands (HandsInv), how  *)
(* directories, names and links fit (NamesInv), where a call may stand        *)
(* (PlacesFit), and that who removes a directory is alone (RemoverAlone).     *)
(* First come the counts, then what all steps have in common, then a section  *)
(* for each system call, iput last, since it is where inodes are freed.       *)
EXTENDS FileTree, FiniteSetTheorems, SequenceTheorems, TLAPS

-----------------------------------------------------------------------------
(* Counting: a set that gains or loses one element, and who refers to i.      *)
LEMMA OneChanges ==
    ASSUME NEW S, NEW T, NEW x, IsFiniteSet(S), \A y : y # x => (y \in S <=> y \in T)
    PROVE  /\ IsFiniteSet(T) /\ Cardinality(S) \in Nat /\ Cardinality(T) \in Nat
           /\ Cardinality(T) = Cardinality(S) - One(x \in S) + One(x \in T)
<1>1. IsFiniteSet(S \ {x}) /\ Cardinality(S \ {x}) = Cardinality(S) - One(x \in S)
      /\ Cardinality(S) \in Nat /\ Cardinality(S \ {x}) \in Nat
  BY FS_RemoveElement, FS_CardinalityType DEF One
<1>2. CASE x \in T
  <2>1. T = (S \ {x}) \cup {x}
    BY <1>2
  <2> QED
    BY <1>1, <1>2, <2>1, FS_AddElement, FS_CardinalityType DEF One
<1>3. CASE x \notin T
  <2>1. T = S \ {x}
    BY <1>3
  <2> QED
    BY <1>1, <1>3, <2>1 DEF One
<1> QED
  BY <1>2, <1>3

NumberOf(h, i) ==
    One(h["cwd"] = i) + One(h["open"] = i) + One(h["cur"] = i)
    + One(h["ip"] = i) + One(h["put"] = i) + One(h["last"] = i)

LEMMA RemoveOne ==
    ASSUME NEW S, NEW x, IsFiniteSet(S)
    PROVE  /\ IsFiniteSet(S \ {x}) /\ Cardinality(S) \in Nat /\ Cardinality(S \ {x}) \in Nat
           /\ Cardinality(S) = Cardinality(S \ {x}) + One(x \in S)
<1>1. /\ IsFiniteSet(S \ {x})
      /\ Cardinality(S \ {x}) = IF x \in S THEN Cardinality(S) - 1 ELSE Cardinality(S)
  BY FS_RemoveElement
<1>2. Cardinality(S) \in Nat /\ Cardinality(S \ {x}) \in Nat
  BY <1>1, FS_CardinalityType
<1> QED
  BY <1>1, <1>2 DEF One

But(R, p) == {r \in R : \A s \in Slots : r # <<p, s>>}

LEMMA SlotsCounted ==
    ASSUME NEW R, IsFiniteSet(R), NEW p, NEW h, NEW i,
           \A s \in Slots : <<p, s>> \in R <=> h[s] = i
    PROVE  IsFiniteSet(But(R, p)) /\ Cardinality(R) = Cardinality(But(R, p)) + NumberOf(h, i)
           /\ Cardinality(But(R, p)) \in Nat /\ NumberOf(h, i) \in Nat
<1> DEFINE R1 == R \ {<<p, "cwd">>}
           R2 == R1 \ {<<p, "open">>}
           R3 == R2 \ {<<p, "cur">>}
           R4 == R3 \ {<<p, "ip">>}
           R5 == R4 \ {<<p, "put">>}
           R6 == R5 \ {<<p, "last">>}
<1>8. /\ <<p, "cwd">> \in R <=> h["cwd"] = i
      /\ <<p, "open">> \in R1 <=> h["open"] = i
      /\ <<p, "cur">> \in R2 <=> h["cur"] = i
      /\ <<p, "ip">> \in R3 <=> h["ip"] = i
      /\ <<p, "put">> \in R4 <=> h["put"] = i
      /\ <<p, "last">> \in R5 <=> h["last"] = i
  BY DEF Slots
<1>9. R6 = But(R, p)
  BY DEF But, Slots
<1>0. R2 = R1 \ {<<p, "open">>} /\ R3 = R2 \ {<<p, "cur">>} /\ R4 = R3 \ {<<p, "ip">>}
      /\ R5 = R4 \ {<<p, "put">>} /\ R6 = R5 \ {<<p, "last">>}
  OBVIOUS
<1>1. IsFiniteSet(R1) /\ Cardinality(R) \in Nat /\ Cardinality(R1) \in Nat
      /\ Cardinality(R) = Cardinality(R1) + One(<<p, "cwd">> \in R)
  BY RemoveOne
<1> HIDE DEF R1, R2, R3, R4, R5, R6
<1>2. IsFiniteSet(R2) /\ Cardinality(R2) \in Nat
      /\ Cardinality(R1) = Cardinality(R2) + One(<<p, "open">> \in R1)
  BY <1>0, <1>1, RemoveOne
<1>3. IsFiniteSet(R3) /\ Cardinality(R3) \in Nat
      /\ Cardinality(R2) = Cardinality(R3) + One(<<p, "cur">> \in R2)
  BY <1>0, <1>2, RemoveOne
<1>4. IsFiniteSet(R4) /\ Cardinality(R4) \in Nat
      /\ Cardinality(R3) = Cardinality(R4) + One(<<p, "ip">> \in R3)
  BY <1>0, <1>3, RemoveOne
<1>5. IsFiniteSet(R5) /\ Cardinality(R5) \in Nat
      /\ Cardinality(R4) = Cardinality(R5) + One(<<p, "put">> \in R4)
  BY <1>0, <1>4, RemoveOne
<1>6. IsFiniteSet(R6) /\ Cardinality(R6) \in Nat
      /\ Cardinality(R5) = Cardinality(R6) + One(<<p, "last">> \in R5)
  BY <1>0, <1>5, RemoveOne
<1>7. Cardinality(R) = Cardinality(R6) + NumberOf(h, i) /\ NumberOf(h, i) \in Nat
  BY <1>1, <1>2, <1>3, <1>4, <1>5, <1>6, <1>8 DEF NumberOf, One
<1> QED
  BY <1>6, <1>7, <1>9

RefSet(H, i) == {h \in Callers \X Slots : H[h[1]][h[2]] = i}
RefsBut(H, p, i) == {r \in RefSet(H, i) : r[1] # p}

LEMMA SlotsFinite == IsFiniteSet(Slots) /\ IsFiniteSet(Callers \X Slots)
<1>1. IsFiniteSet({"cwd"}) /\ IsFiniteSet({"open"}) /\ IsFiniteSet({"cur"})
      /\ IsFiniteSet({"ip"}) /\ IsFiniteSet({"put"}) /\ IsFiniteSet({"last"})
  BY FS_Singleton
<1>2. Slots = {"cwd"} \cup {"open"} \cup {"cur"} \cup {"ip"} \cup {"put"} \cup {"last"}
  BY DEF Slots
<1>3. IsFiniteSet(Slots)
  BY <1>1, <1>2, FS_Union
<1> QED
  BY <1>3, FS_Product, FileTreeAssumption

LEMMA RefsSplit ==
    ASSUME NEW H, NEW i, NEW p \in Callers
    PROVE  /\ IsFiniteSet(RefSet(H, i)) /\ IsFiniteSet(RefsBut(H, p, i))
           /\ Cardinality(RefSet(H, i)) \in Nat /\ Cardinality(RefsBut(H, p, i)) \in Nat
           /\ NumberOf(H[p], i) \in Nat
           /\ Cardinality(RefSet(H, i)) = Cardinality(RefsBut(H, p, i)) + NumberOf(H[p], i)
<1>1. IsFiniteSet(RefSet(H, i))
  BY SlotsFinite, FS_Subset DEF RefSet
<1>2. \A s \in Slots : <<p, s>> \in RefSet(H, i) <=> H[p][s] = i
  BY DEF RefSet
<1>3. But(RefSet(H, i), p) = RefsBut(H, p, i)
  BY DEF But, RefSet, RefsBut
<1>4. /\ IsFiniteSet(RefsBut(H, p, i))
      /\ Cardinality(RefSet(H, i)) = Cardinality(RefsBut(H, p, i)) + NumberOf(H[p], i)
      /\ Cardinality(RefsBut(H, p, i)) \in Nat /\ NumberOf(H[p], i) \in Nat
  BY <1>1, <1>2, <1>3, SlotsCounted
<1> QED
  BY <1>1, <1>4, FS_CardinalityType

LEMMA TwoRefs ==
    ASSUME NEW H, NEW i, NEW p \in Callers, NEW q \in Callers, p # q
    PROVE  NumberOf(H[p], i) + NumberOf(H[q], i) <= Cardinality(RefSet(H, i))
<1> DEFINE R == RefsBut(H, p, i)
<1>0. IsFiniteSet(R)
  BY RefsSplit
<1>1. IsFiniteSet(R) /\ Cardinality(RefSet(H, i)) = Cardinality(R) + NumberOf(H[p], i)
      /\ NumberOf(H[p], i) \in Nat
  BY RefsSplit
<1>2. \A s \in Slots : <<q, s>> \in R <=> H[q][s] = i
  BY DEF RefSet, RefsBut
<1> HIDE DEF R
<1>3. Cardinality(But(R, q)) \in Nat /\ Cardinality(R) = Cardinality(But(R, q)) + NumberOf(H[q], i)
      /\ NumberOf(H[q], i) \in Nat
  BY <1>1, <1>2, SlotsCounted
<1> QED
  BY <1>1, <1>3

LEMMA RefsOfOne ==
    ASSUME NEW H, NEW K, NEW i, NEW p \in Callers, \A q \in Callers \ {p} : K[q] = H[q]
    PROVE  RefsBut(K, p, i) = RefsBut(H, p, i)
BY DEF RefSet, RefsBut

LEMMA OnlyRefs ==
    ASSUME NEW H, NEW i, NEW p \in Callers,
           \A q \in Callers \ {p} : \A s \in Slots : H[q][s] # i
    PROVE  Cardinality(RefSet(H, i)) = NumberOf(H[p], i)
<1>1. RefsBut(H, p, i) = {}
  BY DEF RefSet, RefsBut
<1>2. Cardinality(RefsBut(H, p, i)) = 0
  BY <1>1, FS_EmptySet
<1> QED
  BY <1>2, RefsSplit

LEMMA SomeRef ==
    ASSUME NEW H, NEW i, NEW p \in Callers
    PROVE  NumberOf(H[p], i) \in Nat
           /\ (NumberOf(H[p], i) > 0 <=> \E s \in Slots : H[p][s] = i)
BY DEF NumberOf, One, Slots

-----------------------------------------------------------------------------
(* Types.  A call is in one of the shapes below.                              *)
PathNames == Names \cup {DotDot}
InodeTypes == {"free", "file", "dir"}
PutLists == {<<>>} \cup {<<i>> : i \in Inodes} \cup {<<k[1], k[2]>> : k \in Inodes \X Inodes}
CallFields == {"op", "at", "path", "new", "cur", "ip", "puts", "freeing"}
Entering == {"open", "create", "mkdir", "link", "unlink", "chdir"}

CallShape(c) ==
    \/ c.at = "end" /\ c.op = "none" /\ c.cur = NoInode /\ c.ip = NoInode
       /\ c.path = <<>> /\ c.new = <<>>
    \/ c.at = "walk" /\ c.op \in Entering /\ c.cur \in Inodes /\ c.ip = NoInode
    \/ c.at = "walk" /\ c.op = "newlink" /\ c.cur \in Inodes /\ c.ip \in Inodes
    \/ c.at = "parent" /\ c.op \in {"create", "mkdir", "unlink"} /\ c.cur \in Inodes
       /\ c.ip = NoInode /\ c.puts = <<>>
    \/ c.at = "parent" /\ c.op = "newlink" /\ c.cur \in Inodes /\ c.ip \in Inodes
       /\ c.puts = <<>>
    \/ c.at = "found" /\ c.op \in {"open", "chdir", "link"} /\ c.cur = NoInode /\ c.ip \in Inodes
    \/ c.at = "undo" /\ c.op = "newlink" /\ c.cur = NoInode /\ c.ip \in Inodes
    \/ c.at = "unlink" /\ c.op = "unlink" /\ c.cur \in Inodes /\ c.ip \in Inodes
       /\ c.puts = <<>>
    \/ c.at = "existing" /\ c.op \in {"create", "mkdir"} /\ c.cur = NoInode /\ c.ip \in Inodes
    \/ c.at = "fill" /\ c.op \in {"create", "mkdir"} /\ c.cur \in Inodes /\ c.ip \in Inodes
       /\ c.puts = <<>>

\* The last name of a path says what it is a name of.
CallPath(c) ==
    /\ c.at \in {"walk", "parent", "unlink", "fill"} =>
         /\ c.path \in Seq(PathNames) /\ c.path # <<>>
         /\ c.at # "walk" => Len(c.path) = 1
         /\ c.op = "mkdir" => LastOf(c.path) \in DirNames
         /\ c.op \in {"create", "newlink"} => LastOf(c.path) \in FileNames
    /\ c.at = "unlink" => LastOf(c.path) # DotDot
    /\ c.op = "link" => c.new \in Seq(PathNames) /\ c.new # <<>> /\ LastOf(c.new) \in FileNames

IsCall(c) ==
    /\ c.puts \in PutLists /\ c.freeing \in BOOLEAN
    /\ c.freeing => c.puts # <<>>
    /\ c.at # "end" => Len(c.puts) <= 1
    /\ CallShape(c) /\ CallPath(c)
    /\ DOMAIN c = CallFields

DiskTypes == dinode \in [Inodes -> [type : InodeTypes, nlink : Nat]]
CopyTypes == copy \in [Inodes -> [valid : BOOLEAN, type : InodeTypes, nlink : Nat]]
EntryTypes == entries \in [Inodes -> [PathNames -> Inodes \cup {NoInode}]]
CallTypes == DOMAIN syscall = Callers /\ \A p \in Callers : IsCall(syscall[p])
OtherTypes ==
    /\ ref \in [Inodes -> Nat]
    /\ holder \in [Inodes -> Callers \cup {Nobody}]
    /\ opened \in [Callers -> Inodes \cup {NoInode}]
    /\ cwd \in [Callers -> Inodes]
TreeTypes == DiskTypes /\ CopyTypes /\ EntryTypes /\ CallTypes /\ OtherTypes

-----------------------------------------------------------------------------
(* What processes hold.                                                       *)
HasRef(p, i) == \E s \in Slots : InHand[p][s] = i
Frees(p, i) == syscall[p].freeing /\ Head(syscall[p].puts) = i
IsFresh(p, i) == syscall[p].at = "fill" /\ syscall[p].ip = i
LocksInode(p, i) ==
    \/ Frees(p, i)
    \/ syscall[p].at \in {"unlink", "fill"} /\ syscall[p].cur = i
IsDir(i) == dinode[i].type = "dir"
Live(i) == IsDir(i) /\ dinode[i].nlink > 0

\* The count of references is right, and only who frees an inode has one to a
\* free inode.
RefsCounted == \A i \in Inodes : ref[i] = Cardinality(RefSet(InHand, i))
NoDangling ==
    \A p \in Callers : \A i \in Inodes :
      HasRef(p, i) /\ dinode[i].type = "free" => Frees(p, i)

\* Who frees an inode shares it at most with the create that got it from
\* ialloc again ...
FreesAlone ==
    \A p \in Callers : \A i \in Inodes : Frees(p, i) =>
      /\ dinode[i].nlink = 0 /\ NumberOf(InHand[p], i) = 1
      /\ dinode[i].type = "free" \/ \E q \in Callers : IsFresh(q, i)
      /\ \A q \in Callers \ {p} : HasRef(q, i) => IsFresh(q, i)

\* ... and the other way round.
FreshAlone ==
    \A p \in Callers : \A i \in Inodes : IsFresh(p, i) =>
      /\ dinode[i].type = TypeMade(syscall[p]) /\ dinode[i].nlink = 0
      /\ NumberOf(InHand[p], i) = 1
      /\ \A q \in Callers \ {p} : HasRef(q, i) => Frees(q, i)

HoldersKnown ==
    \A i \in Inodes : \A p \in Callers : holder[i] = p <=> LocksInode(p, i)

\* A valid copy is what is on disk, but while the inode is freed; an inode
\* without a link has a valid copy, so that the last iput sees it.
CopyIsDisk(i) ==
    copy[i] = [valid |-> TRUE, type |-> dinode[i].type, nlink |-> dinode[i].nlink]
CopiesAgree ==
    \A i \in Inodes : copy[i].valid =>
      ref[i] > 0 /\ (CopyIsDisk(i) \/ \E p \in Callers : Frees(p, i))
OrphansKept ==
    \A i \in Inodes : dinode[i].type # "free" /\ dinode[i].nlink = 0 =>
      ref[i] > 0 /\ (copy[i].valid \/ \E p \in Callers : IsFresh(p, i))
FreeUnlinked == \A i \in Inodes : dinode[i].type = "free" => dinode[i].nlink = 0

\* Only directories with a link have entries; what is in them is of the type
\* its name says; a directory is in one place, and its .. leads there.
NamesFit ==
    \A i \in Inodes : \A n \in Names :
      LET j == entries[i][n]
      IN j # NoInode =>
           /\ Live(i) /\ j # Root
           /\ n \in FileNames => dinode[j].type = "file"
           /\ n \in DirNames =>
                /\ IsDir(j) /\ entries[j][DotDot] = i
                /\ \A m \in DirNames : entries[i][m] = j => m = n
ParentsFit ==
    \A i \in Inodes :
      /\ Live(i) =>
           /\ entries[i][DotDot] \in Inodes /\ Live(entries[i][DotDot])
           /\ i # Root => \E n \in DirNames : entries[entries[i][DotDot]][n] = i
      /\ ~ IsDir(i) => entries[i][DotDot] = NoInode
RootStays == Live(Root) /\ entries[Root][DotDot] = Root
LinksCounted == \A i \in Inodes : dinode[i].nlink = Linkers(i)
IsTree ==
    \E M \in Nat : \E d \in [Inodes -> Nat] :
      /\ \A i \in Inodes : d[i] <= M
      /\ \A i \in Inodes : \A n \in DirNames :
           entries[i][n] # NoInode => d[entries[i][n]] > d[i]

\* A directory that a call came to has a link still, since directories are
\* removed while no other call is under way.
PlaceFits(p) ==
    LET c == syscall[p]
    IN /\ Live(cwd[p])
       /\ c.cur # NoInode /\ IsDir(c.cur) => Live(c.cur)
       /\ c.at \in {"parent", "unlink", "fill"} => Live(c.cur)
       /\ c.at \in {"unlink", "fill"} => copy[c.cur].valid
       /\ c.at = "found" /\ IsDir(c.ip) => Live(c.ip)
       /\ c.op = "newlink" => dinode[c.ip].type = "file"
       /\ c.at = "unlink" => entries[c.cur][Head(c.path)] = c.ip
       /\ c.at = "fill" => entries[c.cur][Head(c.path)] = NoInode
PlacesFit == \A p \in Callers : PlaceFits(p)
RemoverAlone ==
    \A p \in Callers : Removes(syscall[p]) =>
      /\ \A q \in Callers \ {p} : syscall[q].op = "none"
      /\ \A q \in Callers : cwd[q] = Root

HandsInv == RefsCounted /\ NoDangling /\ FreesAlone /\ FreshAlone /\ HoldersKnown
            /\ CopiesAgree /\ OrphansKept /\ FreeUnlinked
NamesInv == NamesFit /\ ParentsFit /\ RootStays /\ LinksCounted /\ IsTree
TreeInv == TreeTypes /\ HandsInv /\ NamesInv /\ PlacesFit /\ RemoverAlone

LEMMA PutsForms ==
    ASSUME NEW s \in PutLists
    PROVE  \/ s = <<>> /\ NextPut(s) = NoInode /\ LastPut(s) = NoInode /\ Len(s) = 0
           \/ \E i \in Inodes :
                /\ s = <<i>> /\ Head(s) = i /\ Tail(s) = <<>> /\ Len(s) = 1 /\ s # <<>>
                /\ NextPut(s) = NoInode /\ LastPut(s) = i
           \/ \E i, j \in Inodes :
                /\ s = <<i, j>> /\ Head(s) = i /\ Tail(s) = <<j>> /\ Len(s) = 2 /\ s # <<>>
                /\ NextPut(s) = i /\ LastPut(s) = j
<1>1. CASE s = <<>>
  BY <1>1 DEF NextPut, LastPut
<1>2. ASSUME NEW i \in Inodes, s = <<i>>
      PROVE  /\ s = <<i>> /\ Head(s) = i /\ Tail(s) = <<>> /\ Len(s) = 1 /\ s # <<>>
             /\ NextPut(s) = NoInode /\ LastPut(s) = i
  BY <1>2 DEF NextPut, LastPut
<1>3. ASSUME NEW i \in Inodes, NEW j \in Inodes, s = <<i, j>>
      PROVE  /\ s = <<i, j>> /\ Head(s) = i /\ Tail(s) = <<j>> /\ Len(s) = 2 /\ s # <<>>
             /\ NextPut(s) = i /\ LastPut(s) = j
  BY <1>3 DEF NextPut, LastPut
<1>4. s = <<>> \/ (\E i \in Inodes : s = <<i>>) \/ (\E i, j \in Inodes : s = <<i, j>>)
  BY DEF PutLists
<1> QED
  BY <1>1, <1>2, <1>3, <1>4

LEMMA PutsAre ==
    /\ <<>> \in PutLists /\ NextPut(<<>>) = NoInode /\ LastPut(<<>>) = NoInode
    /\ \A i \in Inodes : /\ <<i>> \in PutLists /\ NextPut(<<i>>) = NoInode
                         /\ LastPut(<<i>>) = i /\ Len(<<i>>) = 1 /\ <<i>> # <<>>
    /\ \A i, j \in Inodes : /\ <<i, j>> \in PutLists /\ NextPut(<<i, j>>) = i
                            /\ LastPut(<<i, j>>) = j /\ <<i, j>> # <<>>
                            /\ Append(<<i>>, j) = <<i, j>> /\ Append(<<>>, i) = <<i>>
<1>1. <<>> \in PutLists /\ NextPut(<<>>) = NoInode /\ LastPut(<<>>) = NoInode
  BY DEF PutLists, NextPut, LastPut
<1>2. ASSUME NEW i \in Inodes
      PROVE  <<i>> \in PutLists /\ NextPut(<<i>>) = NoInode /\ LastPut(<<i>>) = i
             /\ Len(<<i>>) = 1 /\ <<i>> # <<>>
  BY DEF PutLists, NextPut, LastPut
<1>3. ASSUME NEW i \in Inodes, NEW j \in Inodes
      PROVE  <<i, j>> \in PutLists /\ NextPut(<<i, j>>) = i /\ LastPut(<<i, j>>) = j
             /\ <<i, j>> # <<>> /\ Append(<<i>>, j) = <<i, j>> /\ Append(<<>>, i) = <<i>>
  <2>1. <<i, j>> \in PutLists
    <3>1. <<i, j>> \in Inodes \X Inodes /\ <<i, j>>[1] = i /\ <<i, j>>[2] = j
      OBVIOUS
    <3> QED
      BY <3>1 DEF PutLists
  <2>2. NextPut(<<i, j>>) = i /\ LastPut(<<i, j>>) = j /\ <<i, j>> # <<>>
    BY DEF NextPut, LastPut
  <2>3. Append(<<i>>, j) = <<i, j>> /\ Append(<<>>, i) = <<i>>
    <3> DEFINE S == Append(<<i>>, j)
               T == Append(<<>>, i)
    <3>1. <<i>> \in Seq(Inodes) /\ <<>> \in Seq(Inodes)
          /\ <<i, j>> \in Seq(Inodes)
      OBVIOUS
    <3>2. S \in Seq(Inodes) /\ Len(S) = 2 /\ S[1] = i /\ S[2] = j
      BY <3>1
    <3>3. T \in Seq(Inodes) /\ Len(T) = 1 /\ T[1] = i
      BY <3>1
    <3> HIDE DEF S, T
    <3>4. S = <<i, j>>
      BY <3>1, <3>2, SeqEqual
    <3>5. T = <<i>>
      BY <3>1, <3>3, SeqEqual
    <3> QED
      BY <3>4, <3>5 DEF S, T
  <2> QED
    BY <2>1, <2>2, <2>3
<1> QED
  BY <1>1, <1>2, <1>3

\* What a process has that takes no part in a step.
Others(p) ==
    \A q \in Callers \ {p} :
      syscall'[q] = syscall[q] /\ cwd'[q] = cwd[q] /\ opened'[q] = opened[q]

LEMMA OthersKeep ==
    ASSUME NEW p \in Callers, Others(p)
    PROVE  \A q \in Callers \ {p} :
             /\ InHand'[q] = InHand[q]
             /\ \A i : /\ HasRef(q, i)' <=> HasRef(q, i)
                       /\ Frees(q, i)' <=> Frees(q, i)
                       /\ IsFresh(q, i)' <=> IsFresh(q, i)
                       /\ LocksInode(q, i)' <=> LocksInode(q, i)
<1> TAKE q \in Callers \ {p}
<1>1. syscall'[q] = syscall[q] /\ cwd'[q] = cwd[q] /\ opened'[q] = opened[q]
  BY DEF Others
<1>2. InHand'[q] = InHand[q]
  BY <1>1 DEF InHand
<1> QED
  BY <1>1, <1>2, Zenon DEF HasRef, Frees, IsFresh, LocksInode

LEMMA HandIs ==
    ASSUME NEW p \in Callers
    PROVE  /\ InHand[p] = Handles(cwd[p], opened[p], syscall[p])
           /\ InHand'[p] = Handles(cwd'[p], opened'[p], syscall'[p])
BY DEF InHand

\* One process has more or fewer references.
LEMMA RefsStep ==
    ASSUME NEW p \in Callers, Others(p), RefsCounted, OtherTypes,
           \A i \in Inodes :
             ref'[i] + NumberOf(InHand[p], i) = ref[i] + NumberOf(InHand'[p], i)
             /\ ref'[i] \in Int
    PROVE  RefsCounted' /\ \A i \in Inodes : ref'[i] \in Nat
<1> SUFFICES ASSUME NEW i \in Inodes
             PROVE  ref'[i] = Cardinality(RefSet(InHand', i)) /\ ref'[i] \in Nat
  BY DEF RefsCounted
<1>1. RefsBut(InHand', p, i) = RefsBut(InHand, p, i)
  BY OthersKeep, RefsOfOne
<1>2. ref[i] = Cardinality(RefSet(InHand, i)) /\ ref[i] \in Nat
  BY DEF RefsCounted, OtherTypes
<1>3. /\ Cardinality(RefSet(InHand, i))
         = Cardinality(RefsBut(InHand, p, i)) + NumberOf(InHand[p], i)
      /\ Cardinality(RefsBut(InHand, p, i)) \in Nat /\ NumberOf(InHand[p], i) \in Nat
  BY RefsSplit
<1>4. /\ Cardinality(RefSet(InHand', i))
         = Cardinality(RefsBut(InHand', p, i)) + NumberOf(InHand'[p], i)
      /\ NumberOf(InHand'[p], i) \in Nat
  BY RefsSplit
<1>5. ref'[i] + NumberOf(InHand[p], i) = ref[i] + NumberOf(InHand'[p], i) /\ ref'[i] \in Int
  OBVIOUS
<1> QED
  BY <1>1, <1>2, <1>3, <1>4, <1>5

\* References are counted.
LEMMA RefsAtLeast ==
    ASSUME NEW p \in Callers, NEW i \in Inodes, RefsCounted
    PROVE  /\ ref[i] \in Nat /\ NumberOf(InHand[p], i) \in Nat /\ NumberOf(InHand[p], i) <= ref[i]
           /\ NumberOf(InHand[p], i) > 0 <=> HasRef(p, i)
           /\ \A q \in Callers \ {p} : NumberOf(InHand[q], i) \in Nat
                /\ NumberOf(InHand[p], i) + NumberOf(InHand[q], i) <= ref[i]
                /\ (NumberOf(InHand[q], i) > 0 <=> HasRef(q, i))
<1>1. ref[i] = Cardinality(RefSet(InHand, i))
  BY DEF RefsCounted
<1>2. \A q \in Callers : NumberOf(InHand[q], i) \in Nat
                         /\ (NumberOf(InHand[q], i) > 0 <=> HasRef(q, i))
  BY SomeRef DEF HasRef
<1>3. ref[i] \in Nat /\ NumberOf(InHand[p], i) <= ref[i]
  BY <1>1, RefsSplit
<1>4. \A q \in Callers \ {p} : NumberOf(InHand[p], i) + NumberOf(InHand[q], i) <= ref[i]
  BY <1>1, TwoRefs
<1> QED
  BY <1>2, <1>3, <1>4

-----------------------------------------------------------------------------
(* Most steps: the process frees nothing, changes inodes it has a reference   *)
(* to and that nobody frees, and gets references only to inodes with a link.  *)
Touches(p) ==
    \A j \in Inodes :
      \/ copy'[j] = copy[j] /\ dinode'[j] = dinode[j]
      \/ HasRef(p, j) /\ CopyIsDisk(j)' /\ dinode'[j].type = dinode[j].type
FindsLinked(p) ==
    \A j \in Inodes : HasRef(p, j)' => HasRef(p, j) \/ dinode[j].nlink > 0
CountsRefs(p) ==
    \A i \in Inodes :
      /\ ref'[i] + NumberOf(InHand[p], i) = ref[i] + NumberOf(InHand'[p], i)
      /\ ref'[i] \in Int /\ ref'[i] >= ref[i]
Moves(p) ==
    /\ Others(p) /\ Touches(p) /\ FindsLinked(p) /\ CountsRefs(p)
    /\ \A i \in Inodes : ~ Frees(p, i) /\ ~ Frees(p, i)' /\ ~ IsFresh(p, i)'
    /\ \A i \in Inodes : IsFresh(p, i) => copy'[i].valid
    /\ \A q \in Callers \ {p} : \A i \in Inodes : Frees(q, i) => ~ HasRef(p, i)

LEMMA FreshRef ==
    ASSUME NEW p \in Callers, NEW i, IsFresh(p, i)
    PROVE  HasRef(p, i)
<1>1. InHand[p]["ip"] = syscall[p].ip
  BY DEF InHand, Handles
<1> QED
  BY <1>1 DEF IsFresh, HasRef, Slots

LEMMA MoveStep ==
    ASSUME NEW p \in Callers, Moves(p), TreeTypes, HandsInv
    PROVE  /\ RefsCounted' /\ NoDangling' /\ FreesAlone' /\ FreshAlone'
           /\ CopiesAgree' /\ OrphansKept' /\ FreeUnlinked'
           /\ \A i \in Inodes : ref'[i] \in Nat
<1>0. /\ Others(p) /\ Touches(p) /\ FindsLinked(p) /\ CountsRefs(p)
      /\ \A i \in Inodes : ~ Frees(p, i) /\ ~ Frees(p, i)' /\ ~ IsFresh(p, i)'
      /\ \A i \in Inodes : IsFresh(p, i) => copy'[i].valid
      /\ \A q \in Callers \ {p} : \A i \in Inodes : Frees(q, i) => ~ HasRef(p, i)
  BY DEF Moves
<1>1. RefsCounted' /\ \A i \in Inodes : ref'[i] \in Nat
  BY <1>0, RefsStep DEF CountsRefs, TreeTypes, HandsInv
<1>2. \A q \in Callers \ {p} :
        /\ InHand'[q] = InHand[q]
        /\ \A i : /\ HasRef(q, i)' <=> HasRef(q, i)
                  /\ Frees(q, i)' <=> Frees(q, i)
                  /\ IsFresh(q, i)' <=> IsFresh(q, i)
  BY <1>0, OthersKeep
<1>3. \A j \in Inodes : dinode'[j].type = dinode[j].type
  BY <1>0 DEF Touches
<1>4. \A j \in Inodes : dinode'[j] = dinode[j] \/ HasRef(p, j)
  BY <1>0 DEF Touches
<1>5. \A j \in Inodes : dinode[j].nlink \in Nat /\ (dinode[j].nlink > 0 => dinode[j].nlink # 0)
  BY DEF TreeTypes, DiskTypes
<1>6. \A j \in Inodes : HasRef(p, j) => dinode[j].type # "free"
  BY <1>0 DEF HandsInv, NoDangling
<1>7. FreeUnlinked'
  BY <1>3, <1>4, <1>6 DEF FreeUnlinked, HandsInv
<1>8. NoDangling'
  <2> SUFFICES ASSUME NEW q \in Callers, NEW i \in Inodes, HasRef(q, i)', dinode'[i].type = "free"
               PROVE  Frees(q, i)'
    BY DEF NoDangling
  <2>1. CASE q = p
    <3>1. HasRef(p, i) \/ dinode[i].nlink > 0
      BY <1>0, <2>1 DEF FindsLinked
    <3>2. dinode[i].type = "free" /\ dinode[i].nlink = 0
      BY <1>3 DEF FreeUnlinked, HandsInv
    <3> QED
      BY <3>1, <3>2, <1>5, <1>6
  <2>2. CASE q # p
    BY <1>2, <1>3, <2>2 DEF NoDangling, HandsInv
  <2> QED
    BY <2>1, <2>2
<1>9. FreesAlone'
  <2> SUFFICES ASSUME NEW q \in Callers, NEW i \in Inodes, Frees(q, i)'
               PROVE  /\ dinode'[i].nlink = 0 /\ NumberOf(InHand'[q], i) = 1
                      /\ dinode'[i].type = "free" \/ \E r \in Callers : IsFresh(r, i)'
                      /\ \A r \in Callers \ {q} : HasRef(r, i)' => IsFresh(r, i)'
    BY DEF FreesAlone
  <2>1. q # p /\ Frees(q, i) /\ ~ HasRef(p, i)
    BY <1>0, <1>2
  <2>2. dinode'[i] = dinode[i]
    BY <1>4, <2>1
  <2>3. /\ dinode[i].nlink = 0 /\ NumberOf(InHand[q], i) = 1
        /\ dinode[i].type = "free" \/ \E r \in Callers : IsFresh(r, i)
        /\ \A r \in Callers \ {q} : HasRef(r, i) => IsFresh(r, i)
    BY <2>1 DEF FreesAlone, HandsInv
  <2>4. ~ HasRef(p, i)'
    BY <1>0, <1>5, <2>1, <2>3 DEF FindsLinked
  <2>5. ~ IsFresh(p, i)
    BY <2>1, FreshRef
  <2> QED
    BY <1>2, <2>1, <2>2, <2>3, <2>4, <2>5
<1>10. FreshAlone'
  <2> SUFFICES ASSUME NEW q \in Callers, NEW i \in Inodes, IsFresh(q, i)'
               PROVE  /\ dinode'[i].type = TypeMade(syscall'[q]) /\ dinode'[i].nlink = 0
                      /\ NumberOf(InHand'[q], i) = 1
                      /\ \A r \in Callers \ {q} : HasRef(r, i)' => Frees(r, i)'
    BY DEF FreshAlone
  <2>1. q # p /\ IsFresh(q, i)
    BY <1>0, <1>2
  <2>2. syscall'[q] = syscall[q]
    BY <1>0, <2>1 DEF Others
  <2>3. /\ dinode[i].type = TypeMade(syscall[q]) /\ dinode[i].nlink = 0
        /\ NumberOf(InHand[q], i) = 1
        /\ \A r \in Callers \ {q} : HasRef(r, i) => Frees(r, i)
    BY <2>1 DEF FreshAlone, HandsInv
  <2>4. ~ HasRef(p, i)
    BY <1>0, <2>1, <2>3
  <2>5. ~ HasRef(p, i)'
    BY <1>0, <1>5, <2>3, <2>4 DEF FindsLinked
  <2>6. dinode'[i] = dinode[i]
    BY <1>4, <2>4
  <2> QED
    BY <1>2, <2>1, <2>2, <2>3, <2>5, <2>6
<1>11. CopiesAgree'
  <2> SUFFICES ASSUME NEW i \in Inodes, copy'[i].valid
               PROVE  ref'[i] > 0 /\ (CopyIsDisk(i)' \/ \E q \in Callers : Frees(q, i)')
    BY DEF CopiesAgree
  <2>1. ref'[i] >= ref[i] /\ ref'[i] \in Nat /\ ref[i] \in Nat
    BY <1>0, <1>1 DEF CountsRefs, TreeTypes, OtherTypes
  <2>2. CASE copy'[i] = copy[i] /\ dinode'[i] = dinode[i]
    <3>1. ref[i] > 0 /\ (CopyIsDisk(i) \/ \E q \in Callers : Frees(q, i))
      BY <2>2 DEF CopiesAgree, HandsInv
    <3>2. CopyIsDisk(i) => CopyIsDisk(i)'
      BY <2>2 DEF CopyIsDisk
    <3>3. (\E q \in Callers : Frees(q, i)) => \E q \in Callers : Frees(q, i)'
      BY <1>0, <1>2
    <3> QED
      BY <2>1, <3>1, <3>2, <3>3
  <2>3. CASE HasRef(p, i) /\ CopyIsDisk(i)'
    <3>1. ref[i] > 0
      BY <2>3, <2>1, RefsAtLeast DEF HandsInv
    <3> QED
      BY <2>1, <2>3, <3>1
  <2> QED
    BY <1>0, <2>2, <2>3 DEF Touches
<1>12. OrphansKept'
  <2> SUFFICES ASSUME NEW i \in Inodes, dinode'[i].type # "free", dinode'[i].nlink = 0
               PROVE  ref'[i] > 0 /\ (copy'[i].valid \/ \E q \in Callers : IsFresh(q, i)')
    BY DEF OrphansKept
  <2>1. ref'[i] >= ref[i] /\ ref'[i] \in Nat /\ ref[i] \in Nat
    BY <1>0, <1>1 DEF CountsRefs, TreeTypes, OtherTypes
  <2>2. CASE copy'[i] = copy[i] /\ dinode'[i] = dinode[i]
    <3>1. ref[i] > 0 /\ (copy[i].valid \/ \E q \in Callers : IsFresh(q, i))
      BY <2>2 DEF OrphansKept, HandsInv
    <3>2. (\E q \in Callers : IsFresh(q, i))
            => (copy'[i].valid \/ \E q \in Callers : IsFresh(q, i)')
      BY <1>0, <1>2
    <3> QED
      BY <2>1, <2>2, <3>1, <3>2
  <2>3. CASE HasRef(p, i) /\ CopyIsDisk(i)'
    <3>1. ref[i] > 0
      BY <2>3, <2>1, RefsAtLeast DEF HandsInv
    <3>2. copy'[i].valid
      BY <2>3 DEF CopyIsDisk
    <3> QED
      BY <2>1, <3>1, <3>2
  <2> QED
    BY <1>0, <2>2, <2>3 DEF Touches
<1> QED
  BY <1>1, <1>7, <1>8, <1>9, <1>10, <1>11, <1>12

\* Locks: a process takes one that is free, or keeps or releases its own.
LocksMove(p) ==
    \A i \in Inodes :
      /\ LocksInode(p, i)' => holder[i] \in {p, Nobody}
      /\ holder'[i] = IF LocksInode(p, i)' THEN p
                      ELSE IF LocksInode(p, i) THEN Nobody ELSE holder[i]

LEMMA HoldersStep ==
    ASSUME NEW p \in Callers, Others(p), LocksMove(p), HoldersKnown
    PROVE  HoldersKnown'
<1> SUFFICES ASSUME NEW i \in Inodes, NEW q \in Callers
             PROVE  holder'[i] = q <=> LocksInode(q, i)'
  BY DEF HoldersKnown
<1>1. q # p => (LocksInode(q, i)' <=> LocksInode(q, i))
  BY OthersKeep
<1>2. /\ LocksInode(p, i)' => holder[i] \in {p, Nobody}
      /\ holder'[i] = IF LocksInode(p, i)' THEN p
                      ELSE IF LocksInode(p, i) THEN Nobody ELSE holder[i]
  BY DEF LocksMove
<1>3. (holder[i] = q <=> LocksInode(q, i)) /\ (holder[i] = p <=> LocksInode(p, i))
  BY DEF HoldersKnown
<1>4. Nobody # q /\ Nobody # p
  BY FileTreeAssumption
<1> QED
  BY <1>1, <1>2, <1>3, <1>4, Zenon

\* The lock of an inode keeps it from being freed.
LEMMA NotFreed ==
    ASSUME NEW p \in Callers, NEW i \in Inodes, HoldersKnown, holder[i] \in {p, Nobody}
    PROVE  \A q \in Callers \ {p} : ~ LocksInode(q, i) /\ ~ Frees(q, i)
<1>1. \A q \in Callers \ {p} : holder[i] # q
  BY FileTreeAssumption
<1> QED
  BY <1>1 DEF HoldersKnown, LocksInode

LEMMA LockedIs ==
    ASSUME NEW i \in Inodes, TreeTypes, HandsInv, CanLock(i)
    PROVE  Locked(i) = [valid |-> TRUE, type |-> dinode[i].type, nlink |-> dinode[i].nlink]
<1>1. \A q \in Callers : ~ Frees(q, i)
  BY FileTreeAssumption DEF CanLock, HandsInv, HoldersKnown, LocksInode
<1>2. copy[i].valid => CopyIsDisk(i)
  BY <1>1 DEF HandsInv, CopiesAgree
<1> QED
  BY <1>2, Zenon DEF Locked, CopyIsDisk

-----------------------------------------------------------------------------
(* The counts of links, and how one name, directory or call changes them.     *)
LEMMA LinkersFinite ==
    ASSUME NEW i
    PROVE  /\ IsFiniteSet(NamesOf(i)) /\ IsFiniteSet(SubdirsOf(i)) /\ IsFiniteSet(LinkCallsTo(i))
           /\ Cardinality(NamesOf(i)) \in Nat /\ Cardinality(SubdirsOf(i)) \in Nat
           /\ Cardinality(LinkCallsTo(i)) \in Nat
<1>1. IsFiniteSet(Inodes)
  <2>1. InodeCount \in Int /\ 1 \in Int
    BY FileTreeAssumption
  <2> QED
    BY <2>1, FS_Interval DEF Inodes
<1>2. IsFiniteSet(Inodes \X Names)
  BY <1>1, FS_Product, FileTreeAssumption
<1>3. IsFiniteSet(NamesOf(i))
  BY <1>2, FS_Subset DEF NamesOf
<1>4. IsFiniteSet(SubdirsOf(i))
  BY <1>1, FS_Subset DEF SubdirsOf
<1>5. IsFiniteSet(LinkCallsTo(i))
  BY FileTreeAssumption, FS_Subset DEF LinkCallsTo
<1> QED
  BY <1>3, <1>4, <1>5, FS_CardinalityType

IsNameOf(d, n, i) == d \in Inodes /\ n \in Names /\ entries[d][n] = i
IsSubdirOf(j, i) == j \in Inodes \ {Root} /\ entries[j][DotDot] = i /\ dinode[j].nlink > 0
IsLinkCallTo(p, i) == p \in Callers /\ syscall[p].op = "newlink" /\ syscall[p].ip = i

LEMMA NamesStep ==
    ASSUME NEW i, NEW d, NEW n,
           \A j \in Inodes, m \in Names :
             <<j, m>> # <<d, n>> => (entries'[j][m] = i <=> entries[j][m] = i)
    PROVE  Cardinality(NamesOf(i)') =
             Cardinality(NamesOf(i)) - One(IsNameOf(d, n, i)) + One(IsNameOf(d, n, i)')
           /\ Cardinality(NamesOf(i)') \in Nat
<1>1. \A y : y # <<d, n>> => (y \in NamesOf(i) <=> y \in NamesOf(i)')
  BY DEF NamesOf
<1>2. (<<d, n>> \in NamesOf(i) <=> IsNameOf(d, n, i))
      /\ (<<d, n>> \in NamesOf(i)' <=> IsNameOf(d, n, i)')
  BY DEF NamesOf, IsNameOf
<1>3. Cardinality(NamesOf(i)') = Cardinality(NamesOf(i))
        - One(<<d, n>> \in NamesOf(i)) + One(<<d, n>> \in NamesOf(i)')
      /\ Cardinality(NamesOf(i)') \in Nat
  BY <1>1, LinkersFinite, OneChanges
<1> QED
  BY <1>2, <1>3, LinkersFinite DEF One

LEMMA SubdirsStep ==
    ASSUME NEW i, NEW j, \A k \in Inodes \ {j} : IsSubdirOf(k, i)' <=> IsSubdirOf(k, i)
    PROVE  Cardinality(SubdirsOf(i)') =
             Cardinality(SubdirsOf(i)) - One(IsSubdirOf(j, i)) + One(IsSubdirOf(j, i)')
           /\ Cardinality(SubdirsOf(i)') \in Nat
<1>0. \A y : (y \in SubdirsOf(i) <=> IsSubdirOf(y, i))
             /\ (y \in SubdirsOf(i)' <=> IsSubdirOf(y, i)')
  BY DEF SubdirsOf, IsSubdirOf
<1>1. \A y : y # j => (y \in SubdirsOf(i) <=> y \in SubdirsOf(i)')
  BY <1>0 DEF IsSubdirOf
<1>3. Cardinality(SubdirsOf(i)') = Cardinality(SubdirsOf(i))
        - One(j \in SubdirsOf(i)) + One(j \in SubdirsOf(i)')
      /\ Cardinality(SubdirsOf(i)') \in Nat
  BY <1>1, LinkersFinite, OneChanges
<1> QED
  BY <1>0, <1>3, LinkersFinite DEF One

LEMMA LinkCallsStep ==
    ASSUME NEW i, NEW p \in Callers, Others(p)
    PROVE  Cardinality(LinkCallsTo(i)') =
             Cardinality(LinkCallsTo(i)) - One(IsLinkCallTo(p, i)) + One(IsLinkCallTo(p, i)')
           /\ Cardinality(LinkCallsTo(i)') \in Nat
<1>0. \A y : (y \in LinkCallsTo(i) <=> IsLinkCallTo(y, i))
             /\ (y \in LinkCallsTo(i)' <=> IsLinkCallTo(y, i)')
  BY DEF LinkCallsTo, IsLinkCallTo
<1>1. \A y : y # p => (y \in LinkCallsTo(i) <=> y \in LinkCallsTo(i)')
  BY <1>0 DEF IsLinkCallTo, Others
<1>3. Cardinality(LinkCallsTo(i)') = Cardinality(LinkCallsTo(i))
        - One(p \in LinkCallsTo(i)) + One(p \in LinkCallsTo(i)')
      /\ Cardinality(LinkCallsTo(i)') \in Nat
  BY <1>1, LinkersFinite, OneChanges
<1> QED
  BY <1>0, <1>3, LinkersFinite DEF One

LEMMA NameLinks ==
    ASSUME NEW i \in Inodes, NEW n \in Names, EntryTypes, LinksCounted, entries[i][n] # NoInode
    PROVE  entries[i][n] \in Inodes /\ dinode[entries[i][n]].nlink > 0
<1> DEFINE j == entries[i][n]
<1>1. j \in Inodes
  BY DEF EntryTypes, PathNames
<1>2. <<i, n>> \in NamesOf(j)
  BY DEF NamesOf
<1>3. Cardinality(NamesOf(j)) # 0 /\ Cardinality(NamesOf(j)) \in Nat
  BY <1>2, LinkersFinite, FS_EmptySet
<1>4. One(j = Root) \in Nat
  BY DEF One
<1>5. dinode[j].nlink = Linkers(j)
  BY <1>1 DEF LinksCounted
<1> HIDE DEF j
<1>6. dinode[j].nlink > 0
  BY <1>3, <1>4, <1>5, LinkersFinite DEF Linkers
<1> QED
  BY <1>1, <1>6 DEF j

\* Most steps leave the tree alone: what they change is a file or has no link.
TreeKept ==
    \A j \in Inodes :
      \/ /\ entries'[j] = entries[j] /\ dinode'[j].type = dinode[j].type
         /\ dinode'[j].nlink > 0 <=> dinode[j].nlink > 0
      \/ /\ dinode[j].nlink = 0 /\ dinode'[j].nlink = 0
         /\ \A n \in Names : entries'[j][n] = NoInode
         /\ ~ IsDir(j)' => entries'[j][DotDot] = NoInode
      \/ entries'[j] = entries[j] /\ dinode[j].type = "file" /\ dinode'[j].type = "file"

LEMMA KeptLinked ==
    ASSUME TreeKept, DiskTypes
    PROVE  \A j \in Inodes : dinode[j].nlink > 0 =>
             /\ entries'[j] = entries[j] /\ (IsDir(j)' <=> IsDir(j))
             /\ dinode'[j].type = dinode[j].type
             /\ Live(j)' <=> Live(j)
<1> TAKE j \in Inodes
<1> HAVE dinode[j].nlink > 0
<1>1. dinode[j].nlink # 0
  BY DEF DiskTypes
<1> QED
  BY <1>1 DEF TreeKept, IsDir, Live

LEMMA TreeStep ==
    ASSUME TreeKept, TreeTypes, NamesInv
    PROVE  NamesFit' /\ ParentsFit' /\ RootStays' /\ IsTree'
<1>0. /\ NamesFit /\ ParentsFit /\ RootStays /\ LinksCounted /\ IsTree
      /\ DiskTypes /\ EntryTypes
  BY DEF NamesInv, TreeTypes
<1>1. \A j \in Inodes : dinode[j].nlink > 0 =>
             /\ entries'[j] = entries[j] /\ (IsDir(j)' <=> IsDir(j))
             /\ dinode'[j].type = dinode[j].type
             /\ Live(j)' <=> Live(j)
  BY <1>0, KeptLinked
<1>2. \A i \in Inodes : \A n \in Names : entries'[i][n] # NoInode =>
        /\ entries[i][n] # NoInode /\ entries[i][n] \in Inodes
        /\ dinode[i].nlink > 0 /\ dinode[entries[i][n]].nlink > 0
  <2> SUFFICES ASSUME NEW i \in Inodes, NEW n \in Names, entries'[i][n] # NoInode
               PROVE  /\ entries[i][n] # NoInode /\ entries[i][n] \in Inodes
                      /\ dinode[i].nlink > 0 /\ dinode[entries[i][n]].nlink > 0
    OBVIOUS
  <2>1. entries[i][n] # NoInode
    BY DEF TreeKept
  <2>2. Live(i)
    BY <1>0, <2>1 DEF NamesFit
  <2> QED
    BY <1>0, <2>1, <2>2, NameLinks DEF Live
<1>3. NamesFit'
  <2> SUFFICES ASSUME NEW i \in Inodes, NEW n \in Names, entries'[i][n] # NoInode
               PROVE  (LET j == entries[i][n]
                       IN /\ Live(i) /\ j # Root
                          /\ n \in FileNames => dinode[j].type = "file"
                          /\ n \in DirNames =>
                               /\ IsDir(j) /\ entries[j][DotDot] = i
                               /\ \A m \in DirNames : entries[i][m] = j => m = n)'
    BY DEF NamesFit
  <2> DEFINE j == entries[i][n]
  <2>1. j # NoInode /\ j \in Inodes /\ dinode[i].nlink > 0 /\ dinode[j].nlink > 0
    BY <1>2
  <2>2. /\ Live(i) /\ j # Root
        /\ n \in FileNames => dinode[j].type = "file"
        /\ n \in DirNames => /\ IsDir(j) /\ entries[j][DotDot] = i
                             /\ \A m \in DirNames : entries[i][m] = j => m = n
    BY <1>0, <2>1 DEF NamesFit
  <2>3. /\ entries'[i] = entries[i] /\ entries'[j] = entries[j] /\ (Live(i)' <=> Live(i))
        /\ (IsDir(j)' <=> IsDir(j)) /\ dinode'[j].type = dinode[j].type
    BY <1>1, <2>1
  <2>4. entries'[i][n] = j
    BY <2>3
  <2> HIDE DEF j
  <2>5. /\ Live(i)' /\ j # Root
        /\ n \in FileNames => dinode'[j].type = "file"
        /\ n \in DirNames => /\ dinode'[j].type = "dir" /\ entries'[j][DotDot] = i
                             /\ \A m \in DirNames : entries'[i][m] = j => m = n
    BY <2>2, <2>3 DEF IsDir
  <2> QED
    BY <2>4, <2>5 DEF IsDir
<1>4. ParentsFit'
  <2> SUFFICES ASSUME NEW i \in Inodes
               PROVE  /\ Live(i)' =>
                           /\ entries'[i][DotDot] \in Inodes /\ Live(entries[i][DotDot])'
                           /\ i # Root =>
                                \E n \in DirNames : entries'[entries'[i][DotDot]][n] = i
                      /\ ~ IsDir(i)' => entries'[i][DotDot] = NoInode
    BY DEF ParentsFit
  <2>1. ASSUME Live(i)'
        PROVE  /\ entries'[i][DotDot] \in Inodes /\ Live(entries[i][DotDot])'
               /\ i # Root => \E n \in DirNames : entries'[entries'[i][DotDot]][n] = i
    <3>1. dinode'[i].nlink > 0
      BY <2>1 DEF Live
    <3>2. dinode[i].nlink > 0
      BY <2>1, <3>1, <1>0 DEF TreeKept, Live, IsDir, DiskTypes
    <3>3. entries'[i] = entries[i] /\ Live(i)
      BY <1>1, <2>1, <3>2
    <3> DEFINE k == entries[i][DotDot]
    <3>4. k \in Inodes /\ Live(k) /\ (i # Root => \E n \in DirNames : entries[k][n] = i)
      BY <1>0, <3>3 DEF ParentsFit
    <3>5. dinode'[k].type = "dir" /\ dinode'[k].nlink > 0 /\ entries'[k] = entries[k]
      BY <1>1, <3>4 DEF Live, IsDir
    <3>6. entries'[i][DotDot] = k
      BY <3>3
    <3> HIDE DEF k
    <3> QED
      BY <3>4, <3>5, <3>6 DEF Live, IsDir
  <2>2. ASSUME ~ IsDir(i)' PROVE entries'[i][DotDot] = NoInode
    BY <1>0, <2>2 DEF TreeKept, ParentsFit, IsDir
  <2> QED
    BY <2>1, <2>2
<1>5. RootStays'
  BY <1>0, <1>1, FileTreeAssumption DEF RootStays, Live, Root, Inodes
<1>6. IsTree'
  <2>1. PICK M \in Nat : \E d \in [Inodes -> Nat] :
          /\ \A i \in Inodes : d[i] <= M
          /\ \A i \in Inodes : \A n \in DirNames :
               entries[i][n] # NoInode => d[entries[i][n]] > d[i]
    BY <1>0 DEF IsTree
  <2>2. PICK d \in [Inodes -> Nat] :
          /\ \A i \in Inodes : d[i] <= M
          /\ \A i \in Inodes : \A n \in DirNames :
               entries[i][n] # NoInode => d[entries[i][n]] > d[i]
    BY <2>1
  <2>3. \A i \in Inodes : \A n \in DirNames : entries'[i][n] # NoInode =>
          entries[i][n] # NoInode /\ entries'[i][n] = entries[i][n]
    BY <1>1, <1>2 DEF Names
  <2> QED
    BY <2>2, <2>3 DEF IsTree
<1> QED
  BY <1>3, <1>4, <1>5, <1>6

LEMMA LinksStep ==
    ASSUME TreeKept, TreeTypes, NamesInv, NEW p \in Callers, Others(p),
           \A j \in Inodes :
             dinode'[j].nlink + One(IsLinkCallTo(p, j))
               = dinode[j].nlink + One(IsLinkCallTo(p, j)')
             /\ dinode'[j].nlink \in Int
    PROVE  LinksCounted'
<1>0. NamesFit /\ LinksCounted /\ DiskTypes /\ EntryTypes
  BY DEF NamesInv, TreeTypes
<1> SUFFICES ASSUME NEW i \in Inodes
             PROVE  dinode'[i].nlink = Linkers(i)'
  BY DEF LinksCounted
<1>1. NamesOf(i)' = NamesOf(i)
  <2>1. \A j \in Inodes, n \in Names : entries'[j][n] = i <=> entries[j][n] = i
    <3> TAKE j \in Inodes, n \in Names
    <3>1. i # NoInode
      BY FileTreeAssumption DEF Inodes, NoInode
    <3>2. CASE entries'[j] = entries[j]
      BY <3>2
    <3>3. CASE dinode[j].nlink = 0 /\ \A m \in Names : entries'[j][m] = NoInode
      <4>1. ~ Live(j)
        BY <3>3 DEF Live
      <4>2. entries[j][n] = NoInode
        BY <1>0, <4>1 DEF NamesFit
      <4> QED
        BY <3>1, <3>3, <4>2
    <3>4. CASE entries'[j] = entries[j] /\ dinode[j].type = "file"
      BY <3>4
    <3> QED
      BY <3>2, <3>3, <3>4 DEF TreeKept
  <2> QED
    BY <2>1 DEF NamesOf
<1>2. SubdirsOf(i)' = SubdirsOf(i)
  <2>1. \A j \in Inodes : (entries'[j][DotDot] = i /\ dinode'[j].nlink > 0)
                          <=> (entries[j][DotDot] = i /\ dinode[j].nlink > 0)
    <3> TAKE j \in Inodes
    <3>1. i # NoInode
      BY FileTreeAssumption DEF Inodes, NoInode
    <3>2. CASE entries'[j] = entries[j] /\ dinode[j].type = "file"
      <4>1. entries[j][DotDot] = NoInode
        BY <3>2 DEF NamesInv, ParentsFit, IsDir
      <4> QED
        BY <3>1, <3>2, <4>1
    <3> QED
      BY <3>2 DEF TreeKept
  <2> QED
    BY <2>1 DEF SubdirsOf
<1>3. Cardinality(LinkCallsTo(i)') =
        Cardinality(LinkCallsTo(i)) - One(IsLinkCallTo(p, i)) + One(IsLinkCallTo(p, i)')
      /\ Cardinality(LinkCallsTo(i)') \in Nat
  BY LinkCallsStep
<1>4. dinode[i].nlink = Linkers(i) /\ dinode[i].nlink \in Nat
  BY <1>0 DEF LinksCounted, DiskTypes
<1>5. dinode'[i].nlink + One(IsLinkCallTo(p, i))
        = dinode[i].nlink + One(IsLinkCallTo(p, i)') /\ dinode'[i].nlink \in Int
  OBVIOUS
<1>6. One(IsLinkCallTo(p, i)) \in Nat /\ One(IsLinkCallTo(p, i)') \in Nat /\ One(i = Root) \in Nat
  BY DEF One
<1> HIDE DEF IsLinkCallTo
<1>7. Linkers(i) = Cardinality(NamesOf(i)) + Cardinality(SubdirsOf(i)) + One(i = Root)
              + Cardinality(LinkCallsTo(i))
      /\ Linkers(i)' = Cardinality(NamesOf(i)') + Cardinality(SubdirsOf(i)') + One(i = Root)
              + Cardinality(LinkCallsTo(i)')
  BY DEF Linkers
<1> QED
  BY <1>1, <1>2, <1>3, <1>4, <1>5, <1>6, <1>7, LinkersFinite

LEMMA CallStep ==
    ASSUME NEW p \in Callers, NEW e, CallTypes, IsCall(e), Continue(p, e)
    PROVE  /\ CallTypes' /\ syscall'[p] = e
           /\ \A q \in Callers \ {p} : syscall'[q] = syscall[q]
<1>1. /\ DOMAIN syscall' = Callers /\ syscall'[p] = e
      /\ \A q \in Callers \ {p} : syscall'[q] = syscall[q]
  BY DEF Continue, CallTypes
<1>2. \A q \in Callers : IsCall(syscall'[q])
  BY <1>1, Zenon DEF CallTypes
<1> QED
  BY <1>1, <1>2 DEF CallTypes

LEMMA NoCallIs ==
    /\ NoCall.op = "none" /\ NoCall.at = "end" /\ NoCall.cur = NoInode /\ NoCall.ip = NoInode
    /\ NoCall.puts = <<>> /\ NoCall.path = <<>> /\ NoCall.new = <<>>
    /\ ~ NoCall.freeing /\ NoCall.freeing \in BOOLEAN /\ DOMAIN NoCall = CallFields
<1>1. \A b : LET c == [op |-> "none", at |-> "end", path |-> <<>>, new |-> <<>>,
                      cur |-> NoInode, ip |-> NoInode, puts |-> <<>>, freeing |-> b]
             IN c.op = "none" /\ c.at = "end" /\ c.cur = NoInode /\ c.ip = NoInode
                /\ c.puts = <<>> /\ c.path = <<>> /\ c.new = <<>> /\ c.freeing = b
                /\ DOMAIN c = CallFields
  BY DEF CallFields
<1>2. NoCall = [op |-> "none", at |-> "end", path |-> <<>>, new |-> <<>>, cur |-> NoInode,
                 ip |-> NoInode, puts |-> <<>>, freeing |-> FALSE]
  BY Zenon DEF NoCall
<1>3. NoCall.freeing = FALSE
  BY <1>1, <1>2, Zenon
<1> QED
  BY <1>1, <1>2, <1>3, Zenon

-----------------------------------------------------------------------------
(* The steps that change neither directories nor inodes on disk: what they    *)
(* keep, case by case.                                                        *)

\* ilock: nothing changes but the copy, which is what is on disk.
LEMMA JustReadIs ==
    ASSUME NEW i \in Inodes, TreeTypes, HandsInv, CanLock(i), JustRead(i)
    PROVE  /\ dinode' = dinode /\ CopyTypes' /\ CopyIsDisk(i)'
           /\ \A j \in Inodes \ {i} : copy'[j] = copy[j]
<1>1. Locked(i) = [valid |-> TRUE, type |-> dinode[i].type, nlink |-> dinode[i].nlink]
  BY LockedIs
<1> DEFINE l == [valid |-> TRUE, type |-> dinode[i].type, nlink |-> dinode[i].nlink]
<1>2. copy' = [copy EXCEPT ![i] = l] /\ dinode' = dinode
  BY <1>1 DEF JustRead
<1>3. l \in [valid : BOOLEAN, type : InodeTypes, nlink : Nat]
  BY DEF TreeTypes, DiskTypes
<1>4. copy'[i] = l /\ \A j \in Inodes \ {i} : copy'[j] = copy[j]
  BY <1>2 DEF TreeTypes, CopyTypes
<1>5. CopyTypes'
  BY <1>2, <1>3 DEF TreeTypes, CopyTypes
<1> QED
  BY <1>2, <1>4, <1>5 DEF CopyIsDisk

LEMMA PlacesStep ==
    ASSUME NEW p \in Callers, Others(p), PlacesFit, TreeTypes, PlaceFits(p)',
           \A q \in Callers \ {p} : \A j \in Inodes :
             /\ j \in {cwd[q], syscall[q].cur, syscall[q].ip} =>
                  dinode'[j].type = dinode[j].type /\ (Live(j) => Live(j)')
             /\ LocksInode(q, j) => entries'[j] = entries[j] /\ (copy[j].valid => copy'[j].valid)
    PROVE  PlacesFit'
<1> SUFFICES ASSUME NEW q \in Callers \ {p} PROVE PlaceFits(q)'
  BY DEF PlacesFit
<1>1. syscall'[q] = syscall[q] /\ cwd'[q] = cwd[q]
  BY DEF Others
<1>2. PlaceFits(q)
  BY DEF PlacesFit
<1> DEFINE c == syscall[q]
<1>3. CallShape(c) /\ cwd[q] \in Inodes
  BY DEF TreeTypes, CallTypes, IsCall, OtherTypes
<1>4. \A j \in Inodes : j \in {cwd[q], c.cur, c.ip} =>
        dinode'[j].type = dinode[j].type /\ (Live(j) => Live(j)')
  OBVIOUS
<1>5. c.at \in {"unlink", "fill"} => c.cur \in Inodes /\ entries'[c.cur] = entries[c.cur]
                                    /\ (copy[c.cur].valid => copy'[c.cur].valid)
  BY <1>3 DEF LocksInode, CallShape
<1>6. c.at \in {"parent", "unlink", "fill"} => c.cur \in Inodes
  BY <1>3 DEF CallShape
<1>7. c.cur = NoInode \/ c.cur \in Inodes
  BY <1>3 DEF CallShape
<1>8. (c.at = "found" \/ c.op = "newlink") => c.ip \in Inodes
  BY <1>3 DEF CallShape, Entering
<1>9. PlaceFits(q) <=>
       /\ Live(cwd[q])
       /\ c.cur # NoInode /\ IsDir(c.cur) => Live(c.cur)
       /\ c.at \in {"parent", "unlink", "fill"} => Live(c.cur)
       /\ c.at \in {"unlink", "fill"} => copy[c.cur].valid
       /\ c.at = "found" /\ IsDir(c.ip) => Live(c.ip)
       /\ c.op = "newlink" => dinode[c.ip].type = "file"
       /\ c.at = "unlink" => entries[c.cur][Head(c.path)] = c.ip
       /\ c.at = "fill" => entries[c.cur][Head(c.path)] = NoInode
  BY DEF PlaceFits
<1>10. PlaceFits(q)' <=>
       /\ Live(cwd[q])'
       /\ c.cur # NoInode /\ dinode'[c.cur].type = "dir" =>
            dinode'[c.cur].type = "dir" /\ dinode'[c.cur].nlink > 0
       /\ c.at \in {"parent", "unlink", "fill"} =>
            dinode'[c.cur].type = "dir" /\ dinode'[c.cur].nlink > 0
       /\ c.at \in {"unlink", "fill"} => copy'[c.cur].valid
       /\ c.at = "found" /\ dinode'[c.ip].type = "dir" =>
            dinode'[c.ip].type = "dir" /\ dinode'[c.ip].nlink > 0
       /\ c.op = "newlink" => dinode'[c.ip].type = "file"
       /\ c.at = "unlink" => entries'[c.cur][Head(c.path)] = c.ip
       /\ c.at = "fill" => entries'[c.cur][Head(c.path)] = NoInode
  BY <1>1 DEF PlaceFits, IsDir, Live
<1>11. \A j \in Inodes : j \in {cwd[q], c.cur, c.ip} =>
        /\ dinode'[j].type = dinode[j].type
        /\ Live(j) => dinode'[j].type = "dir" /\ dinode'[j].nlink > 0
        /\ IsDir(j) <=> dinode[j].type = "dir"
  BY <1>4 DEF IsDir, Live
<1>12. Live(cwd[q])'
  BY <1>1, <1>2, <1>3, <1>9, <1>11 DEF Live, IsDir
<1> HIDE DEF c
<1> QED
  BY <1>2, <1>5, <1>6, <1>7, <1>8, <1>9, <1>10, <1>11, <1>12

LEMMA RemoverStep ==
    ASSUME NEW p \in Callers, Others(p), RemoverAlone,
           Removes(syscall'[p]) => Removes(syscall[p]),
           syscall[p].op = "none" => syscall'[p].op = "none",
           cwd'[p] = cwd[p] \/ syscall[p].op = "chdir"
    PROVE  RemoverAlone'
<1> SUFFICES ASSUME NEW q \in Callers, Removes(syscall'[q])
             PROVE  /\ \A r \in Callers \ {q} : syscall'[r].op = "none"
                    /\ \A r \in Callers : cwd'[r] = Root
  BY DEF RemoverAlone
<1>1. \A r \in Callers \ {p} : syscall'[r] = syscall[r] /\ cwd'[r] = cwd[r]
  BY DEF Others
<1>2. Removes(syscall[q])
  BY <1>1
<1>3. /\ \A r \in Callers \ {q} : syscall[r].op = "none"
      /\ \A r \in Callers : cwd[r] = Root
  BY <1>2 DEF RemoverAlone
<1>4. syscall[p].op # "chdir"
  BY <1>2, <1>3 DEF Removes
<1> QED
  BY <1>1, <1>3, <1>4

\* A step that moves, once its changes to the tree are seen to fit.
LEMMA MoveInv ==
    ASSUME NEW p \in Callers, TreeInv, Moves(p), LocksMove(p),
           DiskTypes', CopyTypes', EntryTypes', CallTypes',
           opened' \in [Callers -> Inodes \cup {NoInode}], cwd' \in [Callers -> Inodes],
           holder' \in [Inodes -> Callers \cup {Nobody}],
           ref' = [i \in Inodes |-> ref'[i]],
           NamesInv', PlacesFit', RemoverAlone'
    PROVE  TreeInv'
<1>1. TreeTypes /\ HandsInv
  BY DEF TreeInv
<1>2. /\ RefsCounted' /\ NoDangling' /\ FreesAlone' /\ FreshAlone'
      /\ CopiesAgree' /\ OrphansKept' /\ FreeUnlinked'
      /\ \A i \in Inodes : ref'[i] \in Nat
  BY <1>1, MoveStep
<1>3. HoldersKnown'
  BY <1>1, HoldersStep DEF HandsInv, Moves
<1>4. OtherTypes'
  BY <1>2 DEF OtherTypes
<1> QED
  BY <1>2, <1>3, <1>4 DEF TreeInv, TreeTypes, HandsInv

\* Most steps leave the tree alone.
LEMMA KeepStep ==
    ASSUME NEW p \in Callers, TreeInv, Moves(p), LocksMove(p), TreeKept,
           DiskTypes', CopyTypes', EntryTypes', CallTypes',
           opened' \in [Callers -> Inodes \cup {NoInode}], cwd' \in [Callers -> Inodes],
           holder' \in [Inodes -> Callers \cup {Nobody}],
           ref' = [i \in Inodes |-> ref'[i]],
           \A j \in Inodes : dinode'[j].nlink + One(IsLinkCallTo(p, j))
                             = dinode[j].nlink + One(IsLinkCallTo(p, j)'),
           PlacesFit', RemoverAlone'
    PROVE  TreeInv'
<1>1. TreeTypes /\ NamesInv
  BY DEF TreeInv
<1>2. NamesFit' /\ ParentsFit' /\ RootStays' /\ IsTree'
  BY <1>1, TreeStep
<1>3. LinksCounted'
  <2>1. \A j \in Inodes : dinode'[j].nlink \in Int
    BY DEF DiskTypes
  <2> QED
    BY <1>1, <2>1, LinksStep DEF Moves
<1> QED
  BY <1>2, <1>3, MoveInv DEF NamesInv

\* The steps that look and change no directory and no inode on disk.
LEMMA LookStep ==
    ASSUME NEW p \in Callers, TreeInv, Moves(p), LocksMove(p),
           CopyTypes', CallTypes', dinode' = dinode, entries' = entries,
           opened' \in [Callers -> Inodes \cup {NoInode}], cwd' \in [Callers -> Inodes],
           holder' \in [Inodes -> Callers \cup {Nobody}], ref' = [i \in Inodes |-> ref'[i]],
           \A i \in Inodes : IsLinkCallTo(p, i)' <=> IsLinkCallTo(p, i),
           PlaceFits(p)', RemoverAlone'
    PROVE  TreeInv'
<1>1. TreeTypes /\ PlacesFit /\ DiskTypes /\ EntryTypes
  BY DEF TreeInv, TreeTypes
<1>2. TreeKept
  BY DEF TreeKept
<1>3. \A j \in Inodes : dinode'[j].nlink + One(IsLinkCallTo(p, j))
               = dinode[j].nlink + One(IsLinkCallTo(p, j)')
  BY DEF One
<1>4. PlacesFit'
  <2>1. \A j \in Inodes : copy[j].valid => copy'[j].valid
    <3> TAKE j \in Inodes
    <3>1. copy'[j] = copy[j] \/ CopyIsDisk(j)'
      BY DEF Moves, Touches
    <3>2. CopyIsDisk(j)' => copy'[j].valid
      BY DEF CopyIsDisk
    <3> HIDE DEF CopyIsDisk
    <3> QED
      BY <3>1, <3>2, Zenon
  <2> QED
    BY <1>1, <2>1, PlacesStep DEF Live, IsDir, Moves
<1>5. DiskTypes' /\ EntryTypes'
  BY <1>1 DEF DiskTypes, EntryTypes
<1> QED
  BY <1>2, <1>3, <1>4, <1>5, KeepStep

LEMMA HandsNow ==
    ASSUME NEW p \in Callers, NEW i
    PROVE  /\ NumberOf(InHand[p], i) =
                One(cwd[p] = i) + One(opened[p] = i) + One(syscall[p].cur = i)
                + One(syscall[p].ip = i) + One(NextPut(syscall[p].puts) = i)
                + One(LastPut(syscall[p].puts) = i)
           /\ HasRef(p, i) <=> \/ cwd[p] = i \/ opened[p] = i \/ syscall[p].cur = i
                               \/ syscall[p].ip = i \/ NextPut(syscall[p].puts) = i
                               \/ LastPut(syscall[p].puts) = i
           /\ NumberOf(InHand'[p], i) =
                One(cwd'[p] = i) + One(opened'[p] = i) + One(syscall'[p].cur = i)
                + One(syscall'[p].ip = i) + One(NextPut(syscall'[p].puts) = i)
                + One(LastPut(syscall'[p].puts) = i)
           /\ HasRef(p, i)' <=> \/ cwd'[p] = i \/ opened'[p] = i \/ syscall'[p].cur = i
                               \/ syscall'[p].ip = i \/ NextPut(syscall'[p].puts) = i
                               \/ LastPut(syscall'[p].puts) = i
<1>1. /\ InHand[p] = Handles(cwd[p], opened[p], syscall[p])
      /\ InHand'[p] = Handles(cwd'[p], opened'[p], syscall'[p])
  BY HandIs
<1>2. /\ HasRef(p, i) <=> \E s \in Slots : InHand[p][s] = i
      /\ HasRef(p, i)' <=> \E s \in Slots : InHand'[p][s] = i
  BY DEF HasRef
<1>3. /\ InHand[p]["cwd"] = cwd[p] /\ InHand[p]["open"] = opened[p]
      /\ InHand[p]["cur"] = syscall[p].cur /\ InHand[p]["ip"] = syscall[p].ip
      /\ InHand[p]["put"] = NextPut(syscall[p].puts)
      /\ InHand[p]["last"] = LastPut(syscall[p].puts)
  BY <1>1 DEF Handles
<1>4. /\ InHand'[p]["cwd"] = cwd'[p] /\ InHand'[p]["open"] = opened'[p]
      /\ InHand'[p]["cur"] = syscall'[p].cur /\ InHand'[p]["ip"] = syscall'[p].ip
      /\ InHand'[p]["put"] = NextPut(syscall'[p].puts)
      /\ InHand'[p]["last"] = LastPut(syscall'[p].puts)
  BY <1>1 DEF Handles
<1>5. /\ NumberOf(InHand[p], i) =
                One(cwd[p] = i) + One(opened[p] = i) + One(syscall[p].cur = i)
                + One(syscall[p].ip = i) + One(NextPut(syscall[p].puts) = i)
                + One(LastPut(syscall[p].puts) = i)
      /\ NumberOf(InHand'[p], i) =
                One(cwd'[p] = i) + One(opened'[p] = i) + One(syscall'[p].cur = i)
                + One(syscall'[p].ip = i) + One(NextPut(syscall'[p].puts) = i)
                + One(LastPut(syscall'[p].puts) = i)
  BY <1>3, <1>4, Zenon DEF NumberOf
<1> QED
  BY <1>2, <1>3, <1>4, <1>5 DEF Slots

\* A step outside of the regions where a process keeps a lock.
Outside(c) == c.at \notin {"unlink", "fill"} /\ ~ c.freeing

LEMMA OutsideHolds ==
    ASSUME NEW p \in Callers
    PROVE  /\ Outside(syscall[p]) =>
                \A i : ~ Frees(p, i) /\ ~ IsFresh(p, i) /\ ~ LocksInode(p, i)
           /\ Outside(syscall'[p]) =>
                \A i : ~ Frees(p, i)' /\ ~ IsFresh(p, i)' /\ ~ LocksInode(p, i)'
BY DEF Outside, Frees, IsFresh, LocksInode

LEMMA OutsideMoves ==
    ASSUME NEW p \in Callers, HandsInv, Outside(syscall[p]), syscall'[p].at # "fill",
           ~ syscall'[p].freeing,
           Others(p), Touches(p), FindsLinked(p), CountsRefs(p)
    PROVE  Moves(p)
<1>1. \A i : ~ Frees(p, i) /\ ~ IsFresh(p, i)
  BY OutsideHolds
<1>2. \A i : ~ Frees(p, i)' /\ ~ IsFresh(p, i)'
  BY DEF Frees, IsFresh
<1>3. \A q \in Callers \ {p} : \A i \in Inodes : Frees(q, i) => ~ HasRef(p, i)
  BY <1>1 DEF HandsInv, FreesAlone
<1> QED
  BY <1>1, <1>2, <1>3 DEF Moves

LEMMA OutsideStep ==
    ASSUME NEW p \in Callers, TreeInv, Outside(syscall[p]), Outside(syscall'[p]),
           Others(p), Touches(p), FindsLinked(p), CountsRefs(p),
           CopyTypes', CallTypes', dinode' = dinode, entries' = entries, holder' = holder,
           opened' \in [Callers -> Inodes \cup {NoInode}], cwd' \in [Callers -> Inodes],
           ref' = [i \in Inodes |-> ref'[i]],
           syscall'[p].op = "newlink" <=> syscall[p].op = "newlink",
           syscall[p].op = "newlink" => syscall'[p].ip = syscall[p].ip,
           PlaceFits(p)', RemoverAlone'
    PROVE  TreeInv'
<1>1. Moves(p)
  BY OutsideMoves DEF TreeInv, Outside
<1>2. LocksMove(p)
  BY OutsideHolds DEF LocksMove
<1>3. \A i \in Inodes : IsLinkCallTo(p, i)' <=> IsLinkCallTo(p, i)
  BY DEF IsLinkCallTo
<1>4. holder' \in [Inodes -> Callers \cup {Nobody}]
  BY DEF TreeInv, TreeTypes, OtherTypes
<1> QED
  BY <1>1, <1>2, <1>3, <1>4, LookStep

LEMMA PathEnds ==
    ASSUME NEW S, NEW s \in Seq(S), s # <<>>
    PROVE  /\ Head(s) \in S /\ Len(s) \in Nat /\ Len(s) # 0
           /\ Len(s) = 1 => LastOf(s) = Head(s)
           /\ Len(s) # 1 => Tail(s) \in Seq(S) /\ Tail(s) # <<>> /\ LastOf(Tail(s)) = LastOf(s)
<1>1. Len(s) \in Nat /\ Len(s) # 0 /\ Head(s) = s[1] /\ Head(s) \in S
  OBVIOUS
<1>2. ASSUME Len(s) # 1
      PROVE  Tail(s) \in Seq(S) /\ Tail(s) # <<>> /\ Tail(s)[Len(Tail(s))] = s[Len(s)]
  <2>1. Tail(s) \in Seq(S) /\ Len(Tail(s)) = Len(s) - 1
    BY <1>1
  <2>2. Tail(s)[Len(s) - 1] = s[Len(s)]
    <3>1. \A k \in 1 .. Len(Tail(s)) : Tail(s)[k] = s[k + 1]
      BY HeadTailProperties
    <3>2. Len(s) - 1 \in 1 .. Len(Tail(s)) /\ (Len(s) - 1) + 1 = Len(s)
      BY <1>1, <1>2, <2>1
    <3> QED
      BY <3>1, <3>2
  <2>3. Tail(s) # <<>>
    BY <1>1, <1>2, <2>1
  <2> QED
    BY <2>1, <2>2, <2>3
<1> QED
  BY <1>1, <1>2 DEF LastOf

\* A directory a call came to leads to inodes with links.
LEMMA TargetLinked ==
    ASSUME TreeInv, NEW i \in Inodes, NEW n \in PathNames, Live(i), entries[i][n] # NoInode
    PROVE  LET j == entries[i][n]
           IN j \in Inodes /\ dinode[j].nlink > 0 /\ (IsDir(j) => Live(j))
<1>0. NamesFit /\ ParentsFit /\ LinksCounted /\ EntryTypes
  BY DEF TreeInv, NamesInv, TreeTypes
<1>1. CASE n \in Names
  BY <1>0, <1>1, NameLinks DEF Live
<1>2. CASE n = DotDot
  BY <1>0, <1>2 DEF ParentsFit, Live
<1> QED
  BY <1>1, <1>2 DEF PathNames

\* The references of a process by the inodes.
LEMMA InodesAre == NoInode \notin Inodes /\ Root \in Inodes /\ 1 # 0
BY FileTreeAssumption DEF Inodes, NoInode, Root

-----------------------------------------------------------------------------
(* A call begins; it reads inodes and gets and puts references.               *)

LEMMA CallBegins ==
    ASSUME TreeInv, NEW p \in Callers, NEW r \in Requests, Allowed(p, r), BeginCall(p, r)
    PROVE  TreeInv'
<1> DEFINE e == [NoCall EXCEPT !.op = r.op, !.at = "walk", !.path = r.path,
                            !.new = r.new, !.cur = cwd[p]]
<1>0. /\ TreeTypes /\ HandsInv /\ PlacesFit /\ RemoverAlone /\ CallTypes /\ OtherTypes
      /\ CopyTypes
  BY DEF TreeInv, TreeTypes
<1>1. syscall[p] = NoCall
  BY Zenon DEF BeginCall, NotCalling
<1>2. /\ syscall[p].op = "none" /\ syscall[p].at = "end" /\ syscall[p].cur = NoInode
      /\ syscall[p].ip = NoInode /\ syscall[p].puts = <<>> /\ ~ NoCall.freeing
      /\ NoCall.freeing \in BOOLEAN
  BY <1>1, NoCallIs, Zenon
<1>4. Continue(p, e)
  BY Zenon DEF BeginCall
<1>5. cwd[p] \in Inodes
  BY <1>0 DEF OtherTypes
<1>6. e.op = r.op /\ e.at = "walk" /\ e.path = r.path /\ e.new = r.new /\ e.cur = cwd[p]
      /\ e.ip = NoInode /\ e.puts = <<>> /\ e.freeing = NoCall.freeing
      /\ DOMAIN e = CallFields
  BY NoCallIs DEF CallFields
<1> HIDE DEF e
<1>7. IsCall(e)
  <2>1. CallShape(e)
    BY <1>5, <1>6, FileTreeAssumption DEF CallShape, Entering
  <2>2. CallPath(e)
    BY <1>6, FileTreeAssumption DEF CallPath, PathNames, Allowed
  <2> QED
    BY <1>2, <1>6, <2>1, <2>2, PutsAre DEF IsCall
<1>8. CallTypes' /\ syscall'[p] = e /\ \A q \in Callers \ {p} : syscall'[q] = syscall[q]
  BY <1>0, <1>4, <1>7, CallStep
<1>9. /\ dinode' = dinode /\ copy' = copy /\ holder' = holder /\ entries' = entries
      /\ opened' = opened /\ cwd' = cwd /\ ref' = [ref EXCEPT ![cwd[p]] = @ + 1]
  BY DEF BeginCall, Get
<1>10. Others(p) /\ Touches(p)
  BY <1>8, <1>9 DEF Others, Touches
<1>11. FindsLinked(p)
  <2>1. Live(cwd[p])
    BY <1>0 DEF PlacesFit, PlaceFits
  <2> QED
    BY <1>2, <1>6, <1>8, <1>9, <2>1, HandsNow, PutsAre DEF FindsLinked, Live
<1>12. CountsRefs(p)
  <2> SUFFICES ASSUME NEW i \in Inodes
               PROVE  /\ ref'[i] + NumberOf(InHand[p], i) = ref[i] + NumberOf(InHand'[p], i)
                      /\ ref'[i] \in Int /\ ref'[i] >= ref[i]
    BY DEF CountsRefs
  <2>1. /\ NumberOf(InHand[p], i) = One(cwd[p] = i) + One(opened[p] = i)
              + One(NoInode = i) + One(NoInode = i) + One(NoInode = i) + One(NoInode = i)
        /\ NumberOf(InHand'[p], i) = One(cwd[p] = i) + One(opened[p] = i)
              + One(cwd[p] = i) + One(NoInode = i) + One(NoInode = i) + One(NoInode = i)
    BY <1>2, <1>6, <1>8, <1>9, HandsNow, PutsAre
  <2>2. ref'[i] = ref[i] + One(cwd[p] = i) /\ ref[i] \in Nat
    BY <1>0, <1>5, <1>9 DEF OtherTypes, One
  <2>3. One(cwd[p] = i) \in Nat /\ One(opened[p] = i) \in Nat /\ One(NoInode = i) = 0
    BY InodesAre DEF One
  <2> QED
    BY <2>1, <2>2, <2>3
<1>13. PlaceFits(p)'
  <2>1. Live(cwd[p])
    BY <1>0 DEF PlacesFit, PlaceFits
  <2> QED
    BY <1>6, <1>8, <1>9, <2>1, FileTreeAssumption DEF PlaceFits, Live, IsDir
<1>14. RemoverAlone'
  <2> SUFFICES ASSUME NEW q \in Callers, Removes(syscall'[q])
               PROVE  /\ \A s \in Callers \ {q} : syscall'[s].op = "none"
                      /\ \A s \in Callers : cwd'[s] = Root
    BY DEF RemoverAlone
  <2>1. \A s \in Callers : ~ Removes(syscall[s])
    BY DEF Allowed
  <2>2. q = p /\ Removes(e)
    BY <1>8, <2>1
  <2>3. Removes(r)
    BY <1>6, <2>2 DEF Removes
  <2>4. /\ \A s \in Callers : cwd[s] = Root
        /\ \A s \in Callers \ {p} : syscall[s] = NoCall
    BY <2>3 DEF Allowed, DirsUnused, NotCalling
  <2> QED
    BY <1>8, <1>9, <2>2, <2>4 DEF NoCall
<1>15. Outside(syscall[p]) /\ Outside(syscall'[p])
  BY <1>1, <1>2, <1>6, <1>8 DEF Outside
<1>16. CopyTypes' /\ opened' \in [Callers -> Inodes \cup {NoInode}] /\ cwd' \in [Callers -> Inodes]
       /\ ref' = [i \in Inodes |-> ref'[i]]
  BY <1>0, <1>9 DEF CopyTypes, OtherTypes
<1>17. syscall'[p].op # "newlink" /\ syscall[p].op # "newlink"
  BY <1>2, <1>6, <1>8, FileTreeAssumption
<1> QED
  BY <1>8, <1>9, <1>10, <1>11, <1>12, <1>13, <1>14, <1>15, <1>16, <1>17, OutsideStep

LEMMA ReadStep ==
    ASSUME NEW p \in Callers, TreeInv, Outside(syscall[p]), Outside(syscall'[p]),
           NEW i \in Inodes, CanLock(i), JustRead(i), HasRef(p, i),
           Others(p), FindsLinked(p), CountsRefs(p), CallTypes',
           entries' = entries, holder' = holder,
           opened' \in [Callers -> Inodes \cup {NoInode}], cwd' \in [Callers -> Inodes],
           ref' = [j \in Inodes |-> ref'[j]],
           syscall'[p].op = "newlink" <=> syscall[p].op = "newlink",
           syscall[p].op = "newlink" => syscall'[p].ip = syscall[p].ip,
           PlaceFits(p)',
           Removes(syscall'[p]) => Removes(syscall[p]),
           syscall[p].op = "none" => syscall'[p].op = "none",
           cwd'[p] = cwd[p] \/ syscall[p].op = "chdir"
    PROVE  TreeInv'
<1>1. TreeTypes /\ HandsInv /\ RemoverAlone
  BY DEF TreeInv
<1>2. /\ dinode' = dinode /\ CopyTypes' /\ CopyIsDisk(i)'
      /\ \A j \in Inodes \ {i} : copy'[j] = copy[j]
  BY <1>1, JustReadIs
<1>3. Touches(p)
  BY <1>2 DEF Touches
<1>4. RemoverAlone'
  BY <1>1, RemoverStep
<1> QED
  BY <1>2, <1>3, <1>4, OutsideStep

\* What a call knows of its own record.
LEMMA CallIs ==
    ASSUME TreeInv, NEW p \in Callers
    PROVE  /\ IsCall(syscall[p]) /\ syscall[p].puts \in PutLists /\ DOMAIN syscall[p] = CallFields
           /\ CallShape(syscall[p]) /\ CallPath(syscall[p]) /\ syscall[p].freeing \in BOOLEAN
           /\ syscall[p].freeing => syscall[p].puts # <<>>
           /\ syscall[p].at # "end" => Len(syscall[p].puts) <= 1
           /\ PlaceFits(p) /\ cwd[p] \in Inodes /\ opened[p] \in Inodes \cup {NoInode}
           /\ CallTypes /\ OtherTypes
BY DEF TreeInv, TreeTypes, CallTypes, IsCall, OtherTypes, PlacesFit

LEMMA OnesAre ==
    \A i \in Inodes : One(NoInode = i) = 0 /\ \A j : One(j = i) \in Nat
BY InodesAre DEF One

LEMMA SameHands ==
    ASSUME NEW p \in Callers, cwd'[p] = cwd[p], opened'[p] = opened[p],
           syscall'[p].cur = syscall[p].cur, syscall'[p].ip = syscall[p].ip,
           syscall'[p].puts = syscall[p].puts
    PROVE  InHand'[p] = InHand[p] /\ \A i : HasRef(p, i)' <=> HasRef(p, i)
<1>1. InHand'[p] = InHand[p]
  BY HandIs DEF Handles
<1> QED
  BY <1>1 DEF HasRef

HandSum(w, o, c, j) ==
    One(w = j) + One(o = j) + One(c.cur = j) + One(c.ip = j)
    + One(NextPut(c.puts) = j) + One(LastPut(c.puts) = j)

\* A process gets a reference to g, or none.
Gets(p, g) ==
    /\ g # NoInode => g \in Inodes /\ dinode[g].nlink > 0
    /\ ref' = [j \in Inodes |-> ref[j] + One(g = j)]
    /\ \A j \in Inodes : HandSum(cwd'[p], opened'[p], syscall'[p], j)
                         = HandSum(cwd[p], opened[p], syscall[p], j) + One(g = j)

LEMMA SumIs ==
    ASSUME NEW p \in Callers, NEW j
    PROVE  /\ NumberOf(InHand[p], j) = HandSum(cwd[p], opened[p], syscall[p], j)
           /\ NumberOf(InHand'[p], j) = HandSum(cwd'[p], opened'[p], syscall'[p], j)
BY HandsNow, Zenon DEF HandSum

LEMMA HandCounts ==
    ASSUME NEW p \in Callers
    PROVE  \A j \in Inodes : NumberOf(InHand[p], j) \in Nat /\ NumberOf(InHand'[p], j) \in Nat
                        /\ (NumberOf(InHand[p], j) > 0 <=> HasRef(p, j))
                        /\ (NumberOf(InHand'[p], j) > 0 <=> HasRef(p, j)')
<1>1. \A j \in Inodes :
          /\ NumberOf(InHand[p], j) \in Nat
          /\ NumberOf(InHand[p], j) > 0 <=> \E s \in Slots : InHand[p][s] = j
  BY SomeRef
<1>2. \A j \in Inodes :
          /\ NumberOf(InHand'[p], j) \in Nat
          /\ NumberOf(InHand'[p], j) > 0 <=> \E s \in Slots : InHand'[p][s] = j
  BY SomeRef
<1> QED
  BY ONLY <1>1, <1>2 DEF HasRef

LEMMA GetsIs ==
    ASSUME NEW p \in Callers, NEW g, Gets(p, g), OtherTypes
    PROVE  FindsLinked(p) /\ CountsRefs(p) /\ ref' = [j \in Inodes |-> ref'[j]]
<1>0. /\ g # NoInode => g \in Inodes /\ dinode[g].nlink > 0
      /\ ref' = [j \in Inodes |-> ref[j] + One(g = j)]
      /\ \A j \in Inodes : HandSum(cwd'[p], opened'[p], syscall'[p], j)
                           = HandSum(cwd[p], opened[p], syscall[p], j) + One(g = j)
  BY Zenon DEF Gets
<1>1. \A j \in Inodes : NumberOf(InHand'[p], j) = NumberOf(InHand[p], j) + One(g = j)
  <2> TAKE j \in Inodes
  <2>1. NumberOf(InHand[p], j) = HandSum(cwd[p], opened[p], syscall[p], j)
        /\ NumberOf(InHand'[p], j) = HandSum(cwd'[p], opened'[p], syscall'[p], j)
    BY SumIs
  <2>2. HandSum(cwd'[p], opened'[p], syscall'[p], j)
        = HandSum(cwd[p], opened[p], syscall[p], j) + One(g = j)
    BY <1>0
  <2> HIDE DEF HandSum
  <2> QED
    BY <2>1, <2>2
<1>2. \A j \in Inodes : NumberOf(InHand[p], j) \in Nat /\ NumberOf(InHand'[p], j) \in Nat
                        /\ (NumberOf(InHand[p], j) > 0 <=> HasRef(p, j))
                        /\ (NumberOf(InHand'[p], j) > 0 <=> HasRef(p, j)')
  BY HandCounts
<1>3. \A j \in Inodes : One(g = j) \in Nat /\ (g # j => One(g = j) = 0)
                        /\ ref[j] \in Nat /\ ref'[j] = ref[j] + One(g = j)
  BY <1>0 DEF One, OtherTypes
<1>4. FindsLinked(p)
  <2> SUFFICES ASSUME NEW j \in Inodes, HasRef(p, j)', ~ HasRef(p, j)
               PROVE  dinode[j].nlink > 0
    BY DEF FindsLinked
  <2>1. NumberOf(InHand'[p], j) > 0 /\ ~ (NumberOf(InHand[p], j) > 0)
    BY <1>2
  <2>2. g = j
    BY <1>1, <1>2, <1>3, <2>1
  <2>3. g # NoInode
    BY <2>2, InodesAre
  <2> QED
    BY <1>0, <2>2, <2>3
<1>5. CountsRefs(p)
  <2> SUFFICES ASSUME NEW i \in Inodes
               PROVE  /\ ref'[i] + NumberOf(InHand[p], i) = ref[i] + NumberOf(InHand'[p], i)
                      /\ ref'[i] \in Int /\ ref'[i] >= ref[i]
    BY DEF CountsRefs
  <2> QED
    BY <1>1, <1>2, <1>3
<1>6. ref' = [j \in Inodes |-> ref'[j]]
  BY <1>0
<1> QED
  BY <1>4, <1>5, <1>6

LEMMA GetIs ==
    ASSUME NEW g \in Inodes, OtherTypes, Get(g)
    PROVE  ref' = [j \in Inodes |-> ref[j] + One(g = j)]
<1>1. ref' = [ref EXCEPT ![g] = ref[g] + 1] /\ ref = [j \in Inodes |-> ref[j]]
      /\ \A j \in Inodes : ref[j] \in Nat
  BY DEF Get, OtherTypes
<1>2. \A j \in Inodes : One(g = j) = IF j = g THEN 1 ELSE 0
  BY DEF One
<1>3. ref' = [j \in Inodes |-> IF j = g THEN ref[g] + 1 ELSE ref[j]]
  BY <1>1
<1>4. \A j \in Inodes : (IF j = g THEN ref[g] + 1 ELSE ref[j]) = ref[j] + One(g = j)
  BY <1>1, <1>2
<1> QED
  BY <1>3, <1>4

LEMMA GetsNone ==
    ASSUME OtherTypes, ref' = ref
    PROVE  ref' = [j \in Inodes |-> ref[j] + One(NoInode = j)]
BY InodesAre DEF OtherTypes, One

\* A step of a call that looks into an inode and gets at most one reference.
LEMMA GoStep ==
    ASSUME NEW p \in Callers, TreeInv, Outside(syscall[p]),
           NEW e, Outside(e), Continue(p, e), IsCall(e),
           NEW i \in Inodes, CanLock(i), JustRead(i), HasRef(p, i),
           NEW g, Gets(p, g),
           cwd' \in [Callers -> Inodes], \A q \in Callers \ {p} : cwd'[q] = cwd[q],
           opened' \in [Callers -> Inodes \cup {NoInode}],
           \A q \in Callers \ {p} : opened'[q] = opened[q],
           entries' = entries, holder' = holder,
           e.op = "newlink" <=> syscall[p].op = "newlink",
           e.op = "newlink" => e.ip = syscall[p].ip,
           Live(cwd'[p]),
           e.cur # NoInode /\ IsDir(e.cur) => Live(e.cur),
           e.at = "parent" => Live(e.cur),
           e.at = "found" /\ IsDir(e.ip) => Live(e.ip),
           Removes(e) => Removes(syscall[p]),
           syscall[p].op # "none",
           cwd'[p] = cwd[p] \/ syscall[p].op = "chdir"
    PROVE  TreeInv'
<1>0. CallTypes /\ OtherTypes /\ PlaceFits(p) /\ TreeTypes /\ HandsInv
  BY CallIs DEF TreeInv
<1>1. CallTypes' /\ syscall'[p] = e /\ \A q \in Callers \ {p} : syscall'[q] = syscall[q]
  BY <1>0, CallStep
<1>2. Others(p)
  BY <1>1 DEF Others
<1>3. FindsLinked(p) /\ CountsRefs(p) /\ ref' = [j \in Inodes |-> ref'[j]]
  BY <1>0, GetsIs
<1>4. dinode' = dinode
  BY DEF JustRead
<1>5. PlaceFits(p)'
  <2>1. e.at \notin {"unlink", "fill"} /\ (e.op = "newlink" => dinode[e.ip].type = "file")
    BY <1>0 DEF Outside, PlaceFits
  <2>2. Live(cwd[p])'
    BY <1>4 DEF Live, IsDir
  <2> QED
    BY <1>1, <1>4, <2>1, <2>2 DEF PlaceFits, Live, IsDir
<1> QED
  BY <1>1, <1>2, <1>3, <1>5, ReadStep

Returned(s) == [NoCall EXCEPT !.puts = s]

LEMMA ReturnedIs ==
    ASSUME NEW s \in PutLists
    PROVE  /\ IsCall(Returned(s)) /\ Returned(s).op = "none" /\ Returned(s).at = "end"
           /\ Returned(s).cur = NoInode /\ Returned(s).ip = NoInode /\ Returned(s).puts = s
           /\ ~ Returned(s).freeing /\ Outside(Returned(s)) /\ ~ Removes(Returned(s))
<1>2. LET e == [NoCall EXCEPT !.puts = s]
      IN e.op = "none" /\ e.at = "end" /\ e.cur = NoInode /\ e.ip = NoInode
         /\ e.puts = s /\ e.freeing = NoCall.freeing /\ e.path = <<>> /\ e.new = <<>>
         /\ DOMAIN e = CallFields
  BY NoCallIs DEF CallFields
<1> DEFINE e == Returned(s)
<1>3. e.op = "none" /\ e.at = "end" /\ e.cur = NoInode /\ e.ip = NoInode
         /\ e.puts = s /\ e.freeing = NoCall.freeing /\ e.path = <<>> /\ e.new = <<>>
         /\ DOMAIN e = CallFields
  BY <1>2, Zenon DEF Returned
<1> HIDE DEF e
<1>4. IsCall(e)
  BY <1>3, NoCallIs DEF IsCall, CallShape, CallPath
<1>5. Outside(e) /\ ~ Removes(e) /\ ~ e.freeing
  BY <1>3, NoCallIs DEF Outside, Removes
<1> QED
  BY <1>3, <1>4, <1>5, Zenon DEF e

\* A call that looked into an inode returns with the references it has.
LEMMA ReturnStep ==
    ASSUME NEW p \in Callers, TreeInv, Outside(syscall[p]),
           syscall[p].op \notin {"none", "newlink"},
           NEW s \in PutLists, Return(p, s),
           NEW i \in Inodes, CanLock(i), JustRead(i), HasRef(p, i), ref' = ref,
           \A j \in Inodes :
             One(cwd'[p] = j) + One(opened'[p] = j) + One(NextPut(s) = j) + One(LastPut(s) = j)
             = HandSum(cwd[p], opened[p], syscall[p], j),
           cwd' \in [Callers -> Inodes], \A q \in Callers \ {p} : cwd'[q] = cwd[q],
           opened' \in [Callers -> Inodes \cup {NoInode}],
           \A q \in Callers \ {p} : opened'[q] = opened[q],
           entries' = entries, holder' = holder, Live(cwd'[p]),
           cwd'[p] = cwd[p] \/ syscall[p].op = "chdir"
    PROVE  TreeInv'
<1>1. /\ IsCall(Returned(s)) /\ Returned(s).op = "none" /\ Returned(s).at = "end"
      /\ Returned(s).cur = NoInode /\ Returned(s).ip = NoInode /\ Returned(s).puts = s
      /\ Outside(Returned(s)) /\ ~ Removes(Returned(s))
  BY ReturnedIs
<1>2. Continue(p, Returned(s))
  BY Zenon DEF Return, Returned
<1>3. CallTypes /\ OtherTypes
  BY CallIs
<1>4. syscall'[p] = Returned(s)
  BY <1>1, <1>2, <1>3, CallStep
<1>5. Gets(p, NoInode)
  <2>1. ref' = [j \in Inodes |-> ref[j] + One(NoInode = j)]
    BY <1>3, GetsNone
  <2> SUFFICES ASSUME NEW j \in Inodes
               PROVE  HandSum(cwd'[p], opened'[p], syscall'[p], j)
                      = HandSum(cwd[p], opened[p], syscall[p], j) + One(NoInode = j)
    BY <2>1 DEF Gets
  <2>2. HandSum(cwd'[p], opened'[p], syscall'[p], j) =
          One(cwd'[p] = j) + One(opened'[p] = j) + One(NoInode = j) + One(NoInode = j)
          + One(NextPut(s) = j) + One(LastPut(s) = j)
    BY <1>1, <1>4 DEF HandSum
  <2>3. One(NoInode = j) = 0 /\ \A k : One(k = j) \in Nat
    BY OnesAre
  <2>4. One(cwd'[p] = j) + One(opened'[p] = j) + One(NextPut(s) = j) + One(LastPut(s) = j)
             = HandSum(cwd[p], opened[p], syscall[p], j)
    OBVIOUS
  <2>5. /\ One(cwd'[p] = j) \in Nat /\ One(opened'[p] = j) \in Nat
        /\ One(NextPut(s) = j) \in Nat /\ One(LastPut(s) = j) \in Nat
    BY <2>3
  <2> HIDE DEF HandSum
  <2> QED
    BY <2>2, <2>3, <2>4, <2>5
<1> QED
  BY <1>1, <1>2, <1>5, GoStep

-----------------------------------------------------------------------------
(* namex and its outcomes: open, create on a name that exists, chdir, close.  *)

\* What a call in namex has locked.
LEMMA WalkIs ==
    ASSUME TreeInv, NEW p \in Callers, syscall[p].at = "walk", syscall[p].puts = <<>>,
           CanLock(syscall[p].cur), JustRead(syscall[p].cur)
    PROVE  /\ syscall[p].cur \in Inodes /\ ~ syscall[p].freeing
           /\ HasRef(p, syscall[p].cur) /\ Outside(syscall[p])
           /\ dinode' = dinode
           /\ Locked(syscall[p].cur).type = dinode[syscall[p].cur].type
           /\ Live(cwd[p])
           /\ syscall[p].path \in Seq(PathNames) /\ syscall[p].path # <<>>
           /\ Head(syscall[p].path) \in PathNames
           /\ syscall[p].op \in Entering \/ syscall[p].op = "newlink"
           /\ syscall[p].op \in Entering => syscall[p].ip = NoInode
           /\ syscall[p].op = "newlink" => syscall[p].ip \in Inodes
           /\ syscall[p].ip \in Inodes \cup {NoInode}
<1>1. syscall[p].cur \in Inodes /\ ~ syscall[p].freeing
  BY CallIs DEF CallShape
<1>2. Locked(syscall[p].cur).type = dinode[syscall[p].cur].type
  BY <1>1, LockedIs DEF TreeInv
<1>3. syscall[p].path \in Seq(PathNames) /\ syscall[p].path # <<>>
  BY CallIs DEF CallPath
<1>4. HasRef(p, syscall[p].cur)
  BY HandsNow
<1>5. Outside(syscall[p]) /\ dinode' = dinode
  BY <1>1 DEF Outside, JustRead
<1>6. Live(cwd[p])
  BY CallIs DEF PlaceFits
<1>7. /\ syscall[p].op \in Entering \/ syscall[p].op = "newlink"
      /\ syscall[p].op \in Entering => syscall[p].ip = NoInode
      /\ syscall[p].op = "newlink" => syscall[p].ip \in Inodes
  BY CallIs DEF CallShape, Entering
<1> QED
  BY <1>1, <1>2, <1>3, <1>4, <1>5, <1>6, <1>7, PathEnds


LEMMA WalkParent ==
    ASSUME TreeInv, NEW p \in Callers, syscall[p].at = "walk", syscall[p].puts = <<>>,
           CanLock(syscall[p].cur), JustRead(syscall[p].cur),
           Locked(syscall[p].cur).type = "dir", WantsParent(syscall[p]),
           Len(syscall[p].path) = 1,
           Continue(p, [syscall[p] EXCEPT !.at = "parent"]),
           UNCHANGED <<ref, holder, entries, opened, cwd>>
    PROVE  TreeInv'
<1> DEFINE c == syscall[p]
           e == [c EXCEPT !.at = "parent"]
<1>0. /\ IsCall(c) /\ DOMAIN c = CallFields /\ CallPath(c) /\ c.freeing \in BOOLEAN
      /\ PlaceFits(p) /\ cwd[p] \in Inodes /\ opened[p] \in Inodes \cup {NoInode}
      /\ CallTypes /\ OtherTypes /\ CallShape(c)
  BY CallIs
<1>w. /\ c.cur \in Inodes /\ ~ c.freeing /\ HasRef(p, c.cur) /\ Outside(c)
      /\ dinode[c.cur].type = "dir" /\ Live(cwd[p])
      /\ c.op # "none"
  BY WalkIs DEF Entering
<1>1. /\ e.op = c.op /\ e.at = "parent" /\ e.path = c.path /\ e.new = c.new /\ e.cur = c.cur
      /\ e.ip = c.ip /\ e.puts = c.puts /\ e.freeing = c.freeing /\ DOMAIN e = CallFields
  BY <1>0 DEF CallFields
<1>2. Continue(p, e)
  OBVIOUS
<1> HIDE DEF e
<1>3. Live(c.cur)
  BY <1>0, <1>w, InodesAre DEF PlaceFits, IsDir
<1>5. IsCall(e)
  <2>1. CallShape(e)
    BY <1>0, <1>1 DEF CallShape, WantsParent, Entering
  <2>2. CallPath(e)
    BY <1>0, <1>1 DEF CallPath
  <2> QED
    BY <1>0, <1>1, <1>w, <2>1, <2>2, PutsAre DEF IsCall
<1>6. syscall'[p] = e
  BY <1>0, <1>2, <1>5, CallStep
<1>7. Gets(p, NoInode)
  <2>1. ref' = [j \in Inodes |-> ref[j] + One(NoInode = j)]
    BY <1>0, GetsNone
  <2>2. \A j \in Inodes : NumberOf(InHand'[p], j) = NumberOf(InHand[p], j)
                          /\ NumberOf(InHand[p], j) \in Nat
    BY <1>1, <1>6, SameHands, SomeRef
  <2>3. \A j \in Inodes : One(NoInode = j) = 0
    BY OnesAre
  <2>4. \A j \in Inodes :
          HandSum(cwd'[p], opened'[p], syscall'[p], j) = HandSum(cwd[p], opened[p], syscall[p], j)
          /\ HandSum(cwd[p], opened[p], syscall[p], j) \in Nat
    BY ONLY <2>2, SumIs
  <2> HIDE DEF HandSum
  <2>5. \A j \in Inodes : HandSum(cwd'[p], opened'[p], syscall'[p], j)
                      = HandSum(cwd[p], opened[p], syscall[p], j) + One(NoInode = j)
    BY <2>3, <2>4
  <2> QED
    BY <2>1, <2>5 DEF Gets
<1>8. Outside(e) /\ (Removes(e) => Removes(c))
  BY <1>1, <1>w DEF Outside, Removes
<1> QED
  BY <1>0, <1>1, <1>2, <1>3, <1>5, <1>7, <1>8, <1>w, GoStep, Zenon DEF OtherTypes

\* namex comes to the last name ...
LEMMA WalkFound ==
    ASSUME TreeInv, NEW p \in Callers, NEW next, syscall[p].at = "walk", syscall[p].puts = <<>>,
           CanLock(syscall[p].cur), JustRead(syscall[p].cur),
           Locked(syscall[p].cur).type = "dir", ~ WantsParent(syscall[p]),
           next = entries[syscall[p].cur][Head(syscall[p].path)], next # NoInode,
           Continue(p, [syscall[p] EXCEPT !.at = "found", !.ip = next, !.cur = NoInode,
                                          !.path = <<>>, !.puts = <<syscall[p].cur>>]),
           Get(next), UNCHANGED <<holder, entries, opened, cwd>>
    PROVE  TreeInv'
<1> DEFINE c == syscall[p]
           e == [c EXCEPT !.at = "found", !.ip = next, !.cur = NoInode,
                          !.path = <<>>, !.puts = <<c.cur>>]
<1>0. /\ IsCall(c) /\ DOMAIN c = CallFields /\ CallPath(c) /\ c.freeing \in BOOLEAN
      /\ PlaceFits(p) /\ cwd[p] \in Inodes /\ opened[p] \in Inodes \cup {NoInode}
      /\ CallTypes /\ OtherTypes
  BY CallIs
<1>w. /\ c.cur \in Inodes /\ ~ c.freeing /\ HasRef(p, c.cur) /\ Outside(c)
      /\ dinode[c.cur].type = "dir" /\ Live(cwd[p])
      /\ Head(c.path) \in PathNames /\ c.op \in {"open", "chdir", "link"} /\ c.ip = NoInode
  BY WalkIs, Zenon DEF WantsParent, Entering
<1>1. /\ e.op = c.op /\ e.at = "found" /\ e.path = <<>> /\ e.new = c.new /\ e.cur = NoInode
      /\ e.ip = next /\ e.puts = <<c.cur>> /\ e.freeing = c.freeing /\ DOMAIN e = CallFields
  BY <1>0 DEF CallFields
<1>2. Continue(p, e)
  OBVIOUS
<1> HIDE DEF e
<1>3. Live(c.cur)
  BY ONLY <1>0, <1>w, InodesAre, Zenon DEF PlaceFits, IsDir
<1>4. next \in Inodes /\ dinode[next].nlink > 0 /\ (IsDir(next) => Live(next))
  BY <1>3, <1>w, TargetLinked, Zenon
<1>5. IsCall(e)
  <2>1. CallShape(e)
    BY <1>1, <1>4, <1>w, Zenon DEF CallShape
  <2>2. CallPath(e)
    BY ONLY <1>0, <1>1, <1>w, Zenon DEF CallPath
  <2> QED
    BY ONLY <1>0, <1>1, <1>w, <2>1, <2>2, PutsAre DEF IsCall
<1>6. syscall'[p] = e
  BY <1>0, <1>2, <1>5, CallStep
<1>7. Gets(p, next)
  <2>1. ref' = [j \in Inodes |-> ref[j] + One(next = j)]
    BY <1>0, <1>4, GetIs, Zenon
  <2> SUFFICES ASSUME NEW j \in Inodes
               PROVE  HandSum(cwd'[p], opened'[p], syscall'[p], j)
                      = HandSum(cwd[p], opened[p], syscall[p], j) + One(next = j)
    BY <1>4, <2>1, Zenon DEF Gets
  <2>2. /\ HandSum(cwd'[p], opened'[p], syscall'[p], j) =
             One(cwd[p] = j) + One(opened[p] = j) + One(NoInode = j) + One(next = j)
             + One(NoInode = j) + One(c.cur = j)
        /\ HandSum(cwd[p], opened[p], c, j) =
             One(cwd[p] = j) + One(opened[p] = j) + One(c.cur = j) + One(NoInode = j)
             + One(NoInode = j) + One(NoInode = j)
    <3>1. /\ NextPut(<<>>) = NoInode /\ LastPut(<<>>) = NoInode
          /\ NextPut(<<c.cur>>) = NoInode /\ LastPut(<<c.cur>>) = c.cur
      BY <1>w, PutsAre
    <3>2. cwd'[p] = cwd[p] /\ opened'[p] = opened[p] /\ c.puts = <<>>
      OBVIOUS
    <3> QED
      BY ONLY <1>1, <1>6, <1>w, <3>1, <3>2 DEF HandSum
  <2>3. /\ One(cwd[p] = j) \in Nat /\ One(opened[p] = j) \in Nat /\ One(NoInode = j) = 0
        /\ One(c.cur = j) \in Nat /\ One(next = j) \in Nat
    BY ONLY OnesAre
  <2> QED
    BY ONLY <2>2, <2>3
<1>8. Outside(e) /\ ~ Removes(e)
  BY ONLY <1>1, <1>w, Zenon DEF Outside, Removes
<1> QED
  BY <1>0, <1>1, <1>2, <1>4, <1>5, <1>7, <1>8, <1>w, GoStep, Zenon DEF OtherTypes

\* ... or goes on to the next directory.
LEMMA WalkOn ==
    ASSUME TreeInv, NEW p \in Callers, NEW next, syscall[p].at = "walk", syscall[p].puts = <<>>,
           CanLock(syscall[p].cur), JustRead(syscall[p].cur),
           Locked(syscall[p].cur).type = "dir", Len(syscall[p].path) # 1,
           next = entries[syscall[p].cur][Head(syscall[p].path)], next # NoInode,
           Continue(p, [syscall[p] EXCEPT !.path = Tail(@), !.cur = next,
                                          !.puts = <<syscall[p].cur>>]),
           Get(next), UNCHANGED <<holder, entries, opened, cwd>>
    PROVE  TreeInv'
<1> DEFINE c == syscall[p]
           e == [c EXCEPT !.path = Tail(@), !.cur = next, !.puts = <<c.cur>>]
<1>0. /\ IsCall(c) /\ DOMAIN c = CallFields /\ CallPath(c) /\ c.freeing \in BOOLEAN
      /\ PlaceFits(p) /\ cwd[p] \in Inodes /\ opened[p] \in Inodes \cup {NoInode}
      /\ CallTypes /\ OtherTypes /\ CallShape(c)
  BY CallIs, Zenon
<1>w. /\ c.cur \in Inodes /\ ~ c.freeing /\ HasRef(p, c.cur) /\ Outside(c)
      /\ dinode[c.cur].type = "dir" /\ Live(cwd[p])
      /\ Head(c.path) \in PathNames /\ c.path \in Seq(PathNames) /\ c.path # <<>>
      /\ c.ip \in Inodes \cup {NoInode} /\ c.op # "none"
  BY WalkIs, Zenon DEF Entering
<1>1. /\ e.op = c.op /\ e.at = c.at /\ e.path = Tail(c.path) /\ e.new = c.new /\ e.cur = next
      /\ e.ip = c.ip /\ e.puts = <<c.cur>> /\ e.freeing = c.freeing /\ DOMAIN e = CallFields
  BY <1>0 DEF CallFields
<1>2. Continue(p, e)
  OBVIOUS
<1> HIDE DEF e
<1>t. Tail(c.path) \in Seq(PathNames) /\ Tail(c.path) # <<>>
      /\ LastOf(Tail(c.path)) = LastOf(c.path)
  BY <1>w, PathEnds
<1>3. Live(c.cur)
  BY <1>0, <1>w, InodesAre DEF PlaceFits, IsDir
<1>4. next \in Inodes /\ dinode[next].nlink > 0 /\ (IsDir(next) => Live(next))
  BY <1>3, <1>w, TargetLinked, Zenon
<1>5. IsCall(e)
  <2>1. CallShape(e)
    BY <1>0, <1>1, <1>4, Zenon DEF CallShape
  <2>2. CallPath(e)
    BY <1>0, <1>1, <1>t, Zenon DEF CallPath
  <2> QED
    BY ONLY <1>0, <1>1, <1>w, <2>1, <2>2, PutsAre DEF IsCall
<1>6. syscall'[p] = e
  BY <1>0, <1>2, <1>5, CallStep
<1>7. Gets(p, next)
  <2>1. ref' = [j \in Inodes |-> ref[j] + One(next = j)]
    BY <1>0, <1>4, GetIs, Zenon
  <2> SUFFICES ASSUME NEW j \in Inodes
               PROVE  HandSum(cwd'[p], opened'[p], syscall'[p], j)
                      = HandSum(cwd[p], opened[p], syscall[p], j) + One(next = j)
    BY <1>4, <2>1, Zenon DEF Gets
  <2>2. /\ HandSum(cwd'[p], opened'[p], syscall'[p], j) =
             One(cwd[p] = j) + One(opened[p] = j) + One(next = j) + One(c.ip = j)
             + One(NoInode = j) + One(c.cur = j)
        /\ HandSum(cwd[p], opened[p], c, j) =
             One(cwd[p] = j) + One(opened[p] = j) + One(c.cur = j) + One(c.ip = j)
             + One(NoInode = j) + One(NoInode = j)
    <3>1. /\ NextPut(<<>>) = NoInode /\ LastPut(<<>>) = NoInode
          /\ NextPut(<<c.cur>>) = NoInode /\ LastPut(<<c.cur>>) = c.cur
      BY <1>w, PutsAre
    <3>2. cwd'[p] = cwd[p] /\ opened'[p] = opened[p] /\ c.puts = <<>>
      OBVIOUS
    <3> QED
      BY ONLY <1>1, <1>6, <1>w, <3>1, <3>2 DEF HandSum
  <2>3. /\ One(cwd[p] = j) \in Nat /\ One(opened[p] = j) \in Nat /\ One(NoInode = j) = 0
        /\ One(c.cur = j) \in Nat /\ One(next = j) \in Nat /\ One(c.ip = j) \in Nat
    BY ONLY OnesAre
  <2> QED
    BY ONLY <2>2, <2>3
<1>8. Outside(e) /\ (Removes(e) => Removes(c))
  BY ONLY <1>1, <1>t, <1>w DEF Outside, Removes
<1> QED
  BY <1>0, <1>1, <1>2, <1>4, <1>5, <1>7, <1>8, <1>w, GoStep, Zenon DEF OtherTypes

\* A path that leads nowhere.
LEMMA NotFoundStep ==
    ASSUME TreeInv, NEW p \in Callers, syscall[p].at \in {"walk", "parent"},
           syscall[p].puts = <<>>, CanLock(syscall[p].cur), JustRead(syscall[p].cur),
           NotFound(p, syscall[p]), UNCHANGED <<ref, holder, entries, opened, cwd>>
    PROVE  TreeInv'
<1> DEFINE c == syscall[p]
           e == [c EXCEPT !.at = "undo", !.puts = <<c.cur>>, !.cur = NoInode]
<1>0. /\ IsCall(c) /\ DOMAIN c = CallFields /\ CallPath(c) /\ c.freeing \in BOOLEAN
      /\ PlaceFits(p) /\ cwd[p] \in Inodes /\ opened[p] \in Inodes \cup {NoInode}
      /\ CallTypes /\ OtherTypes /\ CallShape(c) /\ (c.freeing => c.puts # <<>>)
  BY CallIs
<1>w. /\ c.cur \in Inodes /\ ~ c.freeing /\ HasRef(p, c.cur) /\ Outside(c)
      /\ Live(cwd[p]) /\ c.op # "none" /\ (c.op # "newlink" => c.ip = NoInode)
      /\ c.op = "newlink" => c.ip \in Inodes
  <2>1. c.cur \in Inodes /\ c.op # "none" /\ (c.op # "newlink" => c.ip = NoInode)
        /\ (c.op = "newlink" => c.ip \in Inodes)
    BY <1>0 DEF CallShape, Entering
  <2>2. HasRef(p, c.cur)
    BY HandsNow
  <2> QED
    BY <1>0, <2>1, <2>2 DEF Outside, PlaceFits
<1>c. NextPut(<<c.cur>>) = NoInode /\ LastPut(<<c.cur>>) = c.cur /\ <<c.cur>> \in PutLists
      /\ NextPut(c.puts) = NoInode /\ LastPut(c.puts) = NoInode
      /\ Len(<<c.cur>>) = 1 /\ <<c.cur>> # <<>>
  BY <1>w, PutsAre
<1>1. CASE c.op = "newlink"
  <2>1. /\ e.op = c.op /\ e.at = "undo" /\ e.path = c.path /\ e.new = c.new /\ e.cur = NoInode
        /\ e.ip = c.ip /\ e.puts = <<c.cur>> /\ e.freeing = c.freeing /\ DOMAIN e = CallFields
    BY <1>0 DEF CallFields
  <2>2. Continue(p, e)
    BY <1>1, Zenon DEF NotFound
  <2> HIDE DEF e
  <2>5. IsCall(e)
    <3>1. CallShape(e)
      BY <1>1, <1>w, <2>1 DEF CallShape
    <3>2. CallPath(e)
      BY <1>0, <1>1, <2>1 DEF CallPath
    <3> QED
      BY <1>0, <1>w, <1>c, <2>1, <3>1, <3>2 DEF IsCall
  <2>6. syscall'[p] = e
    BY <1>0, <2>2, <2>5, CallStep
  <2>7. Gets(p, NoInode)
    <3>1. ref' = [j \in Inodes |-> ref[j] + One(NoInode = j)]
      BY <1>0, GetsNone
    <3> SUFFICES ASSUME NEW j \in Inodes
                 PROVE  HandSum(cwd'[p], opened'[p], syscall'[p], j)
                        = HandSum(cwd[p], opened[p], syscall[p], j) + One(NoInode = j)
      BY <3>1 DEF Gets
    <3>2. /\ HandSum(cwd'[p], opened'[p], syscall'[p], j) =
               One(cwd[p] = j) + One(opened[p] = j) + One(NoInode = j) + One(c.ip = j)
               + One(NoInode = j) + One(c.cur = j)
          /\ HandSum(cwd[p], opened[p], c, j) =
               One(cwd[p] = j) + One(opened[p] = j) + One(c.cur = j) + One(c.ip = j)
               + One(NoInode = j) + One(NoInode = j)
      BY <1>c, <2>1, <2>6 DEF HandSum
    <3>3. /\ One(cwd[p] = j) \in Nat /\ One(opened[p] = j) \in Nat /\ One(NoInode = j) = 0
          /\ One(c.cur = j) \in Nat /\ One(c.ip = j) \in Nat
      BY OnesAre
    <3> QED
      BY <3>2, <3>3
  <2>8. Outside(e) /\ ~ Removes(e)
    BY <1>1, <1>w, <2>1 DEF Outside, Removes
  <2> QED
    BY <1>0, <1>w, <2>1, <2>2, <2>5, <2>7, <2>8, GoStep DEF OtherTypes
<1>2. CASE c.op # "newlink"
  <2>1. Return(p, <<c.cur>>)
    BY <1>2, Zenon DEF NotFound
  <2>2. \A j \in Inodes :
             One(cwd'[p] = j) + One(opened'[p] = j) + One(NextPut(<<c.cur>>) = j)
             + One(LastPut(<<c.cur>>) = j)
             = HandSum(cwd[p], opened[p], c, j)
    <3> TAKE j \in Inodes
    <3>1. HandSum(cwd[p], opened[p], c, j) =
               One(cwd[p] = j) + One(opened[p] = j) + One(c.cur = j) + One(NoInode = j)
               + One(NoInode = j) + One(NoInode = j)
      BY <1>2, <1>c, <1>w DEF HandSum
    <3>2. /\ One(cwd[p] = j) \in Nat /\ One(opened[p] = j) \in Nat /\ One(NoInode = j) = 0
          /\ One(c.cur = j) \in Nat
      BY OnesAre
    <3> QED
      BY <1>c, <3>1, <3>2
  <2> QED
    BY <1>0, <1>2, <1>c, <1>w, <2>1, <2>2, ReturnStep, Zenon DEF OtherTypes
<1> QED
  BY <1>1, <1>2

LEMMA WalkStep ==
    ASSUME TreeInv, NEW p \in Callers, Walk(p)
    PROVE  TreeInv'
<1> DEFINE c == syscall[p]
           next == entries[c.cur][Head(c.path)]
           here == Len(c.path) = 1
<1>1. /\ c.at = "walk" /\ c.puts = <<>> /\ CanLock(c.cur) /\ JustRead(c.cur)
      /\ UNCHANGED <<holder, entries, opened, cwd>>
  BY Zenon DEF Walk
<1>2. CASE /\ Locked(c.cur).type = "dir" /\ WantsParent(c) /\ here
           /\ Continue(p, [c EXCEPT !.at = "parent"])
           /\ UNCHANGED ref
  BY <1>1, <1>2, WalkParent
<1>3. CASE /\ Locked(c.cur).type = "dir" /\ ~ (WantsParent(c) /\ here) /\ next # NoInode
           /\ Continue(p, IF here
                            THEN [c EXCEPT !.at = "found", !.ip = next, !.cur = NoInode,
                                           !.path = <<>>, !.puts = <<c.cur>>]
                            ELSE [c EXCEPT !.path = Tail(@), !.cur = next,
                                           !.puts = <<c.cur>>])
           /\ Get(next)
  <2>1. CASE here
    <3>1. Continue(p, [c EXCEPT !.at = "found", !.ip = next, !.cur = NoInode,
                                !.path = <<>>, !.puts = <<c.cur>>]) /\ ~ WantsParent(c)
      BY <1>3, <2>1, Zenon
    <3> QED
      BY <1>1, <1>3, <3>1, WalkFound, Zenon
  <2>2. CASE ~ here
    <3>1. Continue(p, [c EXCEPT !.path = Tail(@), !.cur = next, !.puts = <<c.cur>>])
      BY <1>3, <2>2, Zenon
    <3> QED
      BY <1>1, <1>3, <2>2, <3>1, WalkOn, Zenon
  <2> QED
    BY <2>1, <2>2
<1>4. CASE NotFound(p, c) /\ UNCHANGED ref
  BY <1>1, <1>4, NotFoundStep
<1> QED
  BY <1>2, <1>3, <1>4, Zenon DEF Walk

\* A call that came to its inode.
LEMMA FoundIs ==
    ASSUME TreeInv, NEW p \in Callers, syscall[p].at \in {"found", "existing"},
           syscall[p].puts = <<>>
    PROVE  LET c == syscall[p]
           IN /\ c.ip \in Inodes /\ c.cur = NoInode /\ ~ c.freeing /\ Outside(c)
              /\ HasRef(p, c.ip) /\ Live(cwd[p]) /\ cwd[p] \in Inodes
              /\ opened[p] \in Inodes \cup {NoInode}
              /\ c.op \in {"open", "chdir", "link", "create", "mkdir"}
              /\ c.at = "found" /\ IsDir(c.ip) => Live(c.ip)
              /\ NextPut(c.puts) = NoInode /\ LastPut(c.puts) = NoInode
              /\ \A j \in Inodes :
                   HandSum(cwd[p], opened[p], c, j) =
                     One(cwd[p] = j) + One(opened[p] = j) + One(c.ip = j)
<1> DEFINE c == syscall[p]
<1>0. /\ (c.freeing => c.puts # <<>>) /\ CallShape(c) /\ PlaceFits(p)
      /\ cwd[p] \in Inodes /\ opened[p] \in Inodes \cup {NoInode}
  BY CallIs
<1>1. c.ip \in Inodes /\ c.cur = NoInode /\ ~ c.freeing
      /\ c.op \in {"open", "chdir", "link", "create", "mkdir"}
  BY <1>0 DEF CallShape
<1>2. HasRef(p, c.ip)
  BY HandsNow
<1>3. Outside(c) /\ Live(cwd[p]) /\ (c.at = "found" /\ IsDir(c.ip) => Live(c.ip))
  BY <1>0, <1>1 DEF Outside, PlaceFits
<1>4. NextPut(c.puts) = NoInode /\ LastPut(c.puts) = NoInode
  BY PutsAre
<1>5. ASSUME NEW j \in Inodes
      PROVE  HandSum(cwd[p], opened[p], c, j) =
                     One(cwd[p] = j) + One(opened[p] = j) + One(c.ip = j)
  <2>1. HandSum(cwd[p], opened[p], c, j) =
             One(cwd[p] = j) + One(opened[p] = j) + One(NoInode = j) + One(c.ip = j)
             + One(NoInode = j) + One(NoInode = j)
    BY <1>1, <1>4 DEF HandSum
  <2>2. One(NoInode = j) = 0 /\ One(cwd[p] = j) \in Nat /\ One(opened[p] = j) \in Nat
        /\ One(c.ip = j) \in Nat
    BY OnesAre
  <2> QED
    BY <2>1, <2>2
<1> QED
  BY <1>0, <1>1, <1>2, <1>3, <1>4, <1>5

\* It ends with the inode in a descriptor, or puts it.
LEMMA OpenedStep ==
    ASSUME TreeInv, NEW p \in Callers, syscall[p].at \in {"found", "existing"},
           syscall[p].puts = <<>>, CanLock(syscall[p].ip), JustRead(syscall[p].ip),
           \/ Opened(p, syscall[p].ip, <<>>)
           \/ UNCHANGED opened /\ Return(p, <<syscall[p].ip>>),
           UNCHANGED <<ref, holder, entries, cwd>>
    PROVE  TreeInv'
<1> DEFINE c == syscall[p]
           i == c.ip
<1>0. OtherTypes
  BY CallIs
<1>1. /\ i \in Inodes /\ Outside(c) /\ HasRef(p, i) /\ Live(cwd[p]) /\ cwd[p] \in Inodes
      /\ opened[p] \in Inodes \cup {NoInode} /\ c.op \notin {"none", "newlink"}
      /\ \A j \in Inodes : HandSum(cwd[p], opened[p], c, j) =
                     One(cwd[p] = j) + One(opened[p] = j) + One(c.ip = j)
  BY FoundIs
<1>2. \A j \in Inodes : One(NoInode = j) = 0 /\ \A k : One(k = j) \in Nat
  BY OnesAre
<1>3. /\ <<>> \in PutLists /\ NextPut(<<>>) = NoInode /\ LastPut(<<>>) = NoInode
      /\ <<i>> \in PutLists /\ NextPut(<<i>>) = NoInode /\ LastPut(<<i>>) = i
      /\ Append(<<>>, i) = <<i>>
  BY <1>1, PutsAre
<1>7. /\ TreeInv /\ Outside(c) /\ c.op \notin {"none", "newlink"} /\ i \in Inodes
      /\ CanLock(i) /\ JustRead(i) /\ HasRef(p, i) /\ ref' = ref
      /\ entries' = entries /\ holder' = holder
  BY <1>1, Zenon
<1> HIDE DEF HandSum
<1>4. CASE opened[p] = NoInode /\ opened' = [opened EXCEPT ![p] = i] /\ Return(p, <<>>)
  <2>1. opened' \in [Callers -> Inodes \cup {NoInode}] /\ opened'[p] = i
        /\ \A q \in Callers \ {p} : opened'[q] = opened[q]
    BY <1>0, <1>1, <1>4 DEF OtherTypes
  <2>2. \A j \in Inodes :
             One(cwd'[p] = j) + One(opened'[p] = j) + One(NextPut(<<>>) = j)
             + One(LastPut(<<>>) = j)
             = HandSum(cwd[p], opened[p], c, j)
    <3> TAKE j \in Inodes
    <3>1. /\ One(cwd[p] = j) \in Nat /\ One(opened[p] = j) \in Nat /\ One(i = j) \in Nat
          /\ One(NoInode = j) = 0
          /\ HandSum(cwd[p], opened[p], c, j) = One(cwd[p] = j) + One(opened[p] = j) + One(i = j)
      BY <1>1, <1>2
    <3>2. One(cwd'[p] = j) = One(cwd[p] = j) /\ One(opened'[p] = j) = One(i = j)
          /\ One(opened[p] = j) = One(NoInode = j)
      BY <1>4, <2>1, Zenon
    <3>3. One(NextPut(<<>>) = j) = One(NoInode = j) /\ One(LastPut(<<>>) = j) = One(NoInode = j)
      BY <1>3, Zenon
    <3> QED
      BY ONLY <3>1, <3>2, <3>3
  <2>3. cwd' \in [Callers -> Inodes] /\ cwd' = cwd /\ Live(cwd'[p])
    BY <1>0, <1>1, Zenon DEF OtherTypes
  <2> QED
    BY ONLY p \in Callers, <1>3, <1>4, <1>7, <2>1, <2>2, <2>3, ReturnStep
<1>5. CASE UNCHANGED opened /\ Return(p, <<i>>)
  <2>2. \A j \in Inodes :
             One(cwd'[p] = j) + One(opened'[p] = j) + One(NextPut(<<i>>) = j)
             + One(LastPut(<<i>>) = j)
             = HandSum(cwd[p], opened[p], c, j)
    <3> TAKE j \in Inodes
    <3>1. /\ One(cwd[p] = j) \in Nat /\ One(opened[p] = j) \in Nat /\ One(i = j) \in Nat
          /\ One(NoInode = j) = 0
          /\ HandSum(cwd[p], opened[p], c, j) = One(cwd[p] = j) + One(opened[p] = j) + One(i = j)
      BY <1>1, <1>2
    <3>2. cwd'[p] = cwd[p] /\ opened'[p] = opened[p]
      BY <1>5
    <3>3. One(NextPut(<<i>>) = j) = One(NoInode = j) /\ One(LastPut(<<i>>) = j) = One(i = j)
      BY <1>3, Zenon
    <3>4. One(cwd'[p] = j) = One(cwd[p] = j) /\ One(opened'[p] = j) = One(opened[p] = j)
      BY <3>2, Zenon
    <3> QED
      BY ONLY <3>1, <3>3, <3>4
  <2>3. /\ cwd' \in [Callers -> Inodes] /\ cwd' = cwd /\ Live(cwd'[p])
        /\ opened' \in [Callers -> Inodes \cup {NoInode}] /\ opened' = opened
    BY <1>0, <1>1, <1>5, Zenon DEF OtherTypes
  <2> QED
    BY ONLY p \in Callers, <1>3, <1>5, <1>7, <2>2, <2>3, ReturnStep
<1> QED
  BY <1>3, <1>4, <1>5 DEF Opened

LEMMA OpenFoundStep ==
    ASSUME TreeInv, NEW p \in Callers, OpenFound(p)
    PROVE  TreeInv'
BY OpenedStep, Zenon DEF OpenFound, Reached, CanLock

LEMMA ExistingStep ==
    ASSUME TreeInv, NEW p \in Callers, CreateExisting(p)
    PROVE  TreeInv'
BY OpenedStep, Zenon DEF CreateExisting, Reached

LEMMA ChdirStep ==
    ASSUME TreeInv, NEW p \in Callers, ChdirFound(p)
    PROVE  TreeInv'
<1> DEFINE c == syscall[p]
           i == c.ip
<1>0. OtherTypes /\ TreeTypes /\ HandsInv
  BY CallIs DEF TreeInv
<1>c. /\ c.op = "chdir" /\ c.at = "found" /\ c.puts = <<>> /\ CanLock(i) /\ JustRead(i)
      /\ UNCHANGED <<ref, holder, entries, opened>>
  BY DEF ChdirFound, Reached
<1>1. /\ i \in Inodes /\ Outside(c) /\ HasRef(p, i) /\ Live(cwd[p]) /\ cwd[p] \in Inodes
      /\ opened[p] \in Inodes \cup {NoInode} /\ (IsDir(i) => Live(i))
      /\ \A j \in Inodes : HandSum(cwd[p], opened[p], c, j) =
                     One(cwd[p] = j) + One(opened[p] = j) + One(c.ip = j)
  BY <1>c, FoundIs
<1>2. \A j \in Inodes : One(NoInode = j) = 0 /\ \A k : One(k = j) \in Nat
  BY OnesAre
<1>d. dinode' = dinode /\ Locked(i).type = dinode[i].type
  BY <1>0, <1>1, <1>c, LockedIs DEF JustRead
<1> HIDE DEF HandSum
<1>7. /\ TreeInv /\ Outside(c) /\ c.op \notin {"none", "newlink"} /\ i \in Inodes
      /\ CanLock(i) /\ JustRead(i) /\ HasRef(p, i) /\ ref' = ref
      /\ entries' = entries /\ holder' = holder /\ c.op = "chdir"
      /\ opened' \in [Callers -> Inodes \cup {NoInode}] /\ opened' = opened
  BY <1>0, <1>1, <1>c, Zenon DEF OtherTypes
<1>4. CASE Locked(i).type = "dir" /\ cwd' = [cwd EXCEPT ![p] = i] /\ Return(p, <<cwd[p]>>)
  <2>1. cwd' \in [Callers -> Inodes] /\ cwd'[p] = i
        /\ \A q \in Callers \ {p} : cwd'[q] = cwd[q]
    BY <1>0, <1>1, <1>4 DEF OtherTypes
  <2>2. /\ <<cwd[p]>> \in PutLists /\ NextPut(<<cwd[p]>>) = NoInode
        /\ LastPut(<<cwd[p]>>) = cwd[p]
    BY <1>1, PutsAre
  <2>3. \A j \in Inodes :
             One(cwd'[p] = j) + One(opened'[p] = j) + One(NextPut(<<cwd[p]>>) = j)
             + One(LastPut(<<cwd[p]>>) = j)
             = HandSum(cwd[p], opened[p], c, j)
    <3> TAKE j \in Inodes
    <3>1. /\ One(cwd[p] = j) \in Nat /\ One(opened[p] = j) \in Nat /\ One(i = j) \in Nat
          /\ One(NoInode = j) = 0
          /\ HandSum(cwd[p], opened[p], c, j) = One(cwd[p] = j) + One(opened[p] = j) + One(i = j)
      BY <1>1, <1>2
    <3>2. One(cwd'[p] = j) = One(i = j) /\ One(opened'[p] = j) = One(opened[p] = j)
      BY <1>c, <2>1, Zenon
    <3>3. One(NextPut(<<cwd[p]>>) = j) = One(NoInode = j)
          /\ One(LastPut(<<cwd[p]>>) = j) = One(cwd[p] = j)
      BY <2>2, Zenon
    <3> QED
      BY ONLY <3>1, <3>2, <3>3
  <2>4. Live(cwd'[p])
    BY <1>1, <1>4, <1>d, <2>1 DEF IsDir
  <2> QED
    BY ONLY p \in Callers, <1>4, <1>7, <2>1, <2>2, <2>3, <2>4, ReturnStep
<1>5. CASE UNCHANGED cwd /\ Return(p, <<i>>)
  <2>1. <<i>> \in PutLists /\ NextPut(<<i>>) = NoInode /\ LastPut(<<i>>) = i
    BY <1>1, PutsAre
  <2>2. \A j \in Inodes :
             One(cwd'[p] = j) + One(opened'[p] = j) + One(NextPut(<<i>>) = j)
             + One(LastPut(<<i>>) = j)
             = HandSum(cwd[p], opened[p], c, j)
    <3> TAKE j \in Inodes
    <3>1. /\ One(cwd[p] = j) \in Nat /\ One(opened[p] = j) \in Nat /\ One(i = j) \in Nat
          /\ One(NoInode = j) = 0
          /\ HandSum(cwd[p], opened[p], c, j) = One(cwd[p] = j) + One(opened[p] = j) + One(i = j)
      BY <1>1, <1>2
    <3>2. One(cwd'[p] = j) = One(cwd[p] = j) /\ One(opened'[p] = j) = One(opened[p] = j)
      BY <1>5, <1>c, Zenon
    <3>3. One(NextPut(<<i>>) = j) = One(NoInode = j) /\ One(LastPut(<<i>>) = j) = One(i = j)
      BY <2>1, Zenon
    <3> QED
      BY ONLY <3>1, <3>2, <3>3
  <2>3. cwd' \in [Callers -> Inodes] /\ cwd' = cwd /\ Live(cwd'[p])
    BY <1>0, <1>1, <1>5, Zenon DEF OtherTypes
  <2> QED
    BY ONLY p \in Callers, <1>5, <1>7, <2>1, <2>2, <2>3, ReturnStep
<1> QED
  BY <1>4, <1>5 DEF ChdirFound

LEMMA CloseStep ==
    ASSUME TreeInv, NEW p \in Callers, Close(p)
    PROVE  TreeInv'
<1> DEFINE c == syscall[p]
           o == opened[p]
           s == <<o>>
<1>0. CallTypes /\ OtherTypes /\ PlaceFits(p) /\ CopyTypes /\ o \in Inodes \cup {NoInode}
      /\ RemoverAlone
  BY CallIs DEF TreeInv, TreeTypes
<1>1. c = NoCall
  BY Zenon DEF Close, NotCalling
<1>2. /\ c.op = "none" /\ c.at = "end" /\ c.cur = NoInode /\ c.ip = NoInode /\ c.puts = <<>>
      /\ Outside(c) /\ ~ Removes(c)
  <2>1. NoCall.op = "none" /\ NoCall.at = "end" /\ NoCall.cur = NoInode /\ NoCall.ip = NoInode
        /\ NoCall.puts = <<>> /\ Outside(NoCall) /\ ~ Removes(NoCall)
    BY NoCallIs DEF Outside, Removes
  <2> QED
    BY <1>1, <2>1, Zenon
<1>3. /\ o # NoInode /\ opened' = [opened EXCEPT ![p] = NoInode] /\ Return(p, s)
      /\ dinode' = dinode /\ copy' = copy /\ ref' = ref /\ holder' = holder
      /\ entries' = entries /\ cwd' = cwd
  BY DEF Close
<1>4. /\ s \in PutLists /\ NextPut(s) = NoInode /\ LastPut(s) = o
      /\ NextPut(<<>>) = NoInode /\ LastPut(<<>>) = NoInode
  BY <1>0, <1>3, PutsAre
<1> HIDE DEF s
<1>5. /\ Continue(p, Returned(s)) /\ IsCall(Returned(s))
      /\ Returned(s).op = "none" /\ Returned(s).at = "end"
      /\ Returned(s).cur = NoInode /\ Returned(s).ip = NoInode /\ Returned(s).puts = s
      /\ Outside(Returned(s)) /\ ~ Removes(Returned(s))
  <2>1. Continue(p, Returned(s))
    BY <1>3, Zenon DEF Return, Returned
  <2> QED
    BY <1>4, <2>1, ReturnedIs
<1>6. CallTypes' /\ syscall'[p] = Returned(s) /\ \A q \in Callers \ {p} : syscall'[q] = syscall[q]
  BY <1>0, <1>5, CallStep
<1>7. /\ opened' \in [Callers -> Inodes \cup {NoInode}] /\ opened'[p] = NoInode
      /\ \A q \in Callers \ {p} : opened'[q] = opened[q]
  BY <1>0, <1>3 DEF OtherTypes
<1>8. Others(p) /\ Touches(p)
  BY <1>3, <1>6, <1>7 DEF Others, Touches
<1>9. Gets(p, NoInode)
  <2>1. ref' = [j \in Inodes |-> ref[j] + One(NoInode = j)]
    BY <1>0, <1>3, GetsNone
  <2> SUFFICES ASSUME NEW j \in Inodes
               PROVE  HandSum(cwd'[p], opened'[p], syscall'[p], j)
                      = HandSum(cwd[p], opened[p], syscall[p], j) + One(NoInode = j)
    BY <2>1 DEF Gets
  <2>2. /\ HandSum(cwd'[p], opened'[p], syscall'[p], j) =
             One(cwd[p] = j) + One(NoInode = j) + One(NoInode = j) + One(NoInode = j)
             + One(NoInode = j) + One(o = j)
        /\ HandSum(cwd[p], opened[p], c, j) =
             One(cwd[p] = j) + One(o = j) + One(NoInode = j) + One(NoInode = j)
             + One(NoInode = j) + One(NoInode = j)
    BY <1>2, <1>3, <1>4, <1>5, <1>6, <1>7 DEF HandSum
  <2>3. One(cwd[p] = j) \in Nat /\ One(o = j) \in Nat /\ One(NoInode = j) = 0
    BY OnesAre
  <2> QED
    BY <2>2, <2>3
<1>10. FindsLinked(p) /\ CountsRefs(p) /\ ref' = [j \in Inodes |-> ref'[j]]
  BY <1>0, <1>9, GetsIs
<1>11. PlaceFits(p)'
  BY <1>0, <1>3, <1>5, <1>6 DEF PlaceFits, Live, IsDir
<1>12. RemoverAlone'
  BY <1>0, <1>2, <1>3, <1>5, <1>6, <1>8, RemoverStep
<1>13. CopyTypes' /\ cwd' \in [Callers -> Inodes]
  BY <1>0, <1>3 DEF CopyTypes, OtherTypes
<1> QED
  BY <1>2, <1>3, <1>5, <1>6, <1>7, <1>8, <1>10, <1>11, <1>12, <1>13, OutsideStep

-----------------------------------------------------------------------------
(* The calls that have found the parent: create looks the name up, unlink     *)
(* keeps the directory locked.                                                *)

\* A call that came to the parent of what it is about.
LEMMA ParentIs ==
    ASSUME TreeInv, NEW p \in Callers, syscall[p].at = "parent"
    PROVE  LET c == syscall[p]
           IN /\ c.cur \in Inodes /\ ~ c.freeing /\ Outside(c) /\ c.puts = <<>>
              /\ HasRef(p, c.cur) /\ Live(cwd[p]) /\ cwd[p] \in Inodes /\ Live(c.cur)
              /\ opened[p] \in Inodes \cup {NoInode}
              /\ c.op \in {"create", "mkdir", "unlink", "newlink"}
              /\ c.op # "newlink" => c.ip = NoInode
              /\ c.op = "newlink" => c.ip \in Inodes /\ dinode[c.ip].type = "file"
              /\ NextPut(c.puts) = NoInode /\ LastPut(c.puts) = NoInode
              /\ c.path \in Seq(PathNames) /\ c.path # <<>> /\ Len(c.path) = 1
              /\ Head(c.path) \in PathNames /\ LastOf(c.path) = Head(c.path)
              /\ c.op = "mkdir" => Head(c.path) \in DirNames
              /\ c.op \in {"create", "newlink"} => Head(c.path) \in FileNames
<1> DEFINE c == syscall[p]
<1>0. /\ (c.freeing => c.puts # <<>>) /\ CallShape(c) /\ PlaceFits(p) /\ CallPath(c)
      /\ cwd[p] \in Inodes /\ opened[p] \in Inodes \cup {NoInode}
  BY CallIs
<1>1. /\ c.cur \in Inodes /\ c.puts = <<>> /\ ~ c.freeing
      /\ c.op \in {"create", "mkdir", "unlink", "newlink"}
      /\ c.op # "newlink" => c.ip = NoInode
      /\ c.op = "newlink" => c.ip \in Inodes
  BY <1>0 DEF CallShape
<1>2. HasRef(p, c.cur)
  BY HandsNow
<1>3. Outside(c) /\ Live(cwd[p]) /\ Live(c.cur) /\ (c.op = "newlink" => dinode[c.ip].type = "file")
  BY <1>0, <1>1 DEF Outside, PlaceFits
<1>4. NextPut(c.puts) = NoInode /\ LastPut(c.puts) = NoInode
  BY <1>1, PutsAre
<1>5. /\ c.path \in Seq(PathNames) /\ c.path # <<>> /\ Len(c.path) = 1
      /\ c.op = "mkdir" => LastOf(c.path) \in DirNames
      /\ c.op \in {"create", "newlink"} => LastOf(c.path) \in FileNames
  BY <1>0 DEF CallPath
<1>6. Head(c.path) \in PathNames /\ LastOf(c.path) = Head(c.path)
  BY <1>5, PathEnds
<1> HIDE DEF c
<1>7. /\ c.op = "mkdir" => Head(c.path) \in DirNames
      /\ c.op \in {"create", "newlink"} => Head(c.path) \in FileNames
  BY <1>5, <1>6
<1> QED
  BY <1>0, <1>1, <1>2, <1>3, <1>4, <1>5, <1>6, <1>7 DEF c

\* create finds the name.
LEMMA LookFound ==
    ASSUME TreeInv, NEW p \in Callers, NEW old, syscall[p].at = "parent",
           syscall[p].op \in {"create", "mkdir"},
           CanLock(syscall[p].cur), JustRead(syscall[p].cur),
           old = entries[syscall[p].cur][Head(syscall[p].path)], old # NoInode,
           Continue(p, [syscall[p] EXCEPT !.at = "existing", !.ip = old, !.cur = NoInode,
                                          !.puts = <<syscall[p].cur>>]),
           Get(old), UNCHANGED <<holder, entries, opened, cwd>>
    PROVE  TreeInv'
<1> DEFINE c == syscall[p]
           e == [c EXCEPT !.at = "existing", !.ip = old, !.cur = NoInode, !.puts = <<c.cur>>]
<1>0. /\ IsCall(c) /\ DOMAIN c = CallFields /\ c.freeing \in BOOLEAN
      /\ CallTypes /\ OtherTypes
  BY CallIs, Zenon
<1>w. /\ c.cur \in Inodes /\ ~ c.freeing /\ HasRef(p, c.cur) /\ Outside(c) /\ c.puts = <<>>
      /\ Live(cwd[p]) /\ Live(c.cur) /\ c.ip = NoInode /\ Head(c.path) \in PathNames
  BY ParentIs, Zenon
<1>1. /\ e.op = c.op /\ e.at = "existing" /\ e.path = c.path /\ e.new = c.new /\ e.cur = NoInode
      /\ e.ip = old /\ e.puts = <<c.cur>> /\ e.freeing = c.freeing /\ DOMAIN e = CallFields
  BY ONLY <1>0 DEF CallFields
<1>2. Continue(p, e)
  OBVIOUS
<1> HIDE DEF e
<1>4. old \in Inodes /\ dinode[old].nlink > 0 /\ (IsDir(old) => Live(old))
  BY <1>w, TargetLinked, Zenon
<1>5. IsCall(e)
  <2>1. CallShape(e)
    BY <1>1, <1>4, Zenon DEF CallShape
  <2>2. CallPath(e)
    BY <1>1, Zenon DEF CallPath
  <2> QED
    BY ONLY <1>0, <1>1, <1>w, <2>1, <2>2, PutsAre DEF IsCall
<1>6. syscall'[p] = e
  BY <1>0, <1>2, <1>5, CallStep, Zenon
<1>7. Gets(p, old)
  <2>1. ref' = [j \in Inodes |-> ref[j] + One(old = j)]
    BY <1>0, <1>4, GetIs, Zenon
  <2> SUFFICES ASSUME NEW j \in Inodes
               PROVE  HandSum(cwd'[p], opened'[p], syscall'[p], j)
                      = HandSum(cwd[p], opened[p], syscall[p], j) + One(old = j)
    BY <1>4, <2>1, Zenon DEF Gets
  <2>2. /\ HandSum(cwd'[p], opened'[p], syscall'[p], j) =
             One(cwd[p] = j) + One(opened[p] = j) + One(NoInode = j) + One(old = j)
             + One(NoInode = j) + One(c.cur = j)
        /\ HandSum(cwd[p], opened[p], c, j) =
             One(cwd[p] = j) + One(opened[p] = j) + One(c.cur = j) + One(NoInode = j)
             + One(NoInode = j) + One(NoInode = j)
    <3>1. /\ NextPut(<<>>) = NoInode /\ LastPut(<<>>) = NoInode
          /\ NextPut(<<c.cur>>) = NoInode /\ LastPut(<<c.cur>>) = c.cur
      BY <1>w, PutsAre
    <3>2. cwd'[p] = cwd[p] /\ opened'[p] = opened[p]
      OBVIOUS
    <3> QED
      BY ONLY <1>1, <1>6, <1>w, <3>1, <3>2 DEF HandSum
  <2>3. /\ One(cwd[p] = j) \in Nat /\ One(opened[p] = j) \in Nat /\ One(NoInode = j) = 0
        /\ One(c.cur = j) \in Nat /\ One(old = j) \in Nat
    BY ONLY OnesAre
  <2> QED
    BY ONLY <2>2, <2>3
<1>8. Outside(e) /\ ~ Removes(e)
  BY <1>1, <1>w, Zenon DEF Outside, Removes
<1> QED
  BY <1>0, <1>1, <1>2, <1>4, <1>5, <1>7, <1>8, <1>w, GoStep, Zenon DEF OtherTypes

LEMMA ReadTouches ==
    ASSUME NEW p \in Callers, NEW i \in Inodes, TreeTypes, HandsInv, CanLock(i), JustRead(i),
           HasRef(p, i)
    PROVE  dinode' = dinode /\ CopyTypes' /\ Touches(p) /\ copy'[i].valid
<1>1. /\ dinode' = dinode /\ CopyTypes' /\ CopyIsDisk(i)'
      /\ \A j \in Inodes \ {i} : copy'[j] = copy[j]
  BY JustReadIs
<1>2. Touches(p)
  BY <1>1 DEF Touches
<1>3. copy'[i].valid
  BY <1>1 DEF CopyIsDisk
<1> QED
  BY <1>1, <1>2, <1>3

LEMMA UnlinkFindStep ==
    ASSUME TreeInv, NEW p \in Callers, UnlinkFind(p)
    PROVE  TreeInv'
<1> DEFINE c == syscall[p]
           i == entries[c.cur][Head(c.path)]
           e == [c EXCEPT !.at = "unlink", !.ip = i]
<1>0. /\ IsCall(c) /\ DOMAIN c = CallFields /\ c.freeing \in BOOLEAN /\ CallPath(c)
      /\ CallTypes /\ OtherTypes /\ TreeTypes /\ HandsInv /\ RemoverAlone
  BY CallIs DEF TreeInv
<1>c. /\ c.op = "unlink" /\ c.at = "parent" /\ c.puts = <<>> /\ CanLock(c.cur)
      /\ JustRead(c.cur) /\ entries' = entries /\ opened' = opened /\ cwd' = cwd
  BY DEF UnlinkFind, Reached
<1>w. /\ c.cur \in Inodes /\ ~ c.freeing /\ HasRef(p, c.cur) /\ Outside(c)
      /\ Live(cwd[p]) /\ Live(c.cur) /\ c.ip = NoInode /\ Head(c.path) \in PathNames
      /\ LastOf(c.path) = Head(c.path) /\ Len(c.path) = 1
      /\ NextPut(c.puts) = NoInode /\ LastPut(c.puts) = NoInode
  BY <1>c, ParentIs
<1>2. CASE Return(p, <<c.cur>>) /\ UNCHANGED <<ref, holder>>
  <2>1. NotFound(p, c)
    BY <1>2, <1>c, Zenon DEF NotFound
  <2> QED
    BY <1>2, <1>c, <2>1, NotFoundStep
<1>3. CASE /\ Head(c.path) # DotDot /\ i # NoInode /\ Get(i)
           /\ holder' = [holder EXCEPT ![c.cur] = p] /\ Continue(p, e)
  <2>1. /\ e.op = c.op /\ e.at = "unlink" /\ e.path = c.path /\ e.new = c.new /\ e.cur = c.cur
        /\ e.ip = i /\ e.puts = c.puts /\ e.freeing = c.freeing /\ DOMAIN e = CallFields
    BY <1>0 DEF CallFields
  <2>2. Continue(p, e)
    BY <1>3, Zenon
  <2>3. i \in Inodes /\ dinode[i].nlink > 0
    BY <1>3, <1>w, TargetLinked, Zenon
  <2>i. entries[c.cur][Head(c.path)] = i
    OBVIOUS
  <2> HIDE DEF e, i
  <2>5. IsCall(e)
    <3>1. CallShape(e)
      BY <1>c, <1>w, <2>1, <2>3 DEF CallShape
    <3>2. CallPath(e)
      BY <1>0, <1>3, <1>c, <1>w, <2>1 DEF CallPath
    <3> QED
      BY <1>0, <1>c, <1>w, <2>1, <3>1, <3>2 DEF IsCall
  <2>6. CallTypes' /\ syscall'[p] = e /\ \A q \in Callers \ {p} : syscall'[q] = syscall[q]
    BY <1>0, <2>2, <2>5, CallStep
  <2>7. Others(p)
    BY <1>c, <2>6 DEF Others
  <2>8. Gets(p, i)
    <3>1. ref' = [j \in Inodes |-> ref[j] + One(i = j)]
      BY <1>0, <1>3, <2>3, GetIs
    <3> SUFFICES ASSUME NEW j \in Inodes
                 PROVE  HandSum(cwd'[p], opened'[p], syscall'[p], j)
                        = HandSum(cwd[p], opened[p], syscall[p], j) + One(i = j)
      BY <2>3, <3>1 DEF Gets
    <3>2. /\ HandSum(cwd'[p], opened'[p], syscall'[p], j) =
               One(cwd[p] = j) + One(opened[p] = j) + One(c.cur = j) + One(i = j)
               + One(NoInode = j) + One(NoInode = j)
          /\ HandSum(cwd[p], opened[p], c, j) =
               One(cwd[p] = j) + One(opened[p] = j) + One(c.cur = j) + One(NoInode = j)
               + One(NoInode = j) + One(NoInode = j)
      BY <1>c, <1>w, <2>1, <2>6 DEF HandSum
    <3>3. /\ One(cwd[p] = j) \in Nat /\ One(opened[p] = j) \in Nat /\ One(NoInode = j) = 0
          /\ One(c.cur = j) \in Nat /\ One(i = j) \in Nat
      BY OnesAre
    <3> QED
      BY <3>2, <3>3
  <2>9. FindsLinked(p) /\ CountsRefs(p) /\ ref' = [j \in Inodes |-> ref'[j]]
    BY <1>0, <2>8, GetsIs
  <2>10. dinode' = dinode /\ CopyTypes' /\ Touches(p) /\ copy'[c.cur].valid
    BY <1>0, <1>c, <1>w, ReadTouches
  <2>12. Moves(p)
    BY <1>0, <1>w, <2>1, <2>6, <2>7, <2>9, <2>10, OutsideMoves
  <2>13. LocksMove(p)
    <3>1. \A j : ~ LocksInode(p, j)
      BY <1>w, OutsideHolds
    <3>2. \A j : LocksInode(p, j)' <=> j = c.cur
      BY <1>w, <2>1, <2>6 DEF LocksInode, Frees
    <3>3. holder' = [holder EXCEPT ![c.cur] = p] /\ holder[c.cur] = Nobody
          /\ holder \in [Inodes -> Callers \cup {Nobody}]
      BY <1>0, <1>3, <1>c DEF CanLock, OtherTypes
    <3>4. \A j \in Inodes : holder'[j] = IF j = c.cur THEN p ELSE holder[j]
      BY <3>3
    <3> HIDE DEF LocksInode
    <3> QED
      BY <3>1, <3>2, <3>3, <3>4 DEF LocksMove
  <2>14. holder' \in [Inodes -> Callers \cup {Nobody}]
    BY <1>0, <1>3 DEF OtherTypes
  <2>16. PlaceFits(p)'
    <3> HIDE DEF c
    <3> QED
      BY <1>c, <1>w, <2>1, <2>6, <2>10, <2>i DEF PlaceFits, Live, IsDir
  <2>17. RemoverAlone'
    <3>1. (Removes(syscall'[p]) => Removes(c)) /\ c.op # "none"
      BY <1>c, <2>1, <2>6 DEF Removes
    <3> QED
      BY <1>0, <1>c, <2>7, <3>1, RemoverStep
  <2>18. \A j \in Inodes : IsLinkCallTo(p, j)' <=> IsLinkCallTo(p, j)
    BY <1>c, <2>1, <2>6 DEF IsLinkCallTo
  <2> QED
    BY <1>0, <1>c, <2>6, <2>9, <2>10, <2>12, <2>13, <2>14, <2>16, <2>17, <2>18, LookStep
       DEF OtherTypes
<1> QED
  BY <1>2, <1>3, Zenon DEF UnlinkFind, Name

-----------------------------------------------------------------------------
(* Inodes on disk and names change: link and its undoing.                     *)
IsCopy(x) == \E t \in InodeTypes, n \in Nat : x = [valid |-> TRUE, type |-> t, nlink |-> n]

LEMMA CopyFields ==
    ASSUME NEW x, IsCopy(x)
    PROVE  /\ x.valid /\ x.type \in InodeTypes /\ x.nlink \in Nat
           /\ x = [valid |-> TRUE, type |-> x.type, nlink |-> x.nlink]
           /\ x \in [valid : BOOLEAN, type : InodeTypes, nlink : Nat]
<1>1. PICK t \in InodeTypes, n \in Nat : x = [valid |-> TRUE, type |-> t, nlink |-> n]
  BY DEF IsCopy
<1>2. x.valid
  BY <1>1
<1>3. x.type = t /\ x.nlink = n
  BY <1>1
<1>4. x = [valid |-> TRUE, type |-> x.type, nlink |-> x.nlink]
  BY <1>1, <1>3, Zenon
<1>5. x \in [valid : BOOLEAN, type : InodeTypes, nlink : Nat]
  BY <1>1
<1> QED
  BY <1>1, <1>2, <1>3, <1>4, <1>5

LEMMA WithLinksIs ==
    ASSUME NEW x, IsCopy(x), NEW n \in Nat
    PROVE  IsCopy(WithLinks(x, n)) /\ WithLinks(x, n).type = x.type /\ WithLinks(x, n).nlink = n
<1>1. PICK t \in InodeTypes, m \in Nat : x = [valid |-> TRUE, type |-> t, nlink |-> m]
  BY DEF IsCopy
<1>2. \A b : [[valid |-> b, type |-> t, nlink |-> m] EXCEPT !.nlink = n]
             = [valid |-> b, type |-> t, nlink |-> n]
  OBVIOUS
<1>3. WithLinks(x, n) = [valid |-> TRUE, type |-> t, nlink |-> n]
  BY <1>1, <1>2, Zenon DEF WithLinks
<1>4. IsCopy(WithLinks(x, n))
  BY <1>3, Zenon DEF IsCopy
<1>5. x.type = t
  BY <1>1
<1>6. WithLinks(x, n).type = t /\ WithLinks(x, n).nlink = n
  BY <1>3
<1> QED
  BY <1>4, <1>5, <1>6

LEMMA LockedCopy ==
    ASSUME NEW i \in Inodes, TreeTypes, HandsInv, CanLock(i)
    PROVE  /\ IsCopy(Locked(i)) /\ Locked(i).type = dinode[i].type
           /\ Locked(i).nlink = dinode[i].nlink
<1>1. Locked(i) = [valid |-> TRUE, type |-> dinode[i].type, nlink |-> dinode[i].nlink]
  BY LockedIs
<1>2. dinode[i].type \in InodeTypes /\ dinode[i].nlink \in Nat
  BY DEF TreeTypes, DiskTypes
<1>3. IsCopy(Locked(i))
  BY <1>1, <1>2, Zenon DEF IsCopy
<1> QED
  BY <1>1, <1>3

LEMMA UpdateIs ==
    ASSUME TreeTypes, NEW ch, DOMAIN ch \subseteq Inodes, \A j \in DOMAIN ch : IsCopy(ch[j]),
           Update(ch)
    PROVE  /\ DiskTypes' /\ CopyTypes'
           /\ \A j \in Inodes \ DOMAIN ch : copy'[j] = copy[j] /\ dinode'[j] = dinode[j]
           /\ \A j \in DOMAIN ch : /\ dinode'[j].type = ch[j].type /\ dinode'[j].nlink = ch[j].nlink
                                   /\ CopyIsDisk(j)' /\ copy'[j].valid
<1>0. DiskTypes /\ CopyTypes
  BY DEF TreeTypes
<1>1. /\ copy' = [i \in Inodes |-> IF i \in DOMAIN ch THEN ch[i] ELSE copy[i]]
      /\ dinode' = [i \in Inodes |-> IF i \in DOMAIN ch
                                     THEN [type |-> ch[i].type, nlink |-> ch[i].nlink]
                                     ELSE dinode[i]]
  BY DEF Update
<1>2. \A j \in DOMAIN ch : ch[j].type \in InodeTypes /\ ch[j].nlink \in Nat
        /\ ch[j] \in [valid : BOOLEAN, type : InodeTypes, nlink : Nat]
  BY CopyFields
<1>3. CopyTypes'
  BY <1>0, <1>1, <1>2 DEF CopyTypes
<1>4. DiskTypes'
  BY <1>0, <1>1, <1>2 DEF DiskTypes
<1>5. ASSUME NEW j \in DOMAIN ch
      PROVE  /\ dinode'[j].type = ch[j].type /\ dinode'[j].nlink = ch[j].nlink
             /\ CopyIsDisk(j)' /\ copy'[j].valid
  <2>1. copy'[j] = ch[j] /\ dinode'[j] = [type |-> ch[j].type, nlink |-> ch[j].nlink]
    BY <1>1
  <2>2. dinode'[j].type = ch[j].type /\ dinode'[j].nlink = ch[j].nlink
    BY <2>1
  <2>3. ch[j].valid /\ ch[j] = [valid |-> TRUE, type |-> ch[j].type, nlink |-> ch[j].nlink]
    BY CopyFields
  <2>4. CopyIsDisk(j)'
    BY <2>1, <2>2, <2>3, Zenon DEF CopyIsDisk
  <2> QED
    BY <2>1, <2>2, <2>3, <2>4, Zenon
<1> QED
  BY <1>1, <1>3, <1>4, <1>5

\* One inode gets another count of links.
LEMMA CountOf ==
    ASSUME TreeTypes, HandsInv, NEW p \in Callers, NEW i \in Inodes, NEW x, IsCopy(x),
           HasRef(p, i), x.type = dinode[i].type, Update(Only(i, x))
    PROVE  /\ DiskTypes' /\ CopyTypes' /\ Touches(p) /\ copy'[i].valid
           /\ dinode'[i].type = dinode[i].type /\ dinode'[i].nlink = x.nlink
           /\ \A j \in Inodes \ {i} : dinode'[j] = dinode[j] /\ copy'[j] = copy[j]
<1> DEFINE ch == Only(i, x)
<1>1. DOMAIN ch = {i} /\ ch[i] = x
  BY DEF Only
<1>3. Update(ch)
  OBVIOUS
<1> HIDE DEF ch
<1>4. /\ DiskTypes' /\ CopyTypes'
      /\ \A j \in Inodes \ {i} : copy'[j] = copy[j] /\ dinode'[j] = dinode[j]
      /\ dinode'[i].type = dinode[i].type /\ dinode'[i].nlink = x.nlink
      /\ CopyIsDisk(i)' /\ copy'[i].valid
  BY <1>1, <1>3, UpdateIs
<1>5. Touches(p)
  BY <1>4 DEF Touches
<1> QED
  BY <1>4, <1>5

LEMMA CountOne ==
    ASSUME TreeTypes, HandsInv, NEW p \in Callers, NEW i \in Inodes, NEW n \in Nat,
           CanLock(i), HasRef(p, i), Update(Only(i, WithLinks(Locked(i), n)))
    PROVE  /\ DiskTypes' /\ CopyTypes' /\ Touches(p) /\ copy'[i].valid
           /\ dinode'[i].type = dinode[i].type /\ dinode'[i].nlink = n
           /\ \A j \in Inodes \ {i} : dinode'[j] = dinode[j] /\ copy'[j] = copy[j]
<1> DEFINE x == WithLinks(Locked(i), n)
<1>1. IsCopy(x) /\ x.type = dinode[i].type /\ x.nlink = n
  BY LockedCopy, WithLinksIs
<1>2. Update(Only(i, x))
  OBVIOUS
<1> HIDE DEF x
<1> QED
  BY <1>1, <1>2, CountOf

\* A name of a file is written or cleared.
NameSet(i, n, f) ==
    \A j \in Inodes : \A m \in PathNames :
      entries'[j][m] = IF j = i /\ m = n THEN f ELSE entries[j][m]

LEMMA FilesStep ==
    ASSUME TreeInv, NEW p \in Callers, Others(p), NEW i \in Inodes, NEW n \in FileNames,
           NEW f \in Inodes \cup {NoInode}, Live(i), NameSet(i, n, f),
           f # NoInode => dinode[f].type = "file",
           DiskTypes', \A j \in Inodes : dinode'[j].type = dinode[j].type,
           \A j \in Inodes : IsDir(j) => dinode'[j].nlink = dinode[j].nlink,
           \A j \in Inodes :
             dinode'[j].nlink + One(IsLinkCallTo(p, j)) + One(entries[i][n] = j)
             = dinode[j].nlink + One(IsLinkCallTo(p, j)') + One(f = j)
    PROVE  NamesInv'
<1>0. /\ NamesFit /\ ParentsFit /\ RootStays /\ LinksCounted /\ IsTree /\ DiskTypes /\ EntryTypes
  BY DEF TreeInv, NamesInv, TreeTypes
<1>1. /\ n \in Names /\ n \in PathNames /\ n # DotDot /\ n \notin DirNames /\ DotDot \in PathNames
      /\ \A m \in DirNames : m \in PathNames /\ m # n /\ m \in Names
      /\ \A m \in Names : m \in PathNames
  BY FileTreeAssumption DEF Names, PathNames
<1>2. /\ \A j \in Inodes : \A m \in PathNames :
           entries'[j][m] = IF j = i /\ m = n THEN f ELSE entries[j][m]
      /\ \A j \in Inodes : entries'[j][DotDot] = entries[j][DotDot]
      /\ \A j \in Inodes : \A m \in DirNames : entries'[j][m] = entries[j][m]
  BY <1>1 DEF NameSet
<1>3. \A j \in Inodes : (IsDir(j)' <=> IsDir(j)) /\ (Live(j)' <=> Live(j))
  BY DEF IsDir, Live
<1>r. Root \in Inodes
  BY InodesAre
<1>4. NamesFit'
  <2> SUFFICES ASSUME NEW k \in Inodes, NEW m \in Names, entries'[k][m] # NoInode
               PROVE  /\ Live(k)' /\ entries'[k][m] # Root
                      /\ m \in FileNames => dinode'[entries'[k][m]].type = "file"
                      /\ m \in DirNames =>
                           /\ dinode'[entries'[k][m]].type = "dir"
                           /\ entries'[entries'[k][m]][DotDot] = k
                           /\ \A o \in DirNames : entries'[k][o] = entries'[k][m] => o = m
    BY DEF NamesFit, IsDir
  <2>1. CASE k = i /\ m = n
    <3>1. entries'[k][m] = f /\ f # NoInode /\ f \in Inodes
      BY <1>1, <1>2, <2>1
    <3>2. dinode[f].type = "file" /\ dinode'[f].type = "file" /\ f # Root
      BY <1>0, <3>1 DEF RootStays, Live, IsDir
    <3> QED
      BY <1>1, <1>3, <2>1, <3>1, <3>2
  <2>2. CASE ~ (k = i /\ m = n)
    <3> DEFINE j == entries[k][m]
    <3>1. entries'[k][m] = j /\ j # NoInode /\ j \in Inodes
      BY <1>0, <1>1, <1>2, <2>2 DEF EntryTypes
    <3>2. /\ Live(k) /\ j # Root
          /\ m \in FileNames => dinode[j].type = "file"
          /\ m \in DirNames => /\ dinode[j].type = "dir" /\ entries[j][DotDot] = k
                               /\ \A o \in DirNames : entries[k][o] = j => o = m
      BY <1>0, <3>1 DEF NamesFit, IsDir
    <3> HIDE DEF j
    <3>3. /\ dinode'[j].type = dinode[j].type /\ entries'[j][DotDot] = entries[j][DotDot]
          /\ \A o \in DirNames : entries'[k][o] = entries[k][o]
      BY <1>2, <3>1
    <3> QED
      BY <1>3, <3>1, <3>2, <3>3
  <2> QED
    BY <2>1, <2>2
<1>5. ParentsFit'
  <2> SUFFICES ASSUME NEW k \in Inodes
               PROVE  /\ Live(k)' =>
                           /\ entries'[k][DotDot] \in Inodes /\ Live(entries[k][DotDot])'
                           /\ k # Root =>
                                \E m \in DirNames : entries'[entries'[k][DotDot]][m] = k
                      /\ ~ IsDir(k)' => entries'[k][DotDot] = NoInode
    BY DEF ParentsFit
  <2> DEFINE u == entries[k][DotDot]
  <2>1. /\ Live(k) => u \in Inodes /\ Live(u) /\ (k # Root => \E m \in DirNames : entries[u][m] = k)
        /\ ~ IsDir(k) => u = NoInode
    BY <1>0 DEF ParentsFit
  <2>2. entries'[k][DotDot] = u
    BY <1>2
  <2> HIDE DEF u
  <2>3. u \in Inodes => (dinode'[u].type = "dir" /\ dinode'[u].nlink > 0 <=> Live(u))
                        /\ \A m \in DirNames : entries'[u][m] = entries[u][m]
    BY <1>2, <1>3 DEF Live, IsDir
  <2>4. Live(entries[k][DotDot])' <=> dinode'[u].type = "dir" /\ dinode'[u].nlink > 0
    BY <2>2 DEF Live, IsDir
  <2> QED
    BY <1>3, <2>1, <2>2, <2>3, <2>4
<1>6. RootStays'
  BY <1>0, <1>2, <1>3, <1>r DEF RootStays
<1>7. IsTree'
  <2>1. PICK M \in Nat : \E d \in [Inodes -> Nat] :
          /\ \A k \in Inodes : d[k] <= M
          /\ \A k \in Inodes : \A m \in DirNames :
               entries[k][m] # NoInode => d[entries[k][m]] > d[k]
    BY <1>0 DEF IsTree
  <2>2. PICK d \in [Inodes -> Nat] :
          /\ \A k \in Inodes : d[k] <= M
          /\ \A k \in Inodes : \A m \in DirNames :
               entries[k][m] # NoInode => d[entries[k][m]] > d[k]
    BY <2>1
  <2>3. \A k \in Inodes : \A m \in DirNames :
               entries'[k][m] # NoInode => d[entries'[k][m]] > d[k]
    BY <1>2, <2>2
  <2> QED
    BY <2>2, <2>3 DEF IsTree
<1>8. LinksCounted'
  <2> SUFFICES ASSUME NEW k \in Inodes
               PROVE  dinode'[k].nlink = Linkers(k)'
    BY DEF LinksCounted
  <2>1. Cardinality(NamesOf(k)') =
             Cardinality(NamesOf(k)) - One(IsNameOf(i, n, k)) + One(IsNameOf(i, n, k)')
        /\ Cardinality(NamesOf(k)') \in Nat
    <3>1. \A j \in Inodes, m \in Names :
             <<j, m>> # <<i, n>> => (entries'[j][m] = k <=> entries[j][m] = k)
      BY <1>1, <1>2
    <3> QED
      BY ONLY <3>1, NamesStep
  <2>2. (IsNameOf(i, n, k) <=> entries[i][n] = k) /\ (IsNameOf(i, n, k)' <=> f = k)
    BY <1>1, <1>2 DEF IsNameOf
  <2>3. SubdirsOf(k)' = SubdirsOf(k)
    <3>1. \A j \in Inodes : (entries'[j][DotDot] = k /\ dinode'[j].nlink > 0)
                            <=> (entries[j][DotDot] = k /\ dinode[j].nlink > 0)
      <4> TAKE j \in Inodes
      <4>1. k # NoInode
        BY InodesAre
      <4>2. ~ IsDir(j) => entries[j][DotDot] = NoInode
        BY <1>0 DEF ParentsFit
      <4> QED
        BY <1>2, <4>1, <4>2
    <3> QED
      BY <3>1 DEF SubdirsOf
  <2>4. Cardinality(LinkCallsTo(k)') =
          Cardinality(LinkCallsTo(k)) - One(IsLinkCallTo(p, k)) + One(IsLinkCallTo(p, k)')
        /\ Cardinality(LinkCallsTo(k)') \in Nat
    BY LinkCallsStep
  <2>5. dinode[k].nlink = Linkers(k) /\ dinode[k].nlink \in Nat /\ dinode'[k].nlink \in Nat
    BY <1>0 DEF LinksCounted, DiskTypes
  <2>6. dinode'[k].nlink + One(IsLinkCallTo(p, k)) + One(IsNameOf(i, n, k))
             = dinode[k].nlink + One(IsLinkCallTo(p, k)') + One(IsNameOf(i, n, k)')
    BY <2>2, Zenon DEF One
  <2>7. /\ One(IsLinkCallTo(p, k)) \in Nat /\ One(IsLinkCallTo(p, k)') \in Nat
        /\ One(k = Root) \in Nat /\ One(IsNameOf(i, n, k)) \in Nat /\ One(IsNameOf(i, n, k)') \in Nat
    BY DEF One
  <2>8. Linkers(k) = Cardinality(NamesOf(k)) + Cardinality(SubdirsOf(k)) + One(k = Root)
              + Cardinality(LinkCallsTo(k))
      /\ Linkers(k)' = Cardinality(NamesOf(k)') + Cardinality(SubdirsOf(k)') + One(k = Root)
              + Cardinality(LinkCallsTo(k)')
    BY DEF Linkers
  <2> HIDE DEF IsLinkCallTo, IsNameOf
  <2> QED
    BY <2>1, <2>3, <2>4, <2>5, <2>6, <2>7, <2>8, LinkersFinite
<1> QED
  BY <1>4, <1>5, <1>6, <1>7, <1>8 DEF NamesInv

\* link and its undoing: the count of a file.
LEMMA FileStep ==
    ASSUME NEW p \in Callers, TreeInv, Outside(syscall[p]),
           NEW e, Outside(e), Continue(p, e), IsCall(e),
           NEW i \in Inodes, NEW n \in Nat, CanLock(i), HasRef(p, i), dinode[i].type = "file",
           Update(Only(i, WithLinks(Locked(i), n))),
           NEW g, Gets(p, g), UNCHANGED <<holder, entries, opened, cwd>>,
           n + One(syscall[p].op = "newlink") = dinode[i].nlink + One(e.op = "newlink"),
           syscall[p].op = "newlink" => syscall[p].ip = i,
           e.op = "newlink" => e.ip = i,
           e.at \in {"walk", "end"}, Live(cwd[p]),
           e.cur # NoInode /\ IsDir(e.cur) => Live(e.cur),
           e.cur # NoInode => e.cur \in Inodes,
           ~ Removes(e), syscall[p].op # "none"
    PROVE  TreeInv'
<1>0. /\ CallTypes /\ OtherTypes /\ PlaceFits(p) /\ TreeTypes /\ HandsInv /\ PlacesFit
      /\ RemoverAlone /\ DiskTypes /\ EntryTypes
  BY CallIs DEF TreeInv, TreeTypes
<1>1. CallTypes' /\ syscall'[p] = e /\ \A q \in Callers \ {p} : syscall'[q] = syscall[q]
  BY <1>0, CallStep
<1>2. Others(p)
  BY <1>1 DEF Others
<1>3. FindsLinked(p) /\ CountsRefs(p) /\ ref' = [j \in Inodes |-> ref'[j]]
  BY <1>0, GetsIs
<1>4. /\ DiskTypes' /\ CopyTypes' /\ Touches(p) /\ copy'[i].valid
      /\ dinode'[i].type = dinode[i].type /\ dinode'[i].nlink = n
      /\ \A j \in Inodes \ {i} : dinode'[j] = dinode[j] /\ copy'[j] = copy[j]
  BY <1>0, CountOne
<1>5. Moves(p)
  BY <1>0, <1>1, <1>2, <1>3, <1>4, OutsideMoves DEF Outside
<1>6. LocksMove(p)
  BY <1>1, OutsideHolds DEF LocksMove
<1>7. TreeKept
  BY <1>4 DEF TreeKept
<1>8. \A j \in Inodes : dinode'[j].nlink + One(IsLinkCallTo(p, j))
                        = dinode[j].nlink + One(IsLinkCallTo(p, j)')
  <2> TAKE j \in Inodes
  <2>1. CASE j = i
    <3>1. (IsLinkCallTo(p, j) <=> syscall[p].op = "newlink")
          /\ (IsLinkCallTo(p, j)' <=> e.op = "newlink")
      BY <1>1, <2>1 DEF IsLinkCallTo
    <3> QED
      BY <1>4, <2>1, <3>1, Zenon DEF One
  <2>2. CASE j # i
    <3>1. ~ IsLinkCallTo(p, j) /\ ~ IsLinkCallTo(p, j)'
      BY <1>1, <2>2 DEF IsLinkCallTo
    <3> QED
      BY <1>4, <2>2, <3>1 DEF One
  <2> QED
    BY <2>1, <2>2
<1>9. \A j \in Inodes : dinode'[j].type = dinode[j].type /\ (Live(j)' <=> Live(j))
  BY <1>4 DEF Live, IsDir
<1>10. PlaceFits(p)'
  <2>1. Live(cwd[p])'
    BY <1>0, <1>9 DEF OtherTypes, Live, IsDir
  <2>2. e.cur # NoInode /\ dinode'[e.cur].type = "dir" => dinode'[e.cur].nlink > 0
    BY <1>9 DEF Live, IsDir
  <2>3. e.op = "newlink" => dinode'[e.ip].type = "file"
    BY <1>4
  <2> QED
    BY <1>1, <2>1, <2>2, <2>3 DEF PlaceFits, Live, IsDir
<1>11. PlacesFit'
  <2>1. \A j \in Inodes : copy[j].valid => copy'[j].valid
    BY <1>4
  <2> QED
    BY <1>0, <1>2, <1>9, <1>10, <2>1, PlacesStep
<1>12. RemoverAlone'
  BY <1>0, <1>1, <1>2, RemoverStep
<1>13. EntryTypes' /\ opened' \in [Callers -> Inodes \cup {NoInode}]
       /\ cwd' \in [Callers -> Inodes] /\ holder' \in [Inodes -> Callers \cup {Nobody}]
  BY <1>0 DEF EntryTypes, OtherTypes
<1> QED
  BY <1>1, <1>3, <1>4, <1>5, <1>6, <1>7, <1>8, <1>11, <1>12, <1>13, KeepStep

LEMMA LinkFoundStep ==
    ASSUME TreeInv, NEW p \in Callers, LinkFound(p)
    PROVE  TreeInv'
<1> DEFINE c == syscall[p]
           i == c.ip
           m == dinode[i].nlink + 1
           e == [c EXCEPT !.op = "newlink", !.at = "walk", !.path = c.new,
                          !.new = <<>>, !.cur = cwd[p]]
<1>0. /\ IsCall(c) /\ DOMAIN c = CallFields /\ c.freeing \in BOOLEAN /\ CallPath(c)
      /\ CallTypes /\ OtherTypes /\ TreeTypes /\ HandsInv /\ DiskTypes
  BY CallIs DEF TreeInv, TreeTypes
<1>c. c.op = "link" /\ c.at = "found" /\ c.puts = <<>> /\ CanLock(i)
      /\ UNCHANGED <<holder, entries, opened, cwd>>
  BY DEF LinkFound, Reached
<1>w. /\ i \in Inodes /\ c.cur = NoInode /\ ~ c.freeing /\ Outside(c)
      /\ HasRef(p, i) /\ Live(cwd[p]) /\ cwd[p] \in Inodes
      /\ NextPut(c.puts) = NoInode /\ LastPut(c.puts) = NoInode
      /\ \A j \in Inodes : HandSum(cwd[p], opened[p], c, j) =
                     One(cwd[p] = j) + One(opened[p] = j) + One(i = j)
  BY <1>c, FoundIs
<1>1. CASE JustRead(i) /\ Return(p, <<i>>) /\ UNCHANGED ref
  BY <1>1, <1>c, OpenedStep
<1>2. CASE /\ Locked(i).type # "dir"
           /\ Update(Only(i, WithLinks(Locked(i), Locked(i).nlink + 1)))
           /\ Get(cwd[p]) /\ Continue(p, e)
  <2>1. /\ e.op = "newlink" /\ e.at = "walk" /\ e.path = c.new /\ e.new = <<>> /\ e.cur = cwd[p]
        /\ e.ip = i /\ e.puts = c.puts /\ e.freeing = c.freeing /\ DOMAIN e = CallFields
    BY <1>0 DEF CallFields
  <2>2. Continue(p, e)
    BY <1>2
  <2>3. dinode[i].type = "file" /\ m \in Nat
        /\ Update(Only(i, WithLinks(Locked(i), m)))
    <3>1. Locked(i).type = dinode[i].type /\ Locked(i).nlink = dinode[i].nlink
      BY <1>0, <1>c, <1>w, LockedCopy
    <3>2. dinode[i].type \in InodeTypes /\ dinode[i].nlink \in Nat
      BY <1>0, <1>w DEF DiskTypes
    <3>3. dinode[i].type # "free"
      BY <1>0, <1>w, OutsideHolds DEF HandsInv, NoDangling
    <3>4. Update(Only(i, WithLinks(Locked(i), m)))
      BY <1>2, <3>1
    <3> QED
      BY <1>2, <3>1, <3>2, <3>3, <3>4 DEF InodeTypes
  <2> HIDE DEF e, m
  <2>4. m = dinode[i].nlink + 1
    BY DEF m
  <2>5. IsCall(e)
    <3>1. CallShape(e)
      BY <1>w, <2>1 DEF CallShape
    <3>2. CallPath(e)
      BY <1>0, <1>c, <2>1 DEF CallPath
    <3> QED
      BY <1>0, <1>c, <1>w, <2>1, <3>1, <3>2 DEF IsCall
  <2>6. syscall'[p] = e
    BY <1>0, <2>2, <2>5, CallStep
  <2>7. Gets(p, cwd[p])
    <3>1. ref' = [j \in Inodes |-> ref[j] + One(cwd[p] = j)]
      BY <1>0, <1>2, <1>w, GetIs
    <3> SUFFICES ASSUME NEW j \in Inodes
                 PROVE  HandSum(cwd'[p], opened'[p], syscall'[p], j)
                        = HandSum(cwd[p], opened[p], syscall[p], j) + One(cwd[p] = j)
      BY <1>w, <3>1 DEF Gets, Live
    <3>2. HandSum(cwd'[p], opened'[p], syscall'[p], j) =
               One(cwd[p] = j) + One(opened[p] = j) + One(cwd[p] = j) + One(i = j)
               + One(NoInode = j) + One(NoInode = j)
      BY <1>c, <1>w, <2>1, <2>6 DEF HandSum
    <3>3. /\ One(cwd[p] = j) \in Nat /\ One(opened[p] = j) \in Nat /\ One(NoInode = j) = 0
          /\ One(i = j) \in Nat
          /\ HandSum(cwd[p], opened[p], c, j) = One(cwd[p] = j) + One(opened[p] = j) + One(i = j)
      BY <1>w, OnesAre
    <3> HIDE DEF HandSum
    <3> QED
      BY <3>2, <3>3
  <2>8. Outside(e) /\ ~ Removes(e)
    BY <1>w, <2>1 DEF Outside, Removes
  <2>9. m + One(c.op = "newlink") = dinode[i].nlink + One(e.op = "newlink")
    <3>1. One(c.op = "newlink") = 0 /\ One(e.op = "newlink") = 1 /\ dinode[i].nlink \in Nat
      BY <1>0, <1>c, <1>w, <2>1 DEF One, DiskTypes
    <3> QED
      BY <2>4, <3>1
  <2>10. c.op # "newlink" /\ c.op # "none"
    BY <1>c
  <2> QED
    BY <1>c, <1>w, <2>1, <2>2, <2>3, <2>5, <2>7, <2>8, <2>9, <2>10, FileStep
<1> QED
  BY <1>1, <1>2, Zenon DEF LinkFound

LEMMA LinkCallCounts ==
    ASSUME LinksCounted, NEW p \in Callers, NEW i \in Inodes, IsLinkCallTo(p, i)
    PROVE  dinode[i].nlink \in Nat /\ dinode[i].nlink > 0
<1>1. p \in LinkCallsTo(i)
  BY DEF LinkCallsTo, IsLinkCallTo
<1>2. Cardinality(LinkCallsTo(i)) # 0 /\ Cardinality(LinkCallsTo(i)) \in Nat
  BY <1>1, LinkersFinite, FS_EmptySet
<1>3. One(i = Root) \in Nat
  BY DEF One
<1>4. dinode[i].nlink = Linkers(i)
  BY DEF LinksCounted
<1> QED
  BY <1>2, <1>3, <1>4, LinkersFinite DEF Linkers

LEMMA LinkUndoStep ==
    ASSUME TreeInv, NEW p \in Callers, LinkUndo(p)
    PROVE  TreeInv'
<1> DEFINE c == syscall[p]
           i == c.ip
           m == dinode[i].nlink - 1
           s == <<i>>
           e == Returned(s)
<1>0. /\ CallShape(c) /\ c.freeing \in BOOLEAN /\ (c.freeing => c.puts # <<>>)
      /\ CallTypes /\ OtherTypes /\ TreeTypes /\ HandsInv /\ DiskTypes /\ PlaceFits(p)
      /\ LinksCounted /\ cwd[p] \in Inodes
  BY CallIs DEF TreeInv, TreeTypes, NamesInv
<1>c. c.op = "newlink" /\ c.at = "undo" /\ c.puts = <<>> /\ CanLock(i)
      /\ UNCHANGED <<ref, holder, entries, opened, cwd>>
      /\ Update(Only(i, WithLinks(Locked(i), Locked(i).nlink - 1))) /\ Return(p, <<i>>)
  BY DEF LinkUndo, Reached
<1>w. /\ i \in Inodes /\ c.cur = NoInode /\ ~ c.freeing /\ Outside(c)
      /\ HasRef(p, i) /\ Live(cwd[p])
      /\ NextPut(c.puts) = NoInode /\ LastPut(c.puts) = NoInode
      /\ dinode[i].type = "file"
  <2>1. i \in Inodes /\ c.cur = NoInode
    BY <1>0, <1>c DEF CallShape
  <2>2. HasRef(p, i)
    BY HandsNow
  <2>3. NextPut(c.puts) = NoInode /\ LastPut(c.puts) = NoInode
    BY <1>c, PutsAre
  <2> QED
    BY <1>0, <1>c, <2>1, <2>2, <2>3 DEF Outside, PlaceFits
<1>1. s \in PutLists /\ NextPut(s) = NoInode /\ LastPut(s) = i
  BY <1>w, PutsAre
<1>2. Continue(p, Returned(s))
  BY <1>c, Zenon DEF Return, Returned
<1> HIDE DEF s
<1>3. /\ IsCall(e) /\ e.op = "none" /\ e.at = "end" /\ e.cur = NoInode /\ e.ip = NoInode
      /\ e.puts = s /\ Outside(e) /\ ~ Removes(e)
  BY <1>1, ReturnedIs
<1>4. dinode[i].nlink \in Nat /\ dinode[i].nlink > 0
  BY <1>0, <1>c, <1>w, LinkCallCounts DEF IsLinkCallTo
<1>5. m \in Nat /\ m = dinode[i].nlink - 1
  BY <1>4
<1>6. Update(Only(i, WithLinks(Locked(i), m)))
  <2>1. Locked(i).nlink = dinode[i].nlink
    BY <1>0, <1>c, <1>w, LockedCopy
  <2> QED
    BY <1>c, <2>1
<1> HIDE DEF m, e
<1>7. syscall'[p] = e
  BY <1>0, <1>2, <1>3, CallStep DEF e
<1>8. Gets(p, NoInode)
  <2>1. ref' = [j \in Inodes |-> ref[j] + One(NoInode = j)]
    BY <1>0, <1>c, GetsNone
  <2> SUFFICES ASSUME NEW j \in Inodes
               PROVE  HandSum(cwd'[p], opened'[p], syscall'[p], j)
                      = HandSum(cwd[p], opened[p], syscall[p], j) + One(NoInode = j)
    BY <2>1 DEF Gets
  <2>2. /\ HandSum(cwd'[p], opened'[p], syscall'[p], j) =
             One(cwd[p] = j) + One(opened[p] = j) + One(NoInode = j) + One(NoInode = j)
             + One(NoInode = j) + One(i = j)
        /\ HandSum(cwd[p], opened[p], c, j) =
             One(cwd[p] = j) + One(opened[p] = j) + One(NoInode = j) + One(i = j)
             + One(NoInode = j) + One(NoInode = j)
    BY <1>1, <1>3, <1>7, <1>c, <1>w DEF HandSum
  <2>3. /\ One(cwd[p] = j) \in Nat /\ One(opened[p] = j) \in Nat /\ One(NoInode = j) = 0
        /\ One(i = j) \in Nat
    BY <1>w, OnesAre
  <2> QED
    BY <2>2, <2>3
<1>9. m + One(c.op = "newlink") = dinode[i].nlink + One(e.op = "newlink")
  <2>1. One(c.op = "newlink") = 1 /\ One(e.op = "newlink") = 0
    BY <1>c, <1>3 DEF One
  <2> QED
    BY <1>4, <1>5, <2>1
<1>10. Continue(p, e)
  BY <1>2 DEF e
<1>11. e.op # "newlink" /\ c.op # "none"
  BY <1>3, <1>c
<1> QED
  BY <1>c, <1>w, <1>3, <1>5, <1>6, <1>8, <1>9, <1>10, <1>11, FileStep

\* link writes the entry.
LEMMA LinkWritten ==
    ASSUME TreeInv, NEW p \in Callers, NEW n, NEW i, NEW k, syscall[p].at = "parent",
           syscall[p].op = "newlink", n = Head(syscall[p].path), i = syscall[p].ip,
           k = syscall[p].cur,
           CanLock(k), JustRead(k), entries[k][n] = NoInode,
           entries' = [entries EXCEPT ![k][n] = i], Return(p, <<k, i>>),
           UNCHANGED <<ref, holder, opened, cwd>>
    PROVE  TreeInv'
<1> DEFINE c == syscall[p]
           s == <<k, i>>
           e == Returned(s)
<1>0. /\ CallTypes /\ OtherTypes /\ TreeTypes /\ HandsInv /\ DiskTypes /\ EntryTypes
      /\ PlacesFit /\ RemoverAlone /\ PlaceFits(p) /\ HoldersKnown
  BY CallIs DEF TreeInv, TreeTypes, HandsInv
<1>w. /\ k \in Inodes /\ ~ c.freeing /\ Outside(c) /\ i \in Inodes /\ dinode[i].type = "file"
      /\ HasRef(p, k) /\ Live(cwd[p]) /\ cwd[p] \in Inodes /\ Live(k)
      /\ NextPut(c.puts) = NoInode /\ LastPut(c.puts) = NoInode
      /\ n \in FileNames /\ n \in PathNames
  BY ParentIs
<1>1. s \in PutLists /\ NextPut(s) = k /\ LastPut(s) = i
  BY <1>w, PutsAre
<1>2. Continue(p, Returned(s))
  BY Zenon DEF Return, Returned
<1> HIDE DEF s
<1>3. /\ IsCall(e) /\ e.op = "none" /\ e.at = "end" /\ e.cur = NoInode /\ e.ip = NoInode
      /\ e.puts = s /\ Outside(e) /\ ~ Removes(e)
  BY <1>1, ReturnedIs
<1> HIDE DEF e
<1>6. CallTypes' /\ syscall'[p] = e /\ \A q \in Callers \ {p} : syscall'[q] = syscall[q]
  BY <1>0, <1>2, <1>3, CallStep DEF e
<1>7. Others(p)
  BY <1>6 DEF Others
<1>8. Gets(p, NoInode)
  <2>1. ref' = [j \in Inodes |-> ref[j] + One(NoInode = j)]
    BY <1>0, GetsNone
  <2> SUFFICES ASSUME NEW j \in Inodes
               PROVE  HandSum(cwd'[p], opened'[p], syscall'[p], j)
                      = HandSum(cwd[p], opened[p], syscall[p], j) + One(NoInode = j)
    BY <2>1 DEF Gets
  <2>2. /\ HandSum(cwd'[p], opened'[p], syscall'[p], j) =
             One(cwd[p] = j) + One(opened[p] = j) + One(NoInode = j) + One(NoInode = j)
             + One(k = j) + One(i = j)
        /\ HandSum(cwd[p], opened[p], c, j) =
             One(cwd[p] = j) + One(opened[p] = j) + One(k = j) + One(i = j)
             + One(NoInode = j) + One(NoInode = j)
    BY <1>1, <1>3, <1>6, <1>w DEF HandSum
  <2>3. /\ One(cwd[p] = j) \in Nat /\ One(opened[p] = j) \in Nat /\ One(NoInode = j) = 0
        /\ One(i = j) \in Nat /\ One(k = j) \in Nat
    BY <1>w, OnesAre
  <2> QED
    BY <2>2, <2>3
<1>9. FindsLinked(p) /\ CountsRefs(p) /\ ref' = [j \in Inodes |-> ref'[j]]
  BY <1>0, <1>8, GetsIs
<1>10. dinode' = dinode /\ CopyTypes' /\ Touches(p) /\ copy'[k].valid
  BY <1>0, <1>w, ReadTouches
<1>11. Moves(p)
  BY <1>0, <1>3, <1>6, <1>7, <1>9, <1>10, <1>w, OutsideMoves DEF Outside
<1>12. LocksMove(p)
  BY <1>3, <1>6, <1>w, OutsideHolds DEF LocksMove
<1>13. NameSet(k, n, i) /\ EntryTypes' /\ \A j \in Inodes \ {k} : entries'[j] = entries[j]
  BY <1>0, <1>w DEF NameSet, EntryTypes
<1>14. NamesInv'
  <2>1. \A j \in Inodes :
             dinode'[j].nlink + One(IsLinkCallTo(p, j)) + One(entries[k][n] = j)
             = dinode[j].nlink + One(IsLinkCallTo(p, j)') + One(i = j)
    <3> TAKE j \in Inodes
    <3>1. (IsLinkCallTo(p, j) <=> i = j) /\ ~ IsLinkCallTo(p, j)'
      BY <1>3, <1>6 DEF IsLinkCallTo
    <3>2. One(IsLinkCallTo(p, j)) = One(i = j) /\ One(IsLinkCallTo(p, j)') = 0
          /\ One(entries[k][n] = j) = 0 /\ One(i = j) \in Nat
      BY <3>1, <1>w, InodesAre DEF One
    <3>3. dinode'[j].nlink = dinode[j].nlink /\ dinode[j].nlink \in Nat
      BY <1>0, <1>10 DEF DiskTypes
    <3> HIDE DEF IsLinkCallTo
    <3> QED
      BY <3>2, <3>3
  <2>2. DiskTypes'
    BY <1>0, <1>10 DEF DiskTypes
  <2> QED
    BY ONLY TreeInv, p \in Callers, <1>7, <1>10, <1>13, <1>w, <2>1, <2>2, FilesStep
<1>15. PlaceFits(p)'
  BY <1>3, <1>6, <1>10, <1>w DEF PlaceFits, Live, IsDir
<1>16. PlacesFit'
  <2>1. \A j \in Inodes : copy[j].valid => copy'[j].valid
    <3> TAKE j \in Inodes
    <3>1. copy'[j] = copy[j] \/ CopyIsDisk(j)'
      BY <1>10 DEF Touches
    <3>2. CopyIsDisk(j)' => copy'[j].valid
      BY DEF CopyIsDisk
    <3> HIDE DEF CopyIsDisk
    <3> QED
      BY <3>1, <3>2, Zenon
  <2>2. \A q \in Callers \ {p} : ~ LocksInode(q, k)
    BY <1>0, <1>w, NotFreed DEF CanLock
  <2>3. \A j \in Inodes : Live(j)' <=> Live(j)
    BY <1>10 DEF Live, IsDir
  <2>4. \A q \in Callers \ {p} : \A j \in Inodes :
             LocksInode(q, j) => entries'[j] = entries[j] /\ (copy[j].valid => copy'[j].valid)
    BY <1>13, <2>1, <2>2
  <2> QED
    BY <1>0, <1>7, <1>10, <1>15, <2>3, <2>4, PlacesStep
<1>17. RemoverAlone'
  BY <1>0, <1>3, <1>6, <1>7, RemoverStep
<1>18. opened' \in [Callers -> Inodes \cup {NoInode}]
       /\ cwd' \in [Callers -> Inodes] /\ holder' \in [Inodes -> Callers \cup {Nobody}]
       /\ DiskTypes'
  BY <1>0, <1>10 DEF DiskTypes, OtherTypes
<1> QED
  BY <1>6, <1>9, <1>10, <1>11, <1>12, <1>13, <1>14, <1>16, <1>17, <1>18, MoveInv

LEMMA LinkEntryStep ==
    ASSUME TreeInv, NEW p \in Callers, LinkEntry(p)
    PROVE  TreeInv'
<1> DEFINE c == syscall[p]
<1>c. c.op = "newlink" /\ c.at = "parent" /\ c.puts = <<>> /\ CanLock(c.cur) /\ JustRead(c.cur)
      /\ UNCHANGED <<ref, holder, opened, cwd>>
  BY DEF LinkEntry, Reached
<1>1. CASE /\ entries[c.cur][Name(p)] = NoInode
           /\ entries' = [entries EXCEPT ![c.cur][Name(p)] = c.ip]
           /\ Return(p, <<c.cur, c.ip>>)
  BY <1>1, <1>c, LinkWritten DEF Name
<1>2. CASE NotFound(p, c) /\ UNCHANGED entries
  BY <1>2, <1>c, NotFoundStep
<1> QED
  BY <1>1, <1>2, Zenon DEF LinkEntry

-----------------------------------------------------------------------------
(* unlink, of a file and of an empty directory.                               *)

\* unlink with the directory locked.
LEMMA UnlinkIs ==
    ASSUME TreeInv, NEW p \in Callers, syscall[p].at = "unlink", CanLock(syscall[p].ip)
    PROVE  LET c == syscall[p]
           IN /\ c.cur \in Inodes /\ c.ip \in Inodes /\ c.op = "unlink" /\ c.puts = <<>>
              /\ ~ c.freeing /\ c.cur # c.ip /\ HasRef(p, c.cur) /\ HasRef(p, c.ip)
              /\ holder[c.cur] = p
              /\ \A q \in Callers \ {p} : ~ LocksInode(q, c.cur)
              /\ Live(cwd[p]) /\ cwd[p] \in Inodes /\ Live(c.cur)
              /\ Head(c.path) \in Names /\ entries[c.cur][Head(c.path)] = c.ip
              /\ LastOf(c.path) = Head(c.path) /\ dinode[c.ip].nlink > 0 /\ c.ip # Root
              /\ Head(c.path) \in FileNames => dinode[c.ip].type = "file"
              /\ Head(c.path) \in DirNames =>
                   IsDir(c.ip) /\ entries[c.ip][DotDot] = c.cur
                   /\ \A m \in DirNames : entries[c.cur][m] = c.ip => m = Head(c.path)
              /\ \A j : ~ Frees(p, j) /\ ~ IsFresh(p, j) /\ (LocksInode(p, j) <=> j = c.cur)
              /\ IsCopy(copy[c.cur]) /\ copy[c.cur].type = dinode[c.cur].type
              /\ copy[c.cur].nlink = dinode[c.cur].nlink
              /\ NextPut(c.puts) = NoInode /\ LastPut(c.puts) = NoInode
<1> DEFINE c == syscall[p]
<1>0. /\ (c.freeing => c.puts # <<>>) /\ CallShape(c) /\ PlaceFits(p) /\ CallPath(c)
      /\ cwd[p] \in Inodes /\ TreeTypes /\ HandsInv /\ NamesFit /\ LinksCounted /\ EntryTypes
      /\ HoldersKnown /\ CopiesAgree /\ DiskTypes
  BY CallIs DEF TreeInv, HandsInv, NamesInv, TreeTypes
<1>1. c.cur \in Inodes /\ c.ip \in Inodes /\ c.op = "unlink" /\ c.puts = <<>> /\ ~ c.freeing
  BY <1>0 DEF CallShape
<1>2. HasRef(p, c.cur) /\ HasRef(p, c.ip)
  BY HandsNow
<1>3. \A j : ~ Frees(p, j) /\ ~ IsFresh(p, j) /\ (LocksInode(p, j) <=> j = c.cur)
  BY <1>1 DEF Frees, IsFresh, LocksInode
<1>4. holder[c.cur] = p
  BY <1>0, <1>1, <1>3 DEF HoldersKnown
<1>5. c.cur # c.ip
  BY <1>4, FileTreeAssumption DEF CanLock
<1>6. \A q \in Callers \ {p} : ~ LocksInode(q, c.cur) /\ ~ Frees(q, c.cur)
  BY <1>0, <1>1, <1>4, NotFreed
<1>7. /\ Live(cwd[p]) /\ Live(c.cur) /\ entries[c.cur][Head(c.path)] = c.ip
      /\ copy[c.cur].valid
  BY <1>0 DEF PlaceFits
<1>8. LastOf(c.path) = Head(c.path) /\ Head(c.path) \in Names
  <2>1. c.path \in Seq(PathNames) /\ c.path # <<>> /\ Len(c.path) = 1 /\ LastOf(c.path) # DotDot
    BY <1>0 DEF CallPath
  <2>2. LastOf(c.path) = Head(c.path) /\ Head(c.path) \in PathNames
    BY <2>1, PathEnds
  <2> HIDE DEF c
  <2> QED
    BY <2>1, <2>2 DEF PathNames
<1>9. c.ip # NoInode
  BY <1>1, InodesAre
<1>10. dinode[c.ip].nlink > 0
  BY <1>0, <1>1, <1>7, <1>8, <1>9, NameLinks
<1>11. /\ c.ip # Root
       /\ Head(c.path) \in FileNames => dinode[c.ip].type = "file"
       /\ Head(c.path) \in DirNames =>
            IsDir(c.ip) /\ entries[c.ip][DotDot] = c.cur
            /\ \A m \in DirNames : entries[c.cur][m] = c.ip => m = Head(c.path)
  BY <1>0, <1>1, <1>7, <1>8, <1>9 DEF NamesFit
<1>12. CopyIsDisk(c.cur)
  <2>1. \A q \in Callers : ~ Frees(q, c.cur)
    BY <1>3, <1>6
  <2> QED
    BY <1>0, <1>1, <1>7, <2>1 DEF CopiesAgree
<1>13. /\ IsCopy(copy[c.cur]) /\ copy[c.cur].type = dinode[c.cur].type
       /\ copy[c.cur].nlink = dinode[c.cur].nlink
  <2>1. dinode[c.cur].type \in InodeTypes /\ dinode[c.cur].nlink \in Nat
    BY <1>0, <1>1 DEF DiskTypes
  <2>2. IsCopy(copy[c.cur])
    BY <1>12, <2>1, Zenon DEF CopyIsDisk, IsCopy
  <2> QED
    BY <1>12, <2>2 DEF CopyIsDisk
<1>14. NextPut(c.puts) = NoInode /\ LastPut(c.puts) = NoInode
  BY <1>1, PutsAre
<1> QED
  BY <1>0, <1>1, <1>2, <1>3, <1>4, <1>5, <1>6, <1>7, <1>8, <1>10, <1>11, <1>13, <1>14

\* It lets go of the directory and puts both.
LEMMA UnlinkEnds ==
    ASSUME TreeInv, NEW p \in Callers, syscall[p].at = "unlink", CanLock(syscall[p].ip),
           NEW k, NEW i, k = syscall[p].cur, i = syscall[p].ip,
           NEW s \in {<<k, i>>, <<i, k>>}, Return(p, s),
           holder' = [holder EXCEPT ![k] = Nobody], Touches(p),
           UNCHANGED <<ref, opened, cwd>>
    PROVE  /\ Moves(p) /\ LocksMove(p) /\ CallTypes' /\ RemoverAlone' /\ Others(p)
           /\ opened' \in [Callers -> Inodes \cup {NoInode}] /\ cwd' \in [Callers -> Inodes]
           /\ holder' \in [Inodes -> Callers \cup {Nobody}]
           /\ ref' = [j \in Inodes |-> ref'[j]]
           /\ \A j : ~ IsLinkCallTo(p, j) /\ ~ IsLinkCallTo(p, j)'
           /\ Live(cwd[p])' => PlaceFits(p)'
<1> DEFINE c == syscall[p]
           e == Returned(s)
<1>0. /\ CallTypes /\ OtherTypes /\ TreeTypes /\ HandsInv
      /\ RemoverAlone /\ HoldersKnown
  BY CallIs DEF TreeInv, TreeTypes, HandsInv
<1>w. /\ k \in Inodes /\ i \in Inodes /\ c.op = "unlink" /\ c.puts = <<>>
      /\ ~ c.freeing /\ holder[k] = p
      /\ \A j : ~ Frees(p, j) /\ ~ IsFresh(p, j) /\ (LocksInode(p, j) <=> j = k)
      /\ NextPut(c.puts) = NoInode /\ LastPut(c.puts) = NoInode
  BY UnlinkIs
<1>1. /\ s \in PutLists
      /\ \/ NextPut(s) = k /\ LastPut(s) = i
         \/ NextPut(s) = i /\ LastPut(s) = k
  <2>1. CASE s = <<k, i>>
    BY <1>w, <2>1, PutsAre
  <2>2. CASE s = <<i, k>>
    BY <1>w, <2>2, PutsAre
  <2> QED
    BY <2>1, <2>2
<1>2. Continue(p, Returned(s))
  BY Zenon DEF Return, Returned
<1>3. /\ IsCall(e) /\ e.op = "none" /\ e.at = "end" /\ e.cur = NoInode /\ e.ip = NoInode
      /\ e.puts = s /\ Outside(e) /\ ~ Removes(e) /\ ~ e.freeing
  BY <1>1, ReturnedIs
<1> HIDE DEF e
<1>6. CallTypes' /\ syscall'[p] = e /\ \A q \in Callers \ {p} : syscall'[q] = syscall[q]
  BY <1>0, <1>2, <1>3, CallStep DEF e
<1>7. Others(p)
  BY <1>6 DEF Others
<1>8. Gets(p, NoInode)
  <2>1. ref' = [j \in Inodes |-> ref[j] + One(NoInode = j)]
    BY <1>0, GetsNone
  <2> SUFFICES ASSUME NEW j \in Inodes
               PROVE  HandSum(cwd'[p], opened'[p], syscall'[p], j)
                      = HandSum(cwd[p], opened[p], syscall[p], j) + One(NoInode = j)
    BY <2>1 DEF Gets
  <2>2. /\ HandSum(cwd'[p], opened'[p], syscall'[p], j) =
             One(cwd[p] = j) + One(opened[p] = j) + One(NoInode = j) + One(NoInode = j)
             + One(NextPut(s) = j) + One(LastPut(s) = j)
        /\ HandSum(cwd[p], opened[p], c, j) =
             One(cwd[p] = j) + One(opened[p] = j) + One(k = j) + One(i = j)
             + One(NoInode = j) + One(NoInode = j)
    BY <1>3, <1>6, <1>w DEF HandSum
  <2>3. /\ One(cwd[p] = j) \in Nat /\ One(opened[p] = j) \in Nat /\ One(NoInode = j) = 0
        /\ One(i = j) \in Nat /\ One(k = j) \in Nat
    BY <1>w, OnesAre
  <2>4. \/ One(NextPut(s) = j) = One(k = j) /\ One(LastPut(s) = j) = One(i = j)
        \/ One(NextPut(s) = j) = One(i = j) /\ One(LastPut(s) = j) = One(k = j)
    BY <1>1
  <2> QED
    BY <2>2, <2>3, <2>4
<1>9. FindsLinked(p) /\ CountsRefs(p) /\ ref' = [j \in Inodes |-> ref'[j]]
  BY <1>0, <1>8, GetsIs
<1>10. Moves(p)
  <2>1. \A j : ~ Frees(p, j)' /\ ~ IsFresh(p, j)' /\ ~ LocksInode(p, j)'
    BY <1>3, <1>6, OutsideHolds
  <2>2. \A q \in Callers \ {p} : \A j \in Inodes : Frees(q, j) => ~ HasRef(p, j)
    BY <1>0, <1>w DEF HandsInv, FreesAlone
  <2> QED
    BY <1>7, <1>9, <1>w, <2>1, <2>2 DEF Moves
<1>11. LocksMove(p)
  <2>1. \A j : ~ LocksInode(p, j)'
    BY <1>3, <1>6, OutsideHolds
  <2>2. \A j \in Inodes : holder'[j] = IF j = k THEN Nobody ELSE holder[j]
    BY <1>0, <1>w DEF OtherTypes
  <2> HIDE DEF LocksInode
  <2> QED
    BY <1>w, <2>1, <2>2 DEF LocksMove
<1>12. RemoverAlone'
  BY <1>0, <1>3, <1>6, <1>7, <1>w, RemoverStep
<1>13. \A j : ~ IsLinkCallTo(p, j) /\ ~ IsLinkCallTo(p, j)'
  BY <1>3, <1>6, <1>w DEF IsLinkCallTo
<1>14. Live(cwd[p])' => PlaceFits(p)'
  BY <1>3, <1>6 DEF PlaceFits
<1>15. opened' \in [Callers -> Inodes \cup {NoInode}] /\ cwd' \in [Callers -> Inodes]
       /\ holder' \in [Inodes -> Callers \cup {Nobody}]
  BY <1>0 DEF OtherTypes
<1> QED
  BY <1>6, <1>7, <1>9, <1>10, <1>11, <1>12, <1>13, <1>14, <1>15

\* A directory is not empty.
LEMMA UnlinkFails ==
    ASSUME TreeInv, NEW p \in Callers, syscall[p].at = "unlink", CanLock(syscall[p].ip),
           NEW k, NEW i, k = syscall[p].cur, i = syscall[p].ip,
           JustRead(i), Return(p, <<i, k>>), holder' = [holder EXCEPT ![k] = Nobody],
           UNCHANGED <<ref, opened, cwd, entries>>
    PROVE  TreeInv'
<1>0. /\ TreeTypes /\ HandsInv
  BY DEF TreeInv
<1>w. i \in Inodes /\ CanLock(i) /\ HasRef(p, i) /\ Live(cwd[p])
  BY UnlinkIs
<1>1. dinode' = dinode /\ CopyTypes' /\ Touches(p)
  BY <1>0, <1>w, ReadTouches
<1>2. /\ Moves(p) /\ LocksMove(p) /\ CallTypes' /\ RemoverAlone' /\ Others(p)
      /\ opened' \in [Callers -> Inodes \cup {NoInode}] /\ cwd' \in [Callers -> Inodes]
      /\ holder' \in [Inodes -> Callers \cup {Nobody}]
      /\ ref' = [j \in Inodes |-> ref'[j]]
      /\ \A j : ~ IsLinkCallTo(p, j) /\ ~ IsLinkCallTo(p, j)'
      /\ Live(cwd[p])' => PlaceFits(p)'
  BY <1>1, UnlinkEnds
<1>3. PlaceFits(p)'
  BY <1>1, <1>2, <1>w DEF Live, IsDir
<1> QED
  BY <1>1, <1>2, <1>3, LookStep

\* A file loses the name.
LEMMA FileUnlinked ==
    ASSUME TreeInv, NEW p \in Callers, syscall[p].at = "unlink", CanLock(syscall[p].ip),
           NEW k, NEW i, NEW n, k = syscall[p].cur, i = syscall[p].ip,
           n = Head(syscall[p].path), dinode[i].type # "dir",
           Update([j \in {k, i} |-> IF j = i THEN WithLinks(Locked(i), dinode[i].nlink - 1)
                                    ELSE copy[k]]),
           entries' = [entries EXCEPT ![k][n] = NoInode],
           Return(p, <<k, i>>), holder' = [holder EXCEPT ![k] = Nobody],
           UNCHANGED <<ref, opened, cwd>>
    PROVE  TreeInv'
<1> DEFINE ch == [j \in {k, i} |-> IF j = i THEN WithLinks(Locked(i), dinode[i].nlink - 1)
                                    ELSE copy[k]]
<1>0. /\ TreeTypes /\ HandsInv /\ DiskTypes /\ EntryTypes /\ PlacesFit
  BY DEF TreeInv, TreeTypes
<1>w. /\ i \in Inodes /\ k \in Inodes /\ CanLock(i) /\ HasRef(p, i) /\ HasRef(p, k)
      /\ Live(cwd[p]) /\ cwd[p] \in Inodes /\ i # k /\ Live(k) /\ n \in Names
      /\ entries[k][n] = i /\ dinode[i].nlink > 0 /\ (n \in DirNames => IsDir(i))
      /\ (n \in FileNames => dinode[i].type = "file")
      /\ IsCopy(copy[k]) /\ copy[k].type = dinode[k].type /\ copy[k].nlink = dinode[k].nlink
      /\ \A q \in Callers \ {p} : ~ LocksInode(q, k)
  BY UnlinkIs, Zenon
<1>1. n \in FileNames /\ n \in PathNames /\ dinode[i].type = "file"
  BY <1>w, Zenon DEF IsDir, Names, PathNames
<1>2. dinode[i].nlink - 1 \in Nat /\ dinode[i].nlink \in Nat
  BY ONLY <1>0, <1>w DEF DiskTypes
<1>3. /\ DOMAIN ch = {k, i} /\ ch[k] = copy[k]
      /\ IsCopy(ch[i]) /\ ch[i].type = dinode[i].type /\ ch[i].nlink = dinode[i].nlink - 1
  <2>1. DOMAIN ch = {k, i} /\ ch[k] = copy[k]
        /\ ch[i] = WithLinks(Locked(i), dinode[i].nlink - 1)
    BY ONLY <1>w, Zenon
  <2>2. IsCopy(Locked(i)) /\ Locked(i).type = dinode[i].type
    BY ONLY <1>0, <1>w, LockedCopy, Zenon
  <2> HIDE DEF ch
  <2> QED
    BY <1>2, <2>1, <2>2, WithLinksIs
<1>4. Update(ch)
  OBVIOUS
<1> HIDE DEF ch
<1>5. /\ DiskTypes' /\ CopyTypes'
      /\ \A j \in Inodes \ {k, i} : copy'[j] = copy[j] /\ dinode'[j] = dinode[j]
      /\ \A j \in {k, i} : /\ dinode'[j].type = ch[j].type /\ dinode'[j].nlink = ch[j].nlink
                           /\ CopyIsDisk(j)' /\ copy'[j].valid
  BY ONLY <1>0, <1>3, <1>4, <1>w, UpdateIs, Zenon
<1>6. /\ \A j \in Inodes : dinode'[j].type = dinode[j].type
      /\ \A j \in Inodes \ {i} : dinode'[j].nlink = dinode[j].nlink
      /\ dinode'[i].nlink = dinode[i].nlink - 1
      /\ \A j \in Inodes : copy[j].valid => copy'[j].valid
  BY ONLY <1>3, <1>5, <1>w
<1>7. Touches(p)
  BY ONLY <1>5, <1>6, <1>w DEF Touches
<1>8. /\ Moves(p) /\ LocksMove(p) /\ CallTypes' /\ RemoverAlone' /\ Others(p)
      /\ opened' \in [Callers -> Inodes \cup {NoInode}] /\ cwd' \in [Callers -> Inodes]
      /\ holder' \in [Inodes -> Callers \cup {Nobody}]
      /\ ref' = [j \in Inodes |-> ref'[j]]
      /\ \A j : ~ IsLinkCallTo(p, j) /\ ~ IsLinkCallTo(p, j)'
      /\ Live(cwd[p])' => PlaceFits(p)'
  BY <1>7, UnlinkEnds
<1>9. \A j \in Inodes : (Live(j)' <=> Live(j)) /\ (IsDir(j) => dinode'[j].nlink = dinode[j].nlink)
  BY <1>1, <1>6 DEF Live, IsDir
<1>10. PlaceFits(p)'
  BY <1>8, <1>9, <1>w, Zenon
<1>11. NameSet(k, n, NoInode) /\ EntryTypes' /\ \A j \in Inodes \ {k} : entries'[j] = entries[j]
  BY <1>0, <1>1, <1>w, Zenon DEF NameSet, EntryTypes
<1>12. NamesInv'
  <2>1. \A j \in Inodes :
             dinode'[j].nlink + One(IsLinkCallTo(p, j)) + One(entries[k][n] = j)
             = dinode[j].nlink + One(IsLinkCallTo(p, j)') + One(NoInode = j)
    <3> TAKE j \in Inodes
    <3>1. One(IsLinkCallTo(p, j)) = 0 /\ One(IsLinkCallTo(p, j)') = 0 /\ One(NoInode = j) = 0
      BY <1>8, InodesAre DEF One
    <3>2. dinode'[j].nlink + One(entries[k][n] = j) = dinode[j].nlink
          /\ dinode[j].nlink \in Nat /\ dinode'[j].nlink \in Nat /\ One(entries[k][n] = j) \in Nat
      BY ONLY <1>0, <1>2, <1>5, <1>6, <1>w DEF One, DiskTypes
    <3> HIDE DEF IsLinkCallTo
    <3> QED
      BY <3>1, <3>2
  <2>2. /\ \A j \in Inodes : IsDir(j) => dinode'[j].nlink = dinode[j].nlink
        /\ \A j \in Inodes : dinode'[j].type = dinode[j].type
        /\ DiskTypes' /\ Others(p) /\ Live(k) /\ NameSet(k, n, NoInode)
        /\ p \in Callers /\ k \in Inodes /\ n \in FileNames /\ TreeInv
    BY <1>1, <1>5, <1>6, <1>8, <1>9, <1>11, <1>w, Zenon
  <2>3. NoInode \in Inodes \cup {NoInode}
    OBVIOUS
  <2> QED
    BY ONLY <2>1, <2>2, <2>3, FilesStep
<1>13. PlacesFit'
  <2>1. \A q \in Callers \ {p} : \A j \in Inodes :
             LocksInode(q, j) => entries'[j] = entries[j] /\ (copy[j].valid => copy'[j].valid)
    BY ONLY <1>6, <1>11, <1>w
  <2> QED
    BY ONLY <1>0, <1>6, <1>8, <1>9, <1>10, <2>1, PlacesStep
<1> QED
  BY <1>5, <1>8, <1>11, <1>12, <1>13, MoveInv, Zenon

\* An empty directory has no link but its name.
LEMMA EmptyUnlinked ==
    ASSUME TreeInv, NEW k \in Inodes, NEW i \in Inodes, NEW n \in DirNames,
           entries[k][n] = i, IsDirEmpty(i)
    PROVE  /\ dinode[i].nlink = 1 /\ i # k /\ IsDir(i) /\ Live(i) /\ entries[i][DotDot] = k
           /\ i # Root /\ dinode[k].nlink > 1 /\ Live(k)
           /\ \A j \in Inodes \ {i} : Live(j) => entries[j][DotDot] # i
           /\ \A j \in Inodes : \A m \in Names : entries[j][m] = i => j = k /\ m = n
<1>0. /\ NamesFit /\ ParentsFit /\ RootStays /\ LinksCounted /\ DiskTypes /\ EntryTypes
      /\ PlacesFit /\ CallTypes /\ Root \in Inodes
  BY InodesAre DEF TreeInv, NamesInv, TreeTypes
<1>1. n \in Names /\ i # NoInode
  BY InodesAre DEF Names
<1>2. /\ Live(k) /\ i # Root /\ IsDir(i) /\ entries[i][DotDot] = k
      /\ \A m \in DirNames : entries[k][m] = i => m = n
  BY <1>0, <1>1 DEF NamesFit
<1>3. dinode[i].nlink > 0
  BY <1>0, <1>1, NameLinks
<1>4. Live(i) /\ i # k
  BY <1>1, <1>2, <1>3 DEF Live, IsDirEmpty
<1>5. \A j \in Inodes : \A m \in Names : entries[j][m] = i => j = k /\ m = n
  <2> SUFFICES ASSUME NEW j \in Inodes, NEW m \in Names, entries[j][m] = i
               PROVE  j = k /\ m = n
    OBVIOUS
  <2>1. m \in DirNames
    BY <1>0, <1>1, <1>2 DEF NamesFit, IsDir, Names
  <2>2. entries[i][DotDot] = j
    BY <1>0, <1>1, <2>1 DEF NamesFit
  <2> QED
    BY <1>2, <2>1, <2>2
<1>6. \A j \in Inodes : Live(j) => entries[j][DotDot] # i
  <2> SUFFICES ASSUME NEW j \in Inodes, Live(j), entries[j][DotDot] = i
               PROVE  FALSE
    OBVIOUS
  <2>1. j # Root
    BY <1>0, <1>2 DEF RootStays
  <2>2. PICK m \in DirNames : entries[i][m] = j
    BY <1>0, <2>1 DEF ParentsFit
  <2> QED
    BY <2>2, InodesAre DEF IsDirEmpty, Names
<1>7. Cardinality(NamesOf(i)) = 1
  <2>1. NamesOf(i) = {<<k, n>>}
    BY <1>1, <1>5 DEF NamesOf
  <2> QED
    BY <2>1, FS_Singleton
<1>8. Cardinality(SubdirsOf(i)) = 0
  <2>1. \A j \in Inodes : dinode[j].nlink > 0 /\ entries[j][DotDot] = i => Live(j)
    BY <1>0, <1>1 DEF ParentsFit, Live
  <2>2. SubdirsOf(i) = {}
    BY <1>6, <2>1 DEF SubdirsOf
  <2> QED
    BY <2>2, FS_EmptySet
<1>9. Cardinality(LinkCallsTo(i)) = 0
  <2>1. LinkCallsTo(i) = {}
    BY <1>0, <1>2 DEF LinkCallsTo, PlacesFit, PlaceFits, IsDir
  <2> QED
    BY <2>1, FS_EmptySet
<1>10. dinode[i].nlink = 1
  BY <1>0, <1>2, <1>7, <1>8, <1>9 DEF LinksCounted, Linkers, One
<1>11. dinode[k].nlink > 1
  <2>1. Cardinality(SubdirsOf(k)) # 0
    <3>1. i \in SubdirsOf(k)
      BY <1>2, <1>3 DEF SubdirsOf
    <3> QED
      BY <3>1, LinkersFinite, FS_EmptySet
  <2>2. k # Root => Cardinality(NamesOf(k)) # 0
    <3> SUFFICES ASSUME k # Root PROVE Cardinality(NamesOf(k)) # 0
      OBVIOUS
    <3>1. PICK m \in DirNames : entries[entries[k][DotDot]][m] = k
      BY <1>0, <1>2 DEF ParentsFit
    <3>2. entries[k][DotDot] \in Inodes /\ m \in Names
      BY <1>0, <1>2 DEF ParentsFit, Names
    <3>3. <<entries[k][DotDot], m>> \in NamesOf(k)
      BY <3>1, <3>2 DEF NamesOf
    <3> QED
      BY <3>3, LinkersFinite, FS_EmptySet
  <2>3. One(k = Root) \in Nat /\ (k = Root => One(k = Root) = 1)
    BY DEF One
  <2>4. dinode[k].nlink = Cardinality(NamesOf(k)) + Cardinality(SubdirsOf(k)) + One(k = Root)
                          + Cardinality(LinkCallsTo(k))
    BY <1>0 DEF LinksCounted, Linkers
  <2> QED
    BY <2>1, <2>2, <2>3, <2>4, LinkersFinite
<1> QED
  BY <1>2, <1>4, <1>5, <1>6, <1>10, <1>11

\* The tree without an empty directory i, that was n in k.
LEMMA DirGone ==
    ASSUME TreeInv, NEW p \in Callers, Others(p), NEW k \in Inodes, NEW i \in Inodes,
           NEW n \in DirNames, entries[k][n] = i, IsDirEmpty(i), NameSet(k, n, NoInode),
           DiskTypes', \A j \in Inodes : dinode'[j].type = dinode[j].type,
           dinode'[i].nlink = dinode[i].nlink - 1, dinode'[k].nlink = dinode[k].nlink - 1,
           \A j \in Inodes \ {i, k} : dinode'[j].nlink = dinode[j].nlink,
           \A j : ~ IsLinkCallTo(p, j) /\ ~ IsLinkCallTo(p, j)'
    PROVE  NamesInv' /\ \A j \in Inodes \ {i} : Live(j)' <=> Live(j)
<1>0. /\ NamesFit /\ ParentsFit /\ RootStays /\ LinksCounted /\ IsTree /\ DiskTypes /\ EntryTypes
  BY DEF TreeInv, NamesInv, TreeTypes
<1>e. /\ dinode[i].nlink = 1 /\ i # k /\ IsDir(i) /\ Live(i) /\ entries[i][DotDot] = k
      /\ i # Root /\ dinode[k].nlink > 1 /\ Live(k)
      /\ \A j \in Inodes \ {i} : Live(j) => entries[j][DotDot] # i
      /\ \A j \in Inodes : \A m \in Names : entries[j][m] = i => j = k /\ m = n
  BY EmptyUnlinked
<1>1. /\ n \in Names /\ n \in PathNames /\ n # DotDot /\ DotDot \in PathNames
      /\ \A m \in DirNames : m \in PathNames /\ m \in Names
      /\ \A m \in Names : m \in PathNames
  BY FileTreeAssumption DEF Names, PathNames
<1>2. /\ \A j \in Inodes : \A m \in PathNames :
           entries'[j][m] = IF j = k /\ m = n THEN NoInode ELSE entries[j][m]
      /\ \A j \in Inodes : entries'[j][DotDot] = entries[j][DotDot]
  BY <1>1 DEF NameSet
<1>n. /\ dinode'[i].nlink = 0 /\ dinode'[k].nlink > 0
      /\ \A j \in Inodes : dinode[j].nlink \in Nat /\ dinode'[j].nlink \in Nat
  BY <1>0, <1>e DEF DiskTypes
<1>3. /\ \A j \in Inodes \ {i} : Live(j)' <=> Live(j)
      /\ \A j \in Inodes : IsDir(j)' <=> IsDir(j)
      /\ ~ Live(i)'
  BY <1>e, <1>n DEF IsDir, Live
<1>r. Root \in Inodes /\ \A j \in Inodes : j # NoInode
  BY InodesAre
<1>4. NamesFit'
  <2> SUFFICES ASSUME NEW u \in Inodes, NEW m \in Names, entries'[u][m] # NoInode
               PROVE  /\ Live(u)' /\ entries'[u][m] # Root
                      /\ m \in FileNames => dinode'[entries'[u][m]].type = "file"
                      /\ m \in DirNames =>
                           /\ dinode'[entries'[u][m]].type = "dir"
                           /\ entries'[entries'[u][m]][DotDot] = u
                           /\ \A o \in DirNames : entries'[u][o] = entries'[u][m] => o = m
    BY DEF NamesFit, IsDir
  <2> DEFINE j == entries[u][m]
  <2>1. ~ (u = k /\ m = n) /\ entries'[u][m] = j
    BY <1>1, <1>2
  <2>2. j # NoInode /\ j \in Inodes /\ j # i
    BY <1>0, <1>1, <1>e, <2>1 DEF EntryTypes
  <2>3. u # i
    BY <2>2 DEF IsDirEmpty
  <2>4. /\ Live(u) /\ j # Root
        /\ m \in FileNames => dinode[j].type = "file"
        /\ m \in DirNames => /\ dinode[j].type = "dir" /\ entries[j][DotDot] = u
                             /\ \A o \in DirNames : entries[u][o] = j => o = m
    BY <1>0, <2>2 DEF NamesFit, IsDir
  <2> HIDE DEF j
  <2>5. /\ dinode'[j].type = dinode[j].type /\ entries'[j][DotDot] = entries[j][DotDot]
        /\ \A o \in DirNames : entries'[u][o] = NoInode \/ entries'[u][o] = entries[u][o]
    BY <1>1, <1>2, <2>2
  <2> QED
    BY <1>3, <2>1, <2>2, <2>3, <2>4, <2>5
<1>5. ParentsFit'
  <2> SUFFICES ASSUME NEW u \in Inodes
               PROVE  /\ Live(u)' =>
                           /\ entries'[u][DotDot] \in Inodes /\ Live(entries[u][DotDot])'
                           /\ u # Root =>
                                \E m \in DirNames : entries'[entries'[u][DotDot]][m] = u
                      /\ ~ IsDir(u)' => entries'[u][DotDot] = NoInode
    BY DEF ParentsFit
  <2>1. ~ IsDir(u)' => entries'[u][DotDot] = NoInode
    BY <1>0, <1>2, <1>3 DEF ParentsFit
  <2>2. ASSUME Live(u)'
        PROVE  /\ entries'[u][DotDot] \in Inodes /\ Live(entries[u][DotDot])'
               /\ u # Root => \E m \in DirNames : entries'[entries'[u][DotDot]][m] = u
    <3> DEFINE v == entries[u][DotDot]
    <3>1. u # i /\ Live(u)
      BY <1>3, <2>2
    <3>2. v \in Inodes /\ Live(v) /\ (u # Root => \E m \in DirNames : entries[v][m] = u) /\ v # i
      BY <1>0, <1>e, <3>1 DEF ParentsFit
    <3>3. entries'[u][DotDot] = v
      BY <1>2
    <3> HIDE DEF v
    <3>4. dinode'[v].type = "dir" /\ dinode'[v].nlink > 0
      BY <1>3, <3>2 DEF Live, IsDir
    <3>5. \A m \in DirNames : entries[v][m] = u => entries'[v][m] = u
      BY <1>1, <1>2, <3>1, <3>2
    <3> QED
      BY <3>2, <3>3, <3>4, <3>5 DEF Live, IsDir
  <2> QED
    BY <2>1, <2>2
<1>6. RootStays'
  BY <1>0, <1>2, <1>3, <1>e, <1>r DEF RootStays
<1>7. IsTree'
  <2>1. PICK M \in Nat : \E d \in [Inodes -> Nat] :
          /\ \A u \in Inodes : d[u] <= M
          /\ \A u \in Inodes : \A m \in DirNames :
               entries[u][m] # NoInode => d[entries[u][m]] > d[u]
    BY <1>0 DEF IsTree
  <2>2. PICK d \in [Inodes -> Nat] :
          /\ \A u \in Inodes : d[u] <= M
          /\ \A u \in Inodes : \A m \in DirNames :
               entries[u][m] # NoInode => d[entries[u][m]] > d[u]
    BY <2>1
  <2>3. \A u \in Inodes : \A m \in DirNames :
               entries'[u][m] # NoInode => d[entries'[u][m]] > d[u]
    BY <1>1, <1>2, <2>2
  <2> QED
    BY <2>2, <2>3 DEF IsTree
<1>8. LinksCounted'
  <2> SUFFICES ASSUME NEW u \in Inodes
               PROVE  dinode'[u].nlink = Linkers(u)'
    BY DEF LinksCounted
  <2>1. Cardinality(NamesOf(u)') =
             Cardinality(NamesOf(u)) - One(IsNameOf(k, n, u)) + One(IsNameOf(k, n, u)')
        /\ Cardinality(NamesOf(u)') \in Nat
    <3>1. \A j \in Inodes, m \in Names :
             <<j, m>> # <<k, n>> => (entries'[j][m] = u <=> entries[j][m] = u)
      BY <1>1, <1>2
    <3> QED
      BY ONLY <3>1, NamesStep
  <2>2. (IsNameOf(k, n, u) <=> u = i) /\ ~ IsNameOf(k, n, u)'
    BY <1>1, <1>2, <1>r DEF IsNameOf
  <2>3. Cardinality(SubdirsOf(u)') =
             Cardinality(SubdirsOf(u)) - One(IsSubdirOf(i, u)) + One(IsSubdirOf(i, u)')
           /\ Cardinality(SubdirsOf(u)') \in Nat
    <3>1. \A v \in Inodes \ {i} : IsSubdirOf(v, u)' <=> IsSubdirOf(v, u)
      BY <1>2, <1>e, <1>n DEF IsSubdirOf
    <3> QED
      BY ONLY <3>1, SubdirsStep
  <2>4. (IsSubdirOf(i, u) <=> u = k) /\ ~ IsSubdirOf(i, u)'
    BY <1>e, <1>n DEF IsSubdirOf
  <2>5. Cardinality(LinkCallsTo(u)') =
          Cardinality(LinkCallsTo(u)) - One(IsLinkCallTo(p, u)) + One(IsLinkCallTo(p, u)')
        /\ Cardinality(LinkCallsTo(u)') \in Nat
    BY LinkCallsStep
  <2>6. dinode[u].nlink = Linkers(u)
    BY <1>0 DEF LinksCounted
  <2>7. /\ One(IsLinkCallTo(p, u)) = 0 /\ One(IsLinkCallTo(p, u)') = 0
        /\ One(u = Root) \in Nat /\ One(IsNameOf(k, n, u)') = 0 /\ One(IsSubdirOf(i, u)') = 0
        /\ One(IsNameOf(k, n, u)) = IF u = i THEN 1 ELSE 0
        /\ One(IsSubdirOf(i, u)) = IF u = k THEN 1 ELSE 0
    BY <2>2, <2>4 DEF One
  <2>8. Linkers(u) = Cardinality(NamesOf(u)) + Cardinality(SubdirsOf(u)) + One(u = Root)
              + Cardinality(LinkCallsTo(u))
      /\ Linkers(u)' = Cardinality(NamesOf(u)') + Cardinality(SubdirsOf(u)') + One(u = Root)
              + Cardinality(LinkCallsTo(u)')
    BY DEF Linkers
  <2>9. dinode'[u].nlink = dinode[u].nlink - IF u = i \/ u = k THEN 1 ELSE 0
    BY <1>n
  <2> HIDE DEF IsLinkCallTo, IsNameOf, IsSubdirOf
  <2> QED
    BY <1>e, <2>1, <2>3, <2>5, <2>6, <2>7, <2>8, <2>9, LinkersFinite
<1> QED
  BY <1>3, <1>4, <1>5, <1>6, <1>7, <1>8 DEF NamesInv

LEMMA DirUnlinked ==
    ASSUME TreeInv, NEW p \in Callers, syscall[p].at = "unlink", CanLock(syscall[p].ip),
           NEW k, NEW i, NEW n, k = syscall[p].cur, i = syscall[p].ip,
           n = Head(syscall[p].path), dinode[i].type = "dir", IsDirEmpty(i),
           Update([j \in {k, i} |-> IF j = i THEN WithLinks(Locked(i), dinode[i].nlink - 1)
                                    ELSE WithLinks(copy[k], dinode[k].nlink - 1)]),
           entries' = [entries EXCEPT ![k][n] = NoInode],
           Return(p, <<k, i>>), holder' = [holder EXCEPT ![k] = Nobody],
           UNCHANGED <<ref, opened, cwd>>
    PROVE  TreeInv'
<1> DEFINE ch == [j \in {k, i} |-> IF j = i THEN WithLinks(Locked(i), dinode[i].nlink - 1)
                                    ELSE WithLinks(copy[k], dinode[k].nlink - 1)]
<1>0. /\ TreeTypes /\ HandsInv /\ DiskTypes /\ EntryTypes /\ PlacesFit /\ RemoverAlone
  BY DEF TreeInv, TreeTypes
<1>w. /\ i \in Inodes /\ k \in Inodes /\ CanLock(i) /\ HasRef(p, i) /\ HasRef(p, k)
      /\ Live(cwd[p]) /\ cwd[p] \in Inodes /\ i # k /\ Live(k) /\ n \in Names
      /\ entries[k][n] = i /\ syscall[p].op = "unlink" /\ LastOf(syscall[p].path) = n
      /\ (n \in FileNames => dinode[i].type = "file")
      /\ IsCopy(copy[k]) /\ copy[k].type = dinode[k].type /\ copy[k].nlink = dinode[k].nlink
      /\ \A q \in Callers \ {p} : ~ LocksInode(q, k)
  BY UnlinkIs, Zenon
<1>1. n \in DirNames /\ n \in PathNames
  BY <1>w, Zenon DEF Names, PathNames
<1>e. dinode[i].nlink = 1 /\ dinode[k].nlink > 1 /\ i # Root
  BY <1>1, <1>w, EmptyUnlinked
<1>2. /\ dinode[i].nlink - 1 \in Nat /\ dinode[i].nlink \in Nat
      /\ dinode[k].nlink - 1 \in Nat /\ dinode[k].nlink \in Nat
  BY <1>0, <1>e, <1>w DEF DiskTypes
<1>3. /\ DOMAIN ch = {k, i} /\ IsCopy(ch[k]) /\ IsCopy(ch[i])
      /\ ch[i].type = dinode[i].type /\ ch[i].nlink = dinode[i].nlink - 1
      /\ ch[k].type = dinode[k].type /\ ch[k].nlink = dinode[k].nlink - 1
  <2>1. DOMAIN ch = {k, i} /\ ch[k] = WithLinks(copy[k], dinode[k].nlink - 1)
        /\ ch[i] = WithLinks(Locked(i), dinode[i].nlink - 1)
    BY <1>w, Zenon
  <2>2. IsCopy(Locked(i)) /\ Locked(i).type = dinode[i].type
    BY <1>0, <1>w, LockedCopy
  <2> HIDE DEF ch
  <2>3. IsCopy(ch[i]) /\ ch[i].type = dinode[i].type /\ ch[i].nlink = dinode[i].nlink - 1
    BY <1>2, <2>1, <2>2, WithLinksIs
  <2>4. IsCopy(ch[k]) /\ ch[k].type = dinode[k].type /\ ch[k].nlink = dinode[k].nlink - 1
    <3>1. IsCopy(copy[k]) /\ copy[k].type = dinode[k].type /\ dinode[k].nlink - 1 \in Nat
      BY ONLY <1>2, <1>w, Zenon
    <3>2. \A m \in Nat : IsCopy(WithLinks(copy[k], m)) /\ WithLinks(copy[k], m).type = copy[k].type
                         /\ WithLinks(copy[k], m).nlink = m
      BY <3>1, WithLinksIs
    <3>3. /\ IsCopy(WithLinks(copy[k], dinode[k].nlink - 1))
          /\ WithLinks(copy[k], dinode[k].nlink - 1).type = copy[k].type
          /\ WithLinks(copy[k], dinode[k].nlink - 1).nlink = dinode[k].nlink - 1
      BY ONLY <3>1, <3>2, Zenon
    <3> QED
      BY <2>1, <3>1, <3>3, Zenon
  <2> QED
    BY <2>1, <2>3, <2>4, Zenon
<1>4. Update(ch)
  OBVIOUS
<1> HIDE DEF ch
<1>5. /\ DiskTypes' /\ CopyTypes'
      /\ \A j \in Inodes \ {k, i} : copy'[j] = copy[j] /\ dinode'[j] = dinode[j]
      /\ \A j \in {k, i} : /\ dinode'[j].type = ch[j].type /\ dinode'[j].nlink = ch[j].nlink
                           /\ CopyIsDisk(j)' /\ copy'[j].valid
  BY ONLY <1>0, <1>3, <1>4, <1>w, UpdateIs
<1>6. /\ \A j \in Inodes : dinode'[j].type = dinode[j].type
      /\ \A j \in Inodes \ {i, k} : dinode'[j].nlink = dinode[j].nlink
      /\ dinode'[i].nlink = dinode[i].nlink - 1 /\ dinode'[k].nlink = dinode[k].nlink - 1
      /\ \A j \in Inodes : copy[j].valid => copy'[j].valid
  BY ONLY <1>3, <1>5, <1>w
<1>7. Touches(p)
  BY ONLY <1>5, <1>6, <1>w DEF Touches
<1>8. /\ Moves(p) /\ LocksMove(p) /\ CallTypes' /\ RemoverAlone' /\ Others(p)
      /\ opened' \in [Callers -> Inodes \cup {NoInode}] /\ cwd' \in [Callers -> Inodes]
      /\ holder' \in [Inodes -> Callers \cup {Nobody}]
      /\ ref' = [j \in Inodes |-> ref'[j]]
      /\ \A j : ~ IsLinkCallTo(p, j) /\ ~ IsLinkCallTo(p, j)'
      /\ Live(cwd[p])' => PlaceFits(p)'
  BY <1>7, UnlinkEnds, Zenon
<1>11. NameSet(k, n, NoInode) /\ EntryTypes' /\ \A j \in Inodes \ {k} : entries'[j] = entries[j]
  <2>1. n # DotDot /\ n \in PathNames /\ NoInode \in Inodes \cup {NoInode}
    BY ONLY <1>1, <1>w, FileTreeAssumption, Zenon
  <2> QED
    BY <1>0, <1>w, <2>1, Zenon DEF NameSet, EntryTypes
<1>12. NamesInv' /\ \A j \in Inodes \ {i} : Live(j)' <=> Live(j)
  <2>1. /\ TreeInv /\ Others(p) /\ k \in Inodes /\ i \in Inodes /\ p \in Callers
        /\ n \in DirNames /\ entries[k][n] = i /\ IsDirEmpty(i) /\ NameSet(k, n, NoInode)
        /\ DiskTypes' /\ \A j \in Inodes : dinode'[j].type = dinode[j].type
        /\ dinode'[i].nlink = dinode[i].nlink - 1 /\ dinode'[k].nlink = dinode[k].nlink - 1
        /\ \A j \in Inodes \ {i, k} : dinode'[j].nlink = dinode[j].nlink
        /\ \A j : ~ IsLinkCallTo(p, j) /\ ~ IsLinkCallTo(p, j)'
    BY <1>1, <1>5, <1>6, <1>8, <1>11, <1>w, Zenon
  <2> QED
    BY ONLY <2>1, DirGone
<1>13. /\ \A q \in Callers \ {p} : syscall[q].op = "none"
       /\ \A q \in Callers : cwd[q] = Root
  <2>1. Removes(syscall[p])
    BY <1>1, <1>w, Zenon DEF Removes
  <2> QED
    BY <1>0, <2>1 DEF RemoverAlone
<1>14. PlaceFits(p)'
  <2>1. cwd'[p] = Root /\ Live(Root)'
    BY <1>12, <1>13, <1>e, <1>w, Zenon
  <2> QED
    BY <1>8, <2>1 DEF Live, IsDir
<1>15. PlacesFit'
  <2>1. \A q \in Callers \ {p} : syscall[q].cur = NoInode /\ syscall[q].ip = NoInode
    <3> TAKE q \in Callers \ {p}
    <3>1. syscall[q].op = "none" /\ CallShape(syscall[q])
      BY <1>13, CallIs
    <3> QED
      BY <3>1 DEF CallShape, Entering
  <2>2. \A q \in Callers \ {p} : \A j \in Inodes :
          /\ j \in {cwd[q], syscall[q].cur, syscall[q].ip} =>
               dinode'[j].type = dinode[j].type /\ (Live(j) => Live(j)')
          /\ LocksInode(q, j) => entries'[j] = entries[j] /\ (copy[j].valid => copy'[j].valid)
    <3> TAKE q \in Callers \ {p}
    <3> TAKE j \in Inodes
    <3>1. j \in {cwd[q], syscall[q].cur, syscall[q].ip} => j = Root
      BY <1>13, <2>1, InodesAre
    <3>2. LocksInode(q, j) => j # k
      BY <1>w, Zenon
    <3> QED
      BY <1>6, <1>11, <1>12, <1>e, <3>1, <3>2
  <2> QED
    BY <1>0, <1>8, <1>14, <2>2, PlacesStep, Zenon
<1> QED
  BY <1>5, <1>8, <1>11, <1>12, <1>15, MoveInv, Zenon

LEMMA UnlinkEntryStep ==
    ASSUME TreeInv, NEW p \in Callers, UnlinkEntry(p)
    PROVE  TreeInv'
<1> DEFINE c == syscall[p]
           k == c.cur
           i == c.ip
<1>c. /\ c.at = "unlink" /\ CanLock(i) /\ holder' = [holder EXCEPT ![k] = Nobody]
      /\ UNCHANGED <<ref, opened, cwd>>
  BY DEF UnlinkEntry, Reached
<1>w. /\ i \in Inodes /\ k \in Inodes /\ copy[k].nlink = dinode[k].nlink /\ i # k
      /\ Locked(i).type = dinode[i].type /\ Locked(i).nlink = dinode[i].nlink
  <2>1. i \in Inodes /\ k \in Inodes /\ copy[k].nlink = dinode[k].nlink /\ i # k
    BY <1>c, UnlinkIs
  <2> QED
    BY <1>c, <2>1, LockedCopy DEF TreeInv
<1>1. CASE /\ Locked(i).type = "dir" /\ ~ IsDirEmpty(i)
           /\ JustRead(i) /\ Return(p, <<i, k>>) /\ UNCHANGED entries
  BY <1>1, <1>c, UnlinkFails
<1>2. CASE /\ ~ (Locked(i).type = "dir" /\ ~ IsDirEmpty(i))
           /\ Update([j \in {k, i} |->
                            IF j = i THEN WithLinks(Locked(i), Locked(i).nlink - 1)
                            ELSE IF Locked(i).type = "dir"
                                 THEN WithLinks(copy[k], copy[k].nlink - 1) ELSE copy[k]])
           /\ entries' = [entries EXCEPT ![k][Name(p)] = NoInode]
           /\ Return(p, <<k, i>>)
  <2>n. Name(p) = Head(c.path)
    BY DEF Name
  <2>1. CASE dinode[i].type # "dir"
    <3>1. Update([j \in {k, i} |-> IF j = i THEN WithLinks(Locked(i), dinode[i].nlink - 1)
                                   ELSE copy[k]])
      BY <1>2, <1>w, <2>1
    <3> QED
      BY <1>2, <1>c, <2>1, <2>n, <3>1, FileUnlinked, Zenon
  <2>2. CASE dinode[i].type = "dir"
    <3>1. Update([j \in {k, i} |-> IF j = i THEN WithLinks(Locked(i), dinode[i].nlink - 1)
                                   ELSE WithLinks(copy[k], dinode[k].nlink - 1)])
      BY <1>2, <1>w, <2>2
    <3>2. IsDirEmpty(i)
      BY <1>2, <1>w, <2>2
    <3> QED
      BY <1>2, <1>c, <2>2, <2>n, <3>1, <3>2, DirUnlinked, Zenon
  <2> QED
    BY <2>1, <2>2
<1> QED
  BY <1>1, <1>2, Zenon DEF UnlinkEntry

-----------------------------------------------------------------------------
(* create: ialloc, and the new inode filled.                                  *)

LEMMA CountsIs ==
    ASSUME NEW p \in Callers, NEW g, OtherTypes,
           ref' = [j \in Inodes |-> ref[j] + One(g = j)],
           \A j \in Inodes : HandSum(cwd'[p], opened'[p], syscall'[p], j)
                             = HandSum(cwd[p], opened[p], syscall[p], j) + One(g = j)
    PROVE  /\ CountsRefs(p) /\ ref' = [j \in Inodes |-> ref'[j]]
           /\ \A j \in Inodes :
                /\ NumberOf(InHand[p], j) \in Nat
                /\ NumberOf(InHand'[p], j) = NumberOf(InHand[p], j) + One(g = j)
                /\ NumberOf(InHand[p], j) > 0 <=> HasRef(p, j)
                /\ HasRef(p, j)' <=> (HasRef(p, j) \/ g = j)
                /\ ref[j] \in Nat /\ ref'[j] = ref[j] + One(g = j)
<1>1. \A j \in Inodes : NumberOf(InHand'[p], j) = NumberOf(InHand[p], j) + One(g = j)
  <2> TAKE j \in Inodes
  <2>1. NumberOf(InHand[p], j) = HandSum(cwd[p], opened[p], syscall[p], j)
        /\ NumberOf(InHand'[p], j) = HandSum(cwd'[p], opened'[p], syscall'[p], j)
    BY SumIs
  <2>2. HandSum(cwd'[p], opened'[p], syscall'[p], j)
        = HandSum(cwd[p], opened[p], syscall[p], j) + One(g = j)
    OBVIOUS
  <2> HIDE DEF HandSum
  <2> QED
    BY <2>1, <2>2
<1>2. \A j \in Inodes : NumberOf(InHand[p], j) \in Nat /\ NumberOf(InHand'[p], j) \in Nat
                        /\ (NumberOf(InHand[p], j) > 0 <=> HasRef(p, j))
                        /\ (NumberOf(InHand'[p], j) > 0 <=> HasRef(p, j)')
  BY HandCounts
<1>3. \A j \in Inodes : One(g = j) \in Nat /\ (g # j => One(g = j) = 0) /\ (g = j => One(g = j) = 1)
                        /\ ref[j] \in Nat /\ ref'[j] = ref[j] + One(g = j)
  BY DEF One, OtherTypes
<1>4. \A j \in Inodes : HasRef(p, j)' <=> (HasRef(p, j) \/ g = j)
  <2> TAKE j \in Inodes
  <2> HIDE DEF HasRef
  <2> QED
    BY <1>1, <1>2, <1>3
<1>5. CountsRefs(p)
  <2> SUFFICES ASSUME NEW j \in Inodes
               PROVE  /\ ref'[j] + NumberOf(InHand[p], j) = ref[j] + NumberOf(InHand'[p], j)
                      /\ ref'[j] \in Int /\ ref'[j] >= ref[j]
    BY DEF CountsRefs
  <2> QED
    BY <1>1, <1>2, <1>3
<1>6. ref' = [j \in Inodes |-> ref'[j]]
  OBVIOUS
<1> QED
  BY <1>1, <1>2, <1>3, <1>4, <1>5, <1>6

LEMMA RefHolder ==
    ASSUME RefsCounted, NEW i \in Inodes, ref[i] \in Nat, ref[i] > 0
    PROVE  \E q \in Callers : HasRef(q, i)
<1>1. Cardinality(RefSet(InHand, i)) # 0
  BY DEF RefsCounted
<1>2. RefSet(InHand, i) # {}
  BY <1>1, FS_EmptySet
<1>3. PICK h \in Callers \X Slots : InHand[h[1]][h[2]] = i
  BY <1>2 DEF RefSet
<1> QED
  BY <1>3 DEF HasRef

\* Who frees an inode has it nowhere but on its list.
LEMMA FreesOnce ==
    ASSUME TreeInv, NEW q \in Callers, NEW i \in Inodes, Frees(q, i)
    PROVE  /\ cwd[q] # i /\ opened[q] # i /\ syscall[q].cur # i /\ syscall[q].ip # i
           /\ syscall[q].puts # <<>>
<1> DEFINE c == syscall[q]
<1>0. c.puts \in PutLists /\ c.puts # <<>> /\ Head(c.puts) = i
  BY CallIs DEF Frees
<1>1. NextPut(c.puts) = i \/ LastPut(c.puts) = i
  BY <1>0, PutsForms
<1>2. NumberOf(InHand[q], i) = 1
  BY DEF TreeInv, HandsInv, FreesAlone
<1>3. NumberOf(InHand[q], i) =
                One(cwd[q] = i) + One(opened[q] = i) + One(c.cur = i)
                + One(c.ip = i) + One(NextPut(c.puts) = i)
                + One(LastPut(c.puts) = i)
  BY HandsNow
<1>4. \A j : One(j = i) \in Nat /\ (j = i => One(j = i) = 1)
  BY DEF One
<1>5. /\ One(cwd[q] = i) \in Nat /\ One(opened[q] = i) \in Nat /\ One(c.cur = i) \in Nat
      /\ One(c.ip = i) \in Nat /\ One(NextPut(c.puts) = i) \in Nat /\ One(LastPut(c.puts) = i) \in Nat
      /\ One(NextPut(c.puts) = i) = 1 \/ One(LastPut(c.puts) = i) = 1
      /\ (cwd[q] = i => One(cwd[q] = i) = 1) /\ (opened[q] = i => One(opened[q] = i) = 1)
      /\ (c.cur = i => One(c.cur = i) = 1) /\ (c.ip = i => One(c.ip = i) = 1)
  BY <1>1, <1>4
<1>6. NumberOf(InHand[q], i) > 0 /\ ~ (NumberOf(InHand[q], i) > 1)
  BY <1>2
<1>7. cwd[q] # i /\ opened[q] # i /\ c.cur # i /\ c.ip # i
  <2> DEFINE a1 == One(cwd[q] = i)
             a2 == One(opened[q] = i)
             a3 == One(c.cur = i)
             a4 == One(c.ip = i)
             a5 == One(NextPut(c.puts) = i)
             a6 == One(LastPut(c.puts) = i)
  <2>1. /\ a1 \in Nat /\ a2 \in Nat /\ a3 \in Nat /\ a4 \in Nat /\ a5 \in Nat /\ a6 \in Nat
        /\ a5 = 1 \/ a6 = 1
        /\ a1 + a2 + a3 + a4 + a5 + a6 = 1
    BY <1>2, <1>3, <1>5
  <2>2. /\ cwd[q] = i => a1 = 1
        /\ opened[q] = i => a2 = 1
        /\ c.cur = i => a3 = 1
        /\ c.ip = i => a4 = 1
    BY <1>5
  <2> HIDE DEF a1, a2, a3, a4, a5, a6, c
  <2>3. a1 = 0 /\ a2 = 0 /\ a3 = 0 /\ a4 = 0
    BY ONLY <2>1
  <2> QED
    BY ONLY <2>2, <2>3
<1> QED
  BY <1>0, <1>7

\* ialloc: a free inode becomes one that only this call will fill.
Allocates(p, i, c) ==
    /\ \A j \in Inodes \ {i} : dinode'[j] = dinode[j]
    /\ dinode'[i].type = TypeMade(c) /\ dinode'[i].nlink = 0
    /\ \A j \in Inodes \ {c.cur} : copy'[j] = copy[j]
    /\ CountsRefs(p)
    /\ \A j \in Inodes :
         /\ NumberOf(InHand[p], j) \in Nat
         /\ NumberOf(InHand'[p], j) = NumberOf(InHand[p], j) + One(i = j)
         /\ NumberOf(InHand[p], j) > 0 <=> HasRef(p, j)
         /\ HasRef(p, j)' <=> (HasRef(p, j) \/ i = j)
         /\ ref[j] \in Nat /\ ref'[j] = ref[j] + One(i = j)

LEMMA AllocHands ==
    ASSUME TreeInv, NEW p \in Callers, NEW i \in Inodes, NEW c, NEW k \in Inodes,
           c = syscall[p], k = c.cur, Outside(c), HasRef(p, k),
           dinode[i].type = "free", Others(p), Allocates(p, i, c), i # k,
           CopyIsDisk(k)', copy'[k].valid,
           syscall'[p].at = "fill", syscall'[p].op = c.op, syscall'[p].ip = i,
           ~ syscall'[p].freeing
    PROVE  /\ RefsCounted' /\ NoDangling' /\ FreesAlone' /\ FreshAlone'
           /\ CopiesAgree' /\ OrphansKept' /\ FreeUnlinked'
           /\ \A j \in Inodes : ref'[j] \in Nat
<1>0. /\ RefsCounted /\ NoDangling /\ FreesAlone /\ FreshAlone /\ CopiesAgree /\ OrphansKept
      /\ FreeUnlinked /\ OtherTypes
  BY DEF TreeInv, HandsInv, TreeTypes
<1>a. /\ \A j \in Inodes \ {i} : dinode'[j] = dinode[j]
      /\ dinode'[i].type = TypeMade(c) /\ dinode'[i].nlink = 0 /\ dinode'[i].type # "free"
      /\ \A j \in Inodes \ {k} : copy'[j] = copy[j]
      /\ CountsRefs(p)
  BY DEF Allocates, TypeMade
<1>b. \A j \in Inodes :
         /\ NumberOf(InHand[p], j) \in Nat
         /\ NumberOf(InHand'[p], j) = NumberOf(InHand[p], j) + One(i = j)
         /\ NumberOf(InHand[p], j) > 0 <=> HasRef(p, j)
         /\ HasRef(p, j)' <=> (HasRef(p, j) \/ i = j)
         /\ ref[j] \in Nat /\ ref'[j] = ref[j] + One(i = j)
  BY Zenon DEF Allocates
<1>1. RefsCounted' /\ \A j \in Inodes : ref'[j] \in Nat
  BY <1>0, <1>a, RefsStep DEF CountsRefs
<1>2. \A q \in Callers \ {p} :
        /\ InHand'[q] = InHand[q]
        /\ \A j : /\ HasRef(q, j)' <=> HasRef(q, j)
                  /\ Frees(q, j)' <=> Frees(q, j)
                  /\ IsFresh(q, j)' <=> IsFresh(q, j)
  BY OthersKeep
<1>3. /\ \A j : ~ Frees(p, j) /\ ~ IsFresh(p, j) /\ ~ Frees(p, j)'
      /\ \A j : IsFresh(p, j)' <=> j = i
  <2>1. \A j : ~ Frees(p, j) /\ ~ IsFresh(p, j)
    BY OutsideHolds
  <2> QED
    BY <2>1 DEF Frees, IsFresh
<1>4. ~ HasRef(p, i) /\ \A q \in Callers : HasRef(q, i) => Frees(q, i)
  BY <1>0, <1>3 DEF NoDangling
<1>5. NumberOf(InHand'[p], i) = 1
  <2>1. NumberOf(InHand[p], i) = 0
    BY <1>b, <1>4
  <2>2. One(i = i) = 1
    BY DEF One
  <2> QED
    BY <1>b, <2>1, <2>2
<1>6. \A j \in Inodes : ref'[j] \in Nat /\ ref'[j] >= ref[j] /\ ref[j] \in Nat
  BY <1>b, <1>1, <1>a DEF CountsRefs
<1>7. ref'[i] > 0
  BY <1>b DEF One
<1>8. \A q \in Callers : ~ IsFresh(q, i)
  BY <1>0 DEF FreshAlone, TypeMade
<1>9. FreeUnlinked'
  BY <1>0, <1>a DEF FreeUnlinked
<1>10. NoDangling'
  <2> SUFFICES ASSUME NEW q \in Callers, NEW j \in Inodes, HasRef(q, j)', dinode'[j].type = "free"
               PROVE  Frees(q, j)'
    BY DEF NoDangling
  <2>1. j # i /\ dinode[j].type = "free"
    BY <1>a
  <2>2. HasRef(q, j)
    BY <1>2, <1>b, <2>1
  <2>3. Frees(q, j)
    BY <1>0, <2>1, <2>2 DEF NoDangling
  <2> QED
    BY <1>2, <1>3, <2>3
<1>11. FreesAlone'
  <2> SUFFICES ASSUME NEW q \in Callers, NEW j \in Inodes, Frees(q, j)'
               PROVE  /\ dinode'[j].nlink = 0 /\ NumberOf(InHand'[q], j) = 1
                      /\ dinode'[j].type = "free" \/ \E r \in Callers : IsFresh(r, j)'
                      /\ \A r \in Callers \ {q} : HasRef(r, j)' => IsFresh(r, j)'
    BY DEF FreesAlone
  <2>1. q # p /\ Frees(q, j)
    BY <1>2, <1>3
  <2>2. /\ dinode[j].nlink = 0 /\ NumberOf(InHand[q], j) = 1
        /\ dinode[j].type = "free" \/ \E r \in Callers : IsFresh(r, j)
        /\ \A r \in Callers \ {q} : HasRef(r, j) => IsFresh(r, j)
    BY <1>0, <2>1 DEF FreesAlone
  <2>3. NumberOf(InHand'[q], j) = 1 /\ dinode'[j].nlink = 0
    BY <1>2, <1>a, <2>1, <2>2
  <2>4. dinode'[j].type = "free" \/ \E r \in Callers : IsFresh(r, j)'
    BY <1>2, <1>3, <1>a, <2>2
  <2>5. \A r \in Callers \ {q} : HasRef(r, j)' => IsFresh(r, j)'
    BY <1>2, <1>3, <1>b, <2>2
  <2> QED
    BY <2>3, <2>4, <2>5
<1>12. FreshAlone'
  <2> SUFFICES ASSUME NEW q \in Callers, NEW j \in Inodes, IsFresh(q, j)'
               PROVE  /\ dinode'[j].type = TypeMade(syscall'[q]) /\ dinode'[j].nlink = 0
                      /\ NumberOf(InHand'[q], j) = 1
                      /\ \A r \in Callers \ {q} : HasRef(r, j)' => Frees(r, j)'
    BY DEF FreshAlone
  <2>1. CASE q = p
    <3>1. j = i
      BY <1>3, <2>1
    <3>2. TypeMade(syscall'[p]) = TypeMade(c)
      BY DEF TypeMade
    <3> QED
      BY <1>2, <1>4, <1>5, <1>a, <2>1, <3>1, <3>2
  <2>2. CASE q # p
    <3>1. IsFresh(q, j) /\ syscall'[q] = syscall[q]
      BY <1>2, <2>2 DEF Others
    <3>2. j # i
      BY <1>8, <3>1
    <3>3. /\ dinode[j].type = TypeMade(syscall[q]) /\ dinode[j].nlink = 0
          /\ NumberOf(InHand[q], j) = 1
          /\ \A r \in Callers \ {q} : HasRef(r, j) => Frees(r, j)
      BY <1>0, <3>1 DEF FreshAlone
    <3>4. \A r \in Callers \ {q} : HasRef(r, j)' => Frees(r, j)'
      BY <1>2, <1>3, <1>b, <3>2, <3>3
    <3> QED
      BY <1>2, <1>a, <2>2, <3>1, <3>2, <3>3, <3>4
  <2> QED
    BY <2>1, <2>2
<1>13. CopiesAgree'
  <2> SUFFICES ASSUME NEW j \in Inodes, copy'[j].valid
               PROVE  ref'[j] > 0 /\ (CopyIsDisk(j)' \/ \E q \in Callers : Frees(q, j)')
    BY DEF CopiesAgree
  <2>1. CASE j = k
    <3>1. ref[k] > 0
      BY <1>0, RefsAtLeast
    <3> QED
      BY <1>6, <2>1, <3>1
  <2>2. CASE j = i
    <3>1. copy[i].valid
      BY <1>a, <2>2
    <3>2. ref[i] > 0
      BY <1>0, <3>1 DEF CopiesAgree
    <3>3. \E q \in Callers : Frees(q, i)
      BY <1>0, <1>4, <1>6, <3>2, RefHolder
    <3> QED
      BY <1>2, <1>3, <1>7, <2>2, <3>3
  <2>3. CASE j # k /\ j # i
    <3>1. copy'[j] = copy[j] /\ dinode'[j] = dinode[j]
      BY <1>a, <2>3
    <3>2. ref[j] > 0 /\ (CopyIsDisk(j) \/ \E q \in Callers : Frees(q, j))
      BY <1>0, <3>1 DEF CopiesAgree
    <3>3. CopyIsDisk(j) => CopyIsDisk(j)'
      BY <3>1 DEF CopyIsDisk
    <3> QED
      BY <1>2, <1>3, <1>6, <3>2, <3>3
  <2> QED
    BY <2>1, <2>2, <2>3
<1>14. OrphansKept'
  <2> SUFFICES ASSUME NEW j \in Inodes, dinode'[j].type # "free", dinode'[j].nlink = 0
               PROVE  ref'[j] > 0 /\ (copy'[j].valid \/ \E q \in Callers : IsFresh(q, j)')
    BY DEF OrphansKept
  <2>1. CASE j = i
    BY <1>3, <1>7, <2>1
  <2>2. CASE j # i
    <3>1. ref[j] > 0 /\ (copy[j].valid \/ \E q \in Callers : IsFresh(q, j))
      BY <1>0, <1>a, <2>2 DEF OrphansKept
    <3>2. copy[j].valid => copy'[j].valid
      BY <1>a
    <3> QED
      BY <1>2, <1>3, <1>6, <3>1, <3>2
  <2> QED
    BY <2>1, <2>2
<1> QED
  BY <1>1, <1>9, <1>10, <1>11, <1>12, <1>13, <1>14

\* A lock is taken by a process that has none.
LEMMA TakesLock ==
    ASSUME NEW p \in Callers, NEW k \in Inodes, OtherTypes, CanLock(k), Outside(syscall[p]),
           holder' = [holder EXCEPT ![k] = p],
           syscall'[p].cur = k, syscall'[p].at \in {"unlink", "fill"}, ~ syscall'[p].freeing
    PROVE  LocksMove(p) /\ holder' \in [Inodes -> Callers \cup {Nobody}]
<1>1. \A j : ~ LocksInode(p, j)
  BY OutsideHolds
<1>2. \A j : LocksInode(p, j)' <=> j = k
  BY DEF LocksInode, Frees
<1>3. holder[k] = Nobody /\ holder \in [Inodes -> Callers \cup {Nobody}]
  BY DEF CanLock, OtherTypes
<1>4. \A j \in Inodes : holder'[j] = IF j = k THEN p ELSE holder[j]
  BY <1>3
<1> HIDE DEF LocksInode
<1>5. LocksMove(p)
  BY <1>1, <1>2, <1>3, <1>4 DEF LocksMove
<1> QED
  BY <1>3, <1>5

\* create finds no name, and takes a free inode.
LEMMA LookAlloc ==
    ASSUME TreeInv, NEW p \in Callers, NEW k, NEW i \in Inodes, syscall[p].at = "parent",
           syscall[p].op \in {"create", "mkdir"}, k = syscall[p].cur,
           CanLock(k), copy' = [copy EXCEPT ![k] = Locked(k)],
           entries[k][Head(syscall[p].path)] = NoInode, dinode[i].type = "free",
           dinode' = [dinode EXCEPT ![i] = [type |-> TypeMade(syscall[p]), nlink |-> 0]],
           Get(i), holder' = [holder EXCEPT ![k] = p],
           Continue(p, [syscall[p] EXCEPT !.at = "fill", !.ip = i]),
           UNCHANGED <<entries, opened, cwd>>
    PROVE  TreeInv'
<1> DEFINE c == syscall[p]
           e == [c EXCEPT !.at = "fill", !.ip = i]
<1>0. /\ IsCall(c) /\ DOMAIN c = CallFields /\ c.freeing \in BOOLEAN /\ CallPath(c)
      /\ CallTypes /\ OtherTypes /\ TreeTypes /\ HandsInv /\ NamesInv /\ PlacesFit
      /\ RemoverAlone
  BY CallIs DEF TreeInv
<1>w. /\ k \in Inodes /\ ~ c.freeing /\ HasRef(p, k) /\ Outside(c) /\ c.puts = <<>>
      /\ Live(cwd[p]) /\ Live(k) /\ c.ip = NoInode /\ Head(c.path) \in PathNames
      /\ LastOf(c.path) = Head(c.path) /\ Len(c.path) = 1
      /\ NextPut(c.puts) = NoInode /\ LastPut(c.puts) = NoInode
  BY ParentIs
<1>1. /\ e.op = c.op /\ e.at = "fill" /\ e.path = c.path /\ e.new = c.new /\ e.cur = k
      /\ e.ip = i /\ e.puts = c.puts /\ e.freeing = c.freeing /\ DOMAIN e = CallFields
  BY <1>0 DEF CallFields
<1>2. Continue(p, e)
  OBVIOUS
<1>3. c.at = "parent" /\ c.op \in {"create", "mkdir"} /\ c.cur = k
  OBVIOUS
<1> HIDE DEF e, c
<1>5. IsCall(e)
  <2>1. CallShape(e)
    BY <1>3, <1>w, <1>1 DEF CallShape
  <2>2. CallPath(e)
    BY <1>0, <1>3, <1>w, <1>1 DEF CallPath
  <2> QED
    BY <1>0, <1>3, <1>w, <1>1, <2>1, <2>2 DEF IsCall
<1>6. CallTypes' /\ syscall'[p] = e /\ \A q \in Callers \ {p} : syscall'[q] = syscall[q]
  BY <1>0, <1>2, <1>5, CallStep
<1>7. Others(p)
  BY <1>6 DEF Others
<1>8. i # k /\ ~ Live(i) /\ dinode[i].nlink = 0
  BY <1>w, <1>0 DEF Live, IsDir, HandsInv, FreeUnlinked
<1>9. /\ Locked(k).valid /\ CopyTypes' /\ copy' = [copy EXCEPT ![k] = Locked(k)]
      /\ copy'[k] = Locked(k) /\ Locked(k).type = dinode[k].type
      /\ Locked(k) = [valid |-> TRUE, type |-> dinode[k].type, nlink |-> dinode[k].nlink]
      /\ \A j \in Inodes \ {k} : copy'[j] = copy[j]
  <2>1. Locked(k) = [valid |-> TRUE, type |-> dinode[k].type, nlink |-> dinode[k].nlink]
    BY <1>0, <1>w, LockedIs
  <2>2. Locked(k) \in [valid : BOOLEAN, type : InodeTypes, nlink : Nat]
    BY <1>0, <1>w, LockedCopy, CopyFields
  <2>3. copy \in [Inodes -> [valid : BOOLEAN, type : InodeTypes, nlink : Nat]]
    BY <1>0 DEF TreeTypes, CopyTypes
  <2> HIDE DEF Locked
  <2>4. Locked(k).valid /\ Locked(k).type = dinode[k].type
    BY <2>1
  <2> QED
    BY <1>w, <2>1, <2>2, <2>3, <2>4 DEF CopyTypes
<1>10. /\ DiskTypes' /\ dinode'[i].type = TypeMade(c) /\ dinode'[i].nlink = 0
       /\ \A j \in Inodes \ {i} : dinode'[j] = dinode[j]
  <2>1. dinode \in [Inodes -> [type : InodeTypes, nlink : Nat]]
    BY <1>0 DEF TreeTypes, DiskTypes
  <2>2. TypeMade(c) \in InodeTypes
    BY DEF TypeMade, InodeTypes
  <2>3. dinode' = [dinode EXCEPT ![i] = [type |-> TypeMade(c), nlink |-> 0]]
    BY DEF c
  <2> HIDE DEF TypeMade
  <2> QED
    BY <2>1, <2>2, <2>3 DEF DiskTypes
<1>11. CopyIsDisk(k)' /\ copy'[k].valid
  <2> HIDE DEF Locked
  <2>1. dinode'[k] = dinode[k]
    BY <1>8, <1>10, <1>w
  <2> QED
    BY <1>9, <2>1 DEF CopyIsDisk
<1>12. Allocates(p, i, c)
  <2>1. ref' = [j \in Inodes |-> ref[j] + One(i = j)]
    BY <1>0, GetIs
  <2>2. ASSUME NEW j \in Inodes
        PROVE  HandSum(cwd'[p], opened'[p], syscall'[p], j)
               = HandSum(cwd[p], opened[p], syscall[p], j) + One(i = j)
    <3>1. /\ HandSum(cwd'[p], opened'[p], syscall'[p], j) =
               One(cwd[p] = j) + One(opened[p] = j) + One(k = j) + One(i = j)
               + One(NoInode = j) + One(NoInode = j)
          /\ HandSum(cwd[p], opened[p], c, j) =
               One(cwd[p] = j) + One(opened[p] = j) + One(k = j) + One(NoInode = j)
               + One(NoInode = j) + One(NoInode = j)
      BY <1>3, <1>w, <1>1, <1>6 DEF HandSum
    <3>2. /\ One(cwd[p] = j) \in Nat /\ One(opened[p] = j) \in Nat /\ One(NoInode = j) = 0
          /\ One(k = j) \in Nat /\ One(i = j) \in Nat
      BY OnesAre
    <3> QED
      BY <3>1, <3>2 DEF c
  <2>3. /\ CountsRefs(p)
        /\ \A j \in Inodes :
             /\ NumberOf(InHand[p], j) \in Nat
             /\ NumberOf(InHand'[p], j) = NumberOf(InHand[p], j) + One(i = j)
             /\ NumberOf(InHand[p], j) > 0 <=> HasRef(p, j)
             /\ HasRef(p, j)' <=> (HasRef(p, j) \/ i = j)
             /\ ref[j] \in Nat /\ ref'[j] = ref[j] + One(i = j)
    BY ONLY <1>0, <2>1, <2>2, CountsIs
  <2> QED
    BY <1>3, <1>9, <1>10, <2>3, Zenon DEF Allocates
<1>13. /\ RefsCounted' /\ NoDangling' /\ FreesAlone' /\ FreshAlone'
       /\ CopiesAgree' /\ OrphansKept' /\ FreeUnlinked'
       /\ \A j \in Inodes : ref'[j] \in Nat
  <2>1. /\ c = syscall[p] /\ k = c.cur /\ syscall'[p].at = "fill" /\ syscall'[p].op = c.op
        /\ syscall'[p].ip = i /\ ~ syscall'[p].freeing
    BY <1>3, <1>1, <1>6, <1>w DEF c
  <2> QED
    BY <1>w, <1>7, <1>8, <1>11, <1>12, <2>1, AllocHands
<1>14. LocksMove(p) /\ holder' \in [Inodes -> Callers \cup {Nobody}]
  <2>1. syscall'[p].cur = k /\ syscall'[p].at \in {"unlink", "fill"} /\ ~ syscall'[p].freeing
    BY <1>1, <1>6, <1>w
  <2> QED
    BY <1>0, <1>w, <2>1, TakesLock DEF c
<1>15. HoldersKnown'
  BY <1>0, <1>7, <1>14, HoldersStep DEF HandsInv
<1>16. HandsInv'
  BY <1>13, <1>15 DEF HandsInv
<1>17. \A n \in PathNames : entries[i][n] = NoInode
  <2>1. NamesFit /\ ParentsFit
    BY <1>0 DEF NamesInv
  <2>2. ~ IsDir(i)
    BY DEF IsDir
  <2> QED
    BY <1>8, <2>1, <2>2 DEF NamesFit, ParentsFit, PathNames
<1>18. TreeKept
  <2> SUFFICES ASSUME NEW j \in Inodes
               PROVE  \/ /\ entries'[j] = entries[j] /\ dinode'[j].type = dinode[j].type
                         /\ dinode'[j].nlink > 0 <=> dinode[j].nlink > 0
                      \/ /\ dinode[j].nlink = 0 /\ dinode'[j].nlink = 0
                         /\ \A n \in Names : entries'[j][n] = NoInode
                         /\ ~ IsDir(j)' => entries'[j][DotDot] = NoInode
    BY DEF TreeKept
  <2>1. CASE j = i
    BY <1>8, <1>10, <1>17, <2>1 DEF PathNames
  <2>2. CASE j # i
    BY <1>10, <2>2
  <2> QED
    BY <2>1, <2>2
<1>19. NamesFit' /\ ParentsFit' /\ RootStays' /\ IsTree'
  BY <1>0, <1>18, TreeStep
<1>20. LinksCounted'
  <2>1. \A j : ~ IsLinkCallTo(p, j) /\ ~ IsLinkCallTo(p, j)'
    BY <1>1, <1>3, <1>6 DEF IsLinkCallTo, c
  <2>2. ASSUME NEW j \in Inodes
        PROVE  dinode'[j].nlink = dinode[j].nlink /\ dinode'[j].nlink \in Int
    <3>1. dinode'[j].nlink \in Int
      BY <1>10 DEF DiskTypes
    <3> QED
      BY <1>8, <1>10, <3>1
  <2>3. \A j \in Inodes :
          dinode'[j].nlink + One(IsLinkCallTo(p, j))
               = dinode[j].nlink + One(IsLinkCallTo(p, j)')
             /\ dinode'[j].nlink \in Int
    BY <2>1, <2>2 DEF One
  <2> QED
    BY <1>0, <1>7, <1>18, <2>3, LinksStep
<1>21. NamesInv'
  BY <1>19, <1>20 DEF NamesInv
<1>22. PlaceFits(p)'
  <2>1. /\ Live(cwd[p])' /\ Live(k)' /\ cwd'[p] = cwd[p]
    <3>1. cwd[p] \in Inodes /\ cwd[p] # i
      BY <1>0, <1>8, <1>w DEF OtherTypes
    <3>2. dinode'[cwd[p]] = dinode[cwd[p]] /\ dinode'[k] = dinode[k]
      BY <1>8, <1>10, <1>w, <3>1
    <3> QED
      BY <1>w, <3>2 DEF Live, IsDir
  <2>2. entries'[k][Head(c.path)] = NoInode
    BY DEF c
  <2> QED
    BY <1>1, <1>3, <1>6, <1>11, <2>1, <2>2 DEF PlaceFits, Live, IsDir
<1>23. PlacesFit'
  <2>1. ASSUME NEW q \in Callers \ {p}, NEW j \in Inodes
        PROVE  /\ j \in {cwd[q], syscall[q].cur, syscall[q].ip} =>
                    dinode'[j].type = dinode[j].type /\ (Live(j) => Live(j)')
               /\ LocksInode(q, j) => entries'[j] = entries[j] /\ (copy[j].valid => copy'[j].valid)
    <3>1. ASSUME j \in {cwd[q], syscall[q].cur, syscall[q].ip}
          PROVE  j # i
      <4> SUFFICES ASSUME j = i PROVE FALSE
        OBVIOUS
      <4>1. HasRef(q, i)
        BY <3>1, HandsNow
      <4>2. Frees(q, i)
        BY <1>0, <4>1 DEF HandsInv, NoDangling
      <4> QED
        BY <3>1, <4>2, FreesOnce
    <3>2. j # i => dinode'[j] = dinode[j]
      BY <1>10
    <3>3. copy[j].valid => copy'[j].valid
      BY <1>9, <1>11
    <3> QED
      BY <3>1, <3>2, <3>3 DEF Live, IsDir
  <2> QED
    BY <1>0, <1>7, <1>22, <2>1, PlacesStep
<1>24. RemoverAlone'
  <2>1. ~ Removes(syscall'[p]) /\ syscall[p].op # "none" /\ cwd'[p] = cwd[p]
    BY <1>1, <1>3, <1>6 DEF Removes, c
  <2> QED
    BY <1>0, <1>7, <2>1, RemoverStep
<1>25. TreeTypes'
  <2>1. OtherTypes'
    <3>1. ref' = [j \in Inodes |-> ref'[j]]
      BY <1>0, GetIs
    <3>2. ref' \in [Inodes -> Nat]
      BY <1>13, <3>1
    <3> QED
      BY <1>0, <1>14, <3>2 DEF OtherTypes
  <2>2. EntryTypes'
    BY <1>0 DEF TreeTypes, EntryTypes
  <2> QED
    BY <1>6, <1>9, <1>10, <2>1, <2>2 DEF TreeTypes
<1> QED
  BY <1>16, <1>21, <1>23, <1>24, <1>25 DEF TreeInv

LEMMA CreateLookStep ==
    ASSUME TreeInv, NEW p \in Callers, CreateLook(p)
    PROVE  TreeInv'
<1> DEFINE c == syscall[p]
           old == entries[c.cur][Head(c.path)]
<1>1. /\ c.op \in {"create", "mkdir"} /\ c.at = "parent" /\ c.puts = <<>> /\ CanLock(c.cur)
      /\ copy' = [copy EXCEPT ![c.cur] = Locked(c.cur)]
      /\ UNCHANGED <<entries, opened, cwd>>
  BY Zenon DEF CreateLook, Reached
<1>2. CASE /\ old # NoInode /\ Get(old)
           /\ Continue(p, [c EXCEPT !.at = "existing", !.ip = old, !.cur = NoInode,
                                    !.puts = <<c.cur>>])
           /\ UNCHANGED <<dinode, holder>>
  <2>1. JustRead(c.cur)
    BY <1>1, <1>2 DEF JustRead
  <2> HIDE DEF old
  <2>2. old = entries[c.cur][Head(c.path)]
    BY DEF old
  <2> QED
    BY <1>1, <1>2, <2>1, <2>2, LookFound, Zenon
<1>3. ASSUME NEW i \in FreeInodes, old = NoInode,
             dinode' = [dinode EXCEPT ![i] = [type |-> TypeMade(c), nlink |-> 0]],
             Get(i), holder' = [holder EXCEPT ![c.cur] = p],
             Continue(p, [c EXCEPT !.at = "fill", !.ip = i])
      PROVE  TreeInv'
  <2>1. i \in Inodes /\ dinode[i].type = "free"
    BY <1>3 DEF FreeInodes
  <2> QED
    BY <1>1, <1>3, <2>1, LookAlloc, Zenon
<1>4. CASE Return(p, <<c.cur>>) /\ UNCHANGED <<dinode, ref, holder>>
  <2>1. JustRead(c.cur)
    BY <1>1, <1>4 DEF JustRead
  <2>2. NotFound(p, c)
    <3>1. c.op # "newlink"
      BY <1>1
    <3> QED
      BY <1>4, <3>1, Zenon DEF NotFound
  <2> QED
    BY <1>1, <1>4, <2>1, <2>2, NotFoundStep
<1> QED
  BY <1>2, <1>3, <1>4, Zenon DEF CreateLook, Name

\* create with the directory locked, and an inode that only it will fill.
LEMMA FillIs ==
    ASSUME TreeInv, NEW p \in Callers, syscall[p].at = "fill", CanLock(syscall[p].ip)
    PROVE  LET c == syscall[p]
           IN /\ c.cur \in Inodes /\ c.ip \in Inodes /\ c.op \in {"create", "mkdir"}
              /\ c.puts = <<>> /\ ~ c.freeing /\ c.cur # c.ip
              /\ HasRef(p, c.cur) /\ HasRef(p, c.ip) /\ holder[c.cur] = p
              /\ \A q \in Callers \ {p} : ~ LocksInode(q, c.cur) /\ ~ Frees(q, c.ip)
              /\ Live(cwd[p]) /\ cwd[p] \in Inodes /\ Live(c.cur)
              /\ opened[p] \in Inodes \cup {NoInode}
              /\ Head(c.path) \in Names /\ entries[c.cur][Head(c.path)] = NoInode
              /\ c.op = "mkdir" => Head(c.path) \in DirNames
              /\ c.op = "create" => Head(c.path) \in FileNames
              /\ dinode[c.ip].type = TypeMade(c) /\ dinode[c.ip].nlink = 0
              /\ \A j : ~ Frees(p, j) /\ (IsFresh(p, j) <=> j = c.ip)
                        /\ (LocksInode(p, j) <=> j = c.cur)
              /\ IsCopy(copy[c.cur]) /\ copy[c.cur].type = dinode[c.cur].type
              /\ copy[c.cur].nlink = dinode[c.cur].nlink
              /\ NextPut(c.puts) = NoInode /\ LastPut(c.puts) = NoInode
<1> DEFINE c == syscall[p]
<1>0. /\ (c.freeing => c.puts # <<>>) /\ CallShape(c) /\ PlaceFits(p) /\ CallPath(c)
      /\ cwd[p] \in Inodes /\ TreeTypes /\ HandsInv /\ opened[p] \in Inodes \cup {NoInode}
      /\ HoldersKnown /\ CopiesAgree /\ DiskTypes /\ FreshAlone
  BY CallIs DEF TreeInv, HandsInv, TreeTypes
<1>1. c.cur \in Inodes /\ c.ip \in Inodes /\ c.op \in {"create", "mkdir"} /\ c.puts = <<>>
      /\ ~ c.freeing
  BY <1>0 DEF CallShape
<1>2. HasRef(p, c.cur) /\ HasRef(p, c.ip)
  BY HandsNow
<1>3. \A j : ~ Frees(p, j) /\ (IsFresh(p, j) <=> j = c.ip) /\ (LocksInode(p, j) <=> j = c.cur)
  BY <1>1 DEF Frees, IsFresh, LocksInode
<1>4. holder[c.cur] = p
  BY <1>0, <1>1, <1>3 DEF HoldersKnown
<1>5. c.cur # c.ip
  BY <1>4, FileTreeAssumption DEF CanLock
<1>6. \A q \in Callers \ {p} : ~ LocksInode(q, c.cur) /\ ~ Frees(q, c.cur)
  BY <1>0, <1>1, <1>4, NotFreed
<1>i. \A q \in Callers \ {p} : ~ Frees(q, c.ip)
  <2>1. holder[c.ip] \in {p, Nobody}
    BY DEF CanLock
  <2> QED
    BY <1>0, <1>1, <2>1, NotFreed
<1>7. /\ Live(cwd[p]) /\ Live(c.cur) /\ entries[c.cur][Head(c.path)] = NoInode
      /\ copy[c.cur].valid
  BY <1>0 DEF PlaceFits
<1>8. /\ c.op = "mkdir" => Head(c.path) \in DirNames
      /\ c.op = "create" => Head(c.path) \in FileNames
  <2>1. /\ c.path \in Seq(PathNames) /\ c.path # <<>> /\ Len(c.path) = 1
        /\ c.op = "mkdir" => LastOf(c.path) \in DirNames
        /\ c.op = "create" => LastOf(c.path) \in FileNames
    BY <1>0 DEF CallPath
  <2>2. LastOf(c.path) = Head(c.path)
    BY <2>1, PathEnds
  <2> HIDE DEF c
  <2> QED
    BY <2>1, <2>2
<1>9. Head(c.path) \in Names
  BY <1>1, <1>8 DEF Names
<1>10. dinode[c.ip].type = TypeMade(c) /\ dinode[c.ip].nlink = 0
  BY <1>0, <1>1, <1>3 DEF FreshAlone
<1>12. CopyIsDisk(c.cur)
  <2>1. \A q \in Callers : ~ Frees(q, c.cur)
    BY <1>3, <1>6
  <2> QED
    BY <1>0, <1>1, <1>7, <2>1 DEF CopiesAgree
<1>13. /\ IsCopy(copy[c.cur]) /\ copy[c.cur].type = dinode[c.cur].type
       /\ copy[c.cur].nlink = dinode[c.cur].nlink
  <2>1. dinode[c.cur].type \in InodeTypes /\ dinode[c.cur].nlink \in Nat
    BY <1>0, <1>1 DEF DiskTypes
  <2>2. IsCopy(copy[c.cur])
    BY <1>12, <2>1, Zenon DEF CopyIsDisk, IsCopy
  <2> QED
    BY <1>12, <2>2 DEF CopyIsDisk
<1>14. NextPut(c.puts) = NoInode /\ LastPut(c.puts) = NoInode
  BY <1>1, PutsAre
<1> QED
  BY <1>0, <1>1, <1>2, <1>3, <1>4, <1>5, <1>6, <1>i, <1>7, <1>8, <1>9, <1>10, <1>13, <1>14

\* Of the directory and the new inode it keeps or puts each.
HandsOn(p, s, k, i) ==
    \A j \in Inodes :
      One(opened'[p] = j) + One(NextPut(s) = j) + One(LastPut(s) = j)
      = One(opened[p] = j) + One(k = j) + One(i = j)

\* It lets go of the directory.
LEMMA FillEnds ==
    ASSUME TreeInv, NEW p \in Callers, syscall[p].at = "fill", CanLock(syscall[p].ip),
           NEW k, NEW i, k = syscall[p].cur, i = syscall[p].ip,
           NEW s \in PutLists, Return(p, s),
           holder' = [holder EXCEPT ![k] = Nobody], Touches(p), copy'[i].valid,
           \A q \in Callers \ {p} : opened'[q] = opened[q],
           opened' \in [Callers -> Inodes \cup {NoInode}],
           HandsOn(p, s, k, i),
           UNCHANGED <<ref, cwd>>
    PROVE  /\ Moves(p) /\ LocksMove(p) /\ CallTypes' /\ RemoverAlone' /\ Others(p)
           /\ cwd' \in [Callers -> Inodes]
           /\ holder' \in [Inodes -> Callers \cup {Nobody}]
           /\ ref' = [j \in Inodes |-> ref'[j]]
           /\ \A j : ~ IsLinkCallTo(p, j) /\ ~ IsLinkCallTo(p, j)'
           /\ Live(cwd[p])' => PlaceFits(p)'
<1> DEFINE c == syscall[p]
           e == Returned(s)
<1>0. /\ CallTypes /\ OtherTypes /\ TreeTypes /\ HandsInv
      /\ RemoverAlone /\ HoldersKnown
  BY CallIs DEF TreeInv, TreeTypes, HandsInv
<1>w. /\ k \in Inodes /\ i \in Inodes /\ c.op \in {"create", "mkdir"} /\ c.puts = <<>>
      /\ ~ c.freeing /\ holder[k] = p
      /\ \A q \in Callers \ {p} : ~ Frees(q, i)
      /\ \A j : ~ Frees(p, j) /\ (IsFresh(p, j) <=> j = i) /\ (LocksInode(p, j) <=> j = k)
      /\ NextPut(c.puts) = NoInode /\ LastPut(c.puts) = NoInode
  BY FillIs
<1>2. Continue(p, Returned(s))
  BY Zenon DEF Return, Returned
<1>3. /\ IsCall(e) /\ e.op = "none" /\ e.at = "end" /\ e.cur = NoInode /\ e.ip = NoInode
      /\ e.puts = s /\ Outside(e) /\ ~ Removes(e) /\ ~ e.freeing
  BY ReturnedIs
<1> HIDE DEF e
<1>6. CallTypes' /\ syscall'[p] = e /\ \A q \in Callers \ {p} : syscall'[q] = syscall[q]
  BY <1>0, <1>2, <1>3, CallStep DEF e
<1>7. Others(p)
  BY <1>6 DEF Others
<1>8. Gets(p, NoInode)
  <2>1. ref' = [j \in Inodes |-> ref[j] + One(NoInode = j)]
    BY <1>0, GetsNone
  <2> SUFFICES ASSUME NEW j \in Inodes
               PROVE  HandSum(cwd'[p], opened'[p], syscall'[p], j)
                      = HandSum(cwd[p], opened[p], syscall[p], j) + One(NoInode = j)
    BY <2>1 DEF Gets
  <2>2. /\ HandSum(cwd'[p], opened'[p], syscall'[p], j) =
             One(cwd[p] = j) + One(opened'[p] = j) + One(NoInode = j) + One(NoInode = j)
             + One(NextPut(s) = j) + One(LastPut(s) = j)
        /\ HandSum(cwd[p], opened[p], syscall[p], j) =
             One(cwd[p] = j) + One(opened[p] = j) + One(k = j) + One(i = j)
             + One(NoInode = j) + One(NoInode = j)
    BY <1>3, <1>6, <1>w DEF HandSum
  <2>3. /\ One(cwd[p] = j) \in Nat /\ One(opened[p] = j) \in Nat /\ One(NoInode = j) = 0
        /\ One(i = j) \in Nat /\ One(k = j) \in Nat /\ One(opened'[p] = j) \in Nat
        /\ One(NextPut(s) = j) \in Nat /\ One(LastPut(s) = j) \in Nat
    BY <1>w, OnesAre
  <2>4. One(opened'[p] = j) + One(NextPut(s) = j) + One(LastPut(s) = j)
             = One(opened[p] = j) + One(k = j) + One(i = j)
    BY DEF HandsOn
  <2> DEFINE a == One(cwd[p] = j)
             b == One(opened[p] = j)
             d == One(opened'[p] = j)
             u == One(NextPut(s) = j)
             v == One(LastPut(s) = j)
             x == One(k = j)
             y == One(i = j)
             z == One(NoInode = j)
             t == HandSum(cwd[p], opened[p], syscall[p], j)
             tt == HandSum(cwd'[p], opened'[p], syscall'[p], j)
  <2>5. /\ tt = a + d + z + z + u + v /\ t = a + b + x + y + z + z /\ z = 0
        /\ a \in Nat /\ b \in Nat /\ d \in Nat /\ u \in Nat /\ v \in Nat /\ x \in Nat
        /\ y \in Nat /\ d + u + v = b + x + y
    BY <2>2, <2>3, <2>4
  <2> HIDE DEF a, b, d, u, v, x, y, z, t, tt
  <2>6. tt = t + z
    BY ONLY <2>5
  <2> QED
    BY <2>6 DEF tt, t, z
<1>9. FindsLinked(p) /\ CountsRefs(p) /\ ref' = [j \in Inodes |-> ref'[j]]
  BY <1>0, <1>8, GetsIs
<1>10. Moves(p)
  <2>1. \A j : ~ Frees(p, j)' /\ ~ IsFresh(p, j)' /\ ~ LocksInode(p, j)'
    BY <1>3, <1>6, OutsideHolds
  <2>2. \A q \in Callers \ {p} : \A j \in Inodes : Frees(q, j) => ~ HasRef(p, j)
    BY <1>0, <1>w DEF HandsInv, FreesAlone
  <2> QED
    BY <1>7, <1>9, <1>w, <2>1, <2>2 DEF Moves
<1>11. LocksMove(p)
  <2>1. \A j : ~ LocksInode(p, j)'
    BY <1>3, <1>6, OutsideHolds
  <2>2. \A j \in Inodes : holder'[j] = IF j = k THEN Nobody ELSE holder[j]
    BY <1>0, <1>w DEF OtherTypes
  <2> HIDE DEF LocksInode
  <2> QED
    BY <1>w, <2>1, <2>2 DEF LocksMove
<1>12. RemoverAlone'
  BY <1>0, <1>3, <1>6, <1>7, <1>w, RemoverStep
<1>13. \A j : ~ IsLinkCallTo(p, j) /\ ~ IsLinkCallTo(p, j)'
  BY <1>3, <1>6, <1>w DEF IsLinkCallTo
<1>14. Live(cwd[p])' => PlaceFits(p)'
  BY <1>3, <1>6 DEF PlaceFits
<1>15. cwd' \in [Callers -> Inodes] /\ holder' \in [Inodes -> Callers \cup {Nobody}]
  BY <1>0 DEF OtherTypes
<1> QED
  BY <1>6, <1>7, <1>9, <1>10, <1>11, <1>12, <1>13, <1>14, <1>15

\* The disk is full: the inode goes back.
LEMMA FillFails ==
    ASSUME TreeInv, NEW p \in Callers, syscall[p].at = "fill", CanLock(syscall[p].ip),
           NEW k, NEW i, k = syscall[p].cur, i = syscall[p].ip,
           Update(Only(i, WithLinks(WithLinks(Locked(i), 1), 0))),
           Return(p, <<i, k>>), holder' = [holder EXCEPT ![k] = Nobody],
           UNCHANGED <<ref, opened, cwd, entries>>
    PROVE  TreeInv'
<1>0. /\ TreeTypes /\ HandsInv /\ PlacesFit /\ OtherTypes /\ EntryTypes
  BY DEF TreeInv, TreeTypes
<1>w. /\ i \in Inodes /\ k \in Inodes /\ CanLock(i) /\ HasRef(p, i) /\ HasRef(p, k)
      /\ Live(cwd[p]) /\ cwd[p] \in Inodes /\ dinode[i].nlink = 0
  BY FillIs
<1>1. /\ DiskTypes' /\ CopyTypes' /\ Touches(p) /\ copy'[i].valid
      /\ dinode'[i].type = dinode[i].type /\ dinode'[i].nlink = 0
      /\ \A j \in Inodes \ {i} : dinode'[j] = dinode[j] /\ copy'[j] = copy[j]
  <2> DEFINE x == WithLinks(Locked(i), 1)
             y == WithLinks(x, 0)
  <2>1. IsCopy(Locked(i)) /\ Locked(i).type = dinode[i].type
    BY <1>0, <1>w, LockedCopy
  <2>2. IsCopy(x) /\ x.type = dinode[i].type
    BY <2>1, WithLinksIs
  <2> HIDE DEF x
  <2>3. IsCopy(y) /\ y.type = dinode[i].type /\ y.nlink = 0
    BY <2>2, WithLinksIs
  <2>4. Update(Only(i, y))
    BY DEF x
  <2> HIDE DEF y
  <2> QED
    BY <1>0, <1>w, <2>3, <2>4, CountOf
<1>2. \A j \in Inodes : /\ dinode'[j].type = dinode[j].type /\ dinode'[j].nlink = dinode[j].nlink
                        /\ copy[j].valid => copy'[j].valid
                        /\ Live(j)' <=> Live(j)
  BY <1>1, <1>w DEF Live, IsDir
<1>s. <<i, k>> \in PutLists /\ NextPut(<<i, k>>) = i /\ LastPut(<<i, k>>) = k
  BY <1>w, PutsAre
<1>3. /\ Moves(p) /\ LocksMove(p) /\ CallTypes' /\ RemoverAlone' /\ Others(p)
      /\ cwd' \in [Callers -> Inodes]
      /\ holder' \in [Inodes -> Callers \cup {Nobody}]
      /\ ref' = [j \in Inodes |-> ref'[j]]
      /\ \A j : ~ IsLinkCallTo(p, j) /\ ~ IsLinkCallTo(p, j)'
      /\ Live(cwd[p])' => PlaceFits(p)'
  <2>1. ASSUME NEW j \in Inodes
        PROVE  One(opened'[p] = j) + One(NextPut(<<i, k>>) = j) + One(LastPut(<<i, k>>) = j)
               = One(opened[p] = j) + One(k = j) + One(i = j)
    <3>1. opened' = opened /\ One(opened[p] = j) \in Nat /\ One(k = j) \in Nat /\ One(i = j) \in Nat
      BY OnesAre
    <3> QED
      BY <1>s, <3>1
  <2>2. opened' \in [Callers -> Inodes \cup {NoInode}]
    BY <1>0 DEF OtherTypes
  <2>3. \A q \in Callers \ {p} : opened'[q] = opened[q]
    OBVIOUS
  <2> DEFINE s == <<i, k>>
  <2>4. s \in PutLists /\ Return(p, s)
        /\ HandsOn(p, s, k, i)
    BY <1>s, <2>1 DEF HandsOn
  <2> HIDE DEF s
  <2>5. /\ TreeInv /\ p \in Callers /\ syscall[p].at = "fill" /\ CanLock(syscall[p].ip)
        /\ k = syscall[p].cur /\ i = syscall[p].ip /\ s \in PutLists /\ Return(p, s)
        /\ holder' = [holder EXCEPT ![k] = Nobody] /\ Touches(p) /\ copy'[i].valid
        /\ \A q \in Callers \ {p} : opened'[q] = opened[q]
        /\ opened' \in [Callers -> Inodes \cup {NoInode}]
        /\ HandsOn(p, s, k, i) /\ UNCHANGED <<ref, cwd>>
    BY <1>1, <2>2, <2>3, <2>4
  <2> QED
    BY ONLY <2>5, FillEnds
<1>4. TreeKept
  BY <1>2 DEF TreeKept
<1>5. PlaceFits(p)'
  BY <1>2, <1>3, <1>w
<1>6. PlacesFit'
  BY <1>0, <1>2, <1>3, <1>5, PlacesStep
<1>7. \A j \in Inodes : dinode'[j].nlink + One(IsLinkCallTo(p, j))
                             = dinode[j].nlink + One(IsLinkCallTo(p, j)')
  BY <1>2, <1>3 DEF One
<1>8. EntryTypes' /\ opened' \in [Callers -> Inodes \cup {NoInode}]
  BY <1>0 DEF EntryTypes, OtherTypes
<1> QED
  BY <1>1, <1>3, <1>4, <1>6, <1>7, <1>8, KeepStep

\* A new file gets its name and its link.
LEMMA FillFile ==
    ASSUME TreeInv, NEW p \in Callers, syscall[p].at = "fill", CanLock(syscall[p].ip),
           syscall[p].op # "mkdir",
           NEW k, NEW i, NEW n, k = syscall[p].cur, i = syscall[p].ip,
           n = Head(syscall[p].path),
           Update([j \in {k, i} |-> IF j = i THEN WithLinks(Locked(i), 1) ELSE copy[k]]),
           entries' = [entries EXCEPT ![k][n] = i, ![i][DotDot] = NoInode],
           Opened(p, i, <<k>>), holder' = [holder EXCEPT ![k] = Nobody],
           UNCHANGED <<ref, cwd>>
    PROVE  TreeInv'
<1> DEFINE ch == [j \in {k, i} |-> IF j = i THEN WithLinks(Locked(i), 1) ELSE copy[k]]
<1>0. /\ TreeTypes /\ HandsInv /\ DiskTypes /\ EntryTypes /\ PlacesFit /\ OtherTypes
      /\ ParentsFit
  BY DEF TreeInv, TreeTypes, NamesInv
<1>w. /\ i \in Inodes /\ k \in Inodes /\ CanLock(i) /\ HasRef(p, i) /\ HasRef(p, k)
      /\ Live(cwd[p]) /\ cwd[p] \in Inodes /\ i # k /\ Live(k) /\ n \in FileNames
      /\ entries[k][n] = NoInode /\ dinode[i].nlink = 0 /\ dinode[i].type = "file"
      /\ opened[p] \in Inodes \cup {NoInode}
      /\ IsCopy(copy[k]) /\ copy[k].type = dinode[k].type /\ copy[k].nlink = dinode[k].nlink
      /\ \A q \in Callers \ {p} : ~ LocksInode(q, k)
  BY FillIs, Zenon DEF TypeMade
<1>1. n \in Names /\ n \in PathNames /\ DotDot \in PathNames /\ n # DotDot
  BY <1>w, FileTreeAssumption DEF Names, PathNames
<1>3. /\ DOMAIN ch = {k, i} /\ ch[k] = copy[k]
      /\ IsCopy(ch[i]) /\ ch[i].type = dinode[i].type /\ ch[i].nlink = 1
  <2>1. DOMAIN ch = {k, i} /\ ch[k] = copy[k]
        /\ ch[i] = WithLinks(Locked(i), 1)
    BY <1>w
  <2>2. IsCopy(Locked(i)) /\ Locked(i).type = dinode[i].type
    BY <1>0, <1>w, LockedCopy
  <2> HIDE DEF ch
  <2> QED
    BY <2>1, <2>2, WithLinksIs
<1>4. Update(ch)
  OBVIOUS
<1> HIDE DEF ch
<1>5. /\ DiskTypes' /\ CopyTypes'
      /\ \A j \in Inodes \ {k, i} : copy'[j] = copy[j] /\ dinode'[j] = dinode[j]
      /\ \A j \in {k, i} : /\ dinode'[j].type = ch[j].type /\ dinode'[j].nlink = ch[j].nlink
                           /\ CopyIsDisk(j)' /\ copy'[j].valid
  BY ONLY <1>0, <1>3, <1>4, <1>w, UpdateIs
<1>6. /\ \A j \in Inodes : dinode'[j].type = dinode[j].type
      /\ \A j \in Inodes \ {i} : dinode'[j].nlink = dinode[j].nlink
      /\ dinode'[i].nlink = 1 /\ copy'[i].valid
      /\ \A j \in Inodes : copy[j].valid => copy'[j].valid
  BY ONLY <1>3, <1>5, <1>w
<1>7. Touches(p)
  BY ONLY <1>5, <1>6, <1>w DEF Touches
<1>t. /\ opened' \in [Callers -> Inodes \cup {NoInode}]
      /\ \A q \in Callers \ {p} : opened'[q] = opened[q]
      /\ \E s \in PutLists : Return(p, s) /\ HandsOn(p, s, k, i)
  <2>1. CASE opened[p] = NoInode
    <3>1. opened' = [opened EXCEPT ![p] = i] /\ Return(p, <<k>>)
      BY <2>1, Zenon DEF Opened
    <3>2. opened \in [Callers -> Inodes \cup {NoInode}]
      BY <1>0 DEF OtherTypes
    <3>3. <<k>> \in PutLists /\ NextPut(<<k>>) = NoInode /\ LastPut(<<k>>) = k
      BY <1>w, PutsAre
    <3>4. opened'[p] = i /\ opened' \in [Callers -> Inodes \cup {NoInode}]
          /\ \A q \in Callers \ {p} : opened'[q] = opened[q]
      BY <1>w, <3>1, <3>2
    <3>5. HandsOn(p, <<k>>, k, i)
      <4> SUFFICES ASSUME NEW j \in Inodes
                   PROVE  One(opened'[p] = j) + One(NextPut(<<k>>) = j) + One(LastPut(<<k>>) = j)
                          = One(opened[p] = j) + One(k = j) + One(i = j)
        BY DEF HandsOn
      <4>1. One(k = j) \in Nat /\ One(i = j) \in Nat /\ One(NoInode = j) = 0
        BY OnesAre
      <4> QED
        BY <2>1, <3>3, <3>4, <4>1
    <3> QED
      BY <3>1, <3>3, <3>4, <3>5
  <2>2. CASE opened[p] # NoInode
    <3>1. opened' = opened /\ Return(p, <<k, i>>)
      <4>1. Append(<<k>>, i) = <<k, i>>
        BY ONLY <1>w, PutsAre, Zenon
      <4>2. opened' = opened /\ Return(p, Append(<<k>>, i))
        BY <2>2, Zenon DEF Opened
      <4> QED
        BY <4>1, <4>2
    <3>2. <<k, i>> \in PutLists /\ NextPut(<<k, i>>) = k /\ LastPut(<<k, i>>) = i
      BY <1>w, PutsAre
    <3>3. HandsOn(p, <<k, i>>, k, i)
      <4> SUFFICES ASSUME NEW j \in Inodes
                   PROVE  One(opened'[p] = j) + One(NextPut(<<k, i>>) = j)
                          + One(LastPut(<<k, i>>) = j)
                          = One(opened[p] = j) + One(k = j) + One(i = j)
        BY DEF HandsOn
      <4>1. One(k = j) \in Nat /\ One(i = j) \in Nat /\ One(opened[p] = j) \in Nat
        BY OnesAre
      <4> QED
        BY <3>1, <3>2, <4>1
    <3> QED
      BY <1>0, <3>1, <3>2, <3>3 DEF OtherTypes
  <2> QED
    BY <2>1, <2>2
<1>8. /\ Moves(p) /\ LocksMove(p) /\ CallTypes' /\ RemoverAlone' /\ Others(p)
      /\ cwd' \in [Callers -> Inodes]
      /\ holder' \in [Inodes -> Callers \cup {Nobody}]
      /\ ref' = [j \in Inodes |-> ref'[j]]
      /\ \A j : ~ IsLinkCallTo(p, j) /\ ~ IsLinkCallTo(p, j)'
      /\ Live(cwd[p])' => PlaceFits(p)'
  <2>1. PICK s \in PutLists : Return(p, s) /\ HandsOn(p, s, k, i)
    BY <1>t
  <2> QED
    BY <1>6, <1>7, <1>t, <2>1, FillEnds, Zenon
<1>9. \A j \in Inodes : (Live(j)' <=> Live(j)) /\ (IsDir(j) => dinode'[j].nlink = dinode[j].nlink)
  BY <1>6, <1>w DEF Live, IsDir
<1>10. PlaceFits(p)'
  BY <1>8, <1>9, <1>w
<1>11. NameSet(k, n, i) /\ EntryTypes' /\ \A j \in Inodes \ {k} : entries'[j] = entries[j]
  <2>1. entries[i][DotDot] = NoInode
    BY <1>0, <1>w DEF ParentsFit, IsDir
  <2>2. entries \in [Inodes -> [PathNames -> Inodes \cup {NoInode}]]
    BY <1>0 DEF EntryTypes
  <2>3. \A j \in Inodes \ {k} : entries'[j] = entries[j]
    BY <1>1, <1>w, <2>1, <2>2
  <2>4. \A m \in PathNames : entries'[k][m] = IF m = n THEN i ELSE entries[k][m]
    BY <1>1, <1>w, <2>2, Zenon
  <2>5. EntryTypes'
    BY <1>1, <1>w, <2>2, Zenon DEF EntryTypes
  <2> QED
    BY ONLY <2>3, <2>4, <2>5 DEF NameSet
<1>12. NamesInv'
  <2>1. \A j \in Inodes :
             dinode'[j].nlink + One(IsLinkCallTo(p, j)) + One(entries[k][n] = j)
             = dinode[j].nlink + One(IsLinkCallTo(p, j)') + One(i = j)
    <3> TAKE j \in Inodes
    <3>1. One(IsLinkCallTo(p, j)) = 0 /\ One(IsLinkCallTo(p, j)') = 0
          /\ One(entries[k][n] = j) = 0
      BY ONLY <1>8, <1>w, InodesAre DEF One
    <3>2. dinode'[j].nlink = dinode[j].nlink + One(i = j)
          /\ dinode[j].nlink \in Nat /\ dinode'[j].nlink \in Nat /\ One(i = j) \in Nat
      BY ONLY <1>0, <1>5, <1>6, <1>w DEF One, DiskTypes
    <3> HIDE DEF IsLinkCallTo
    <3> QED
      BY ONLY <3>1, <3>2
  <2>2. /\ \A j \in Inodes : IsDir(j) => dinode'[j].nlink = dinode[j].nlink
        /\ \A j \in Inodes : dinode'[j].type = dinode[j].type
        /\ DiskTypes' /\ Others(p) /\ Live(k) /\ NameSet(k, n, i)
        /\ p \in Callers /\ k \in Inodes /\ n \in FileNames /\ TreeInv
        /\ i \in Inodes \cup {NoInode} /\ dinode[i].type = "file"
    BY <1>5, <1>6, <1>8, <1>9, <1>11, <1>w, Zenon
  <2> QED
    BY ONLY <2>1, <2>2, FilesStep
<1>13. PlacesFit'
  <2>1. \A q \in Callers \ {p} : \A j \in Inodes :
             /\ j \in {cwd[q], syscall[q].cur, syscall[q].ip} =>
                  dinode'[j].type = dinode[j].type /\ (Live(j) => Live(j)')
             /\ LocksInode(q, j) => entries'[j] = entries[j] /\ (copy[j].valid => copy'[j].valid)
    BY ONLY <1>6, <1>9, <1>11, <1>w
  <2>2. p \in Callers /\ Others(p) /\ PlacesFit /\ TreeTypes /\ PlaceFits(p)'
    BY <1>0, <1>8, <1>10
  <2> QED
    BY ONLY <2>1, <2>2, PlacesStep
<1> QED
  BY <1>5, <1>8, <1>11, <1>12, <1>13, <1>t, MoveInv, Zenon

\* The tree with a new directory i, that is n in k.
LEMMA DirMade ==
    ASSUME TreeInv, NEW p \in Callers, Others(p), NEW k \in Inodes, NEW i \in Inodes,
           NEW n \in DirNames, entries[k][n] = NoInode, Live(k), i # k,
           dinode[i].type = "dir", dinode[i].nlink = 0,
           \A j \in Inodes : \A m \in PathNames :
             entries'[j][m] = IF j = k /\ m = n THEN i
                              ELSE IF j = i /\ m = DotDot THEN k ELSE entries[j][m],
           DiskTypes', \A j \in Inodes : dinode'[j].type = dinode[j].type,
           dinode'[i].nlink = 1, dinode'[k].nlink = dinode[k].nlink + 1,
           \A j \in Inodes \ {i, k} : dinode'[j].nlink = dinode[j].nlink,
           \A j : ~ IsLinkCallTo(p, j) /\ ~ IsLinkCallTo(p, j)'
    PROVE  NamesInv' /\ \A j \in Inodes : Live(j) => Live(j)'
<1>0. /\ NamesFit /\ ParentsFit /\ RootStays /\ LinksCounted /\ IsTree /\ DiskTypes /\ EntryTypes
  BY DEF TreeInv, NamesInv, TreeTypes
<1>1. /\ n \in Names /\ n \in PathNames /\ n # DotDot /\ DotDot \in PathNames /\ n \notin FileNames
      /\ \A m \in DirNames : m \in PathNames /\ m \in Names /\ m # DotDot
      /\ \A m \in Names : m \in PathNames /\ m # DotDot
  BY FileTreeAssumption DEF Names, PathNames
<1>r. Root \in Inodes /\ \A j \in Inodes : j # NoInode
  BY InodesAre
<1>n. /\ dinode[k].nlink > 0 /\ dinode'[k].nlink > 0 /\ dinode'[i].nlink > 0
      /\ ~ (dinode[i].nlink > 0)
      /\ \A j \in Inodes : dinode[j].nlink \in Nat /\ dinode'[j].nlink \in Nat
  BY <1>0 DEF DiskTypes, Live
<1>e. /\ ~ Live(i) /\ i # Root
      /\ \A m \in Names : entries[i][m] = NoInode
      /\ \A j \in Inodes : \A m \in Names : entries[j][m] # i
      /\ \A j \in Inodes : Live(j) => entries[j][DotDot] # i
  <2>1. ~ Live(i) /\ i # Root
    BY <1>0, <1>n DEF Live, RootStays
  <2>2. \A m \in Names : entries[i][m] = NoInode
    BY <1>0, <2>1 DEF NamesFit
  <2>3. \A j \in Inodes : \A m \in Names : entries[j][m] # i
    BY <1>0, <1>n, <1>r, NameLinks
  <2>4. \A j \in Inodes : Live(j) => entries[j][DotDot] # i
    BY <1>0, <2>1 DEF ParentsFit
  <2> QED
    BY <2>1, <2>2, <2>3, <2>4
<1>2. /\ \A j \in Inodes : \A m \in Names :
           entries'[j][m] = IF j = k /\ m = n THEN i ELSE entries[j][m]
      /\ \A j \in Inodes \ {i} : entries'[j][DotDot] = entries[j][DotDot]
      /\ entries'[i][DotDot] = k
  BY <1>1
<1>3. /\ \A j \in Inodes \ {i} : Live(j)' <=> Live(j)
      /\ \A j \in Inodes : IsDir(j)' <=> IsDir(j)
      /\ Live(i)' /\ Live(k)' /\ IsDir(i)
      /\ \A j \in Inodes \ {i} : dinode'[j].nlink > 0 <=> dinode[j].nlink > 0
  BY <1>n DEF IsDir, Live
<1>4. NamesFit'
  <2> SUFFICES ASSUME NEW u \in Inodes, NEW m \in Names, entries'[u][m] # NoInode
               PROVE  /\ Live(u)' /\ entries'[u][m] # Root
                      /\ m \in FileNames => dinode'[entries'[u][m]].type = "file"
                      /\ m \in DirNames =>
                           /\ dinode'[entries'[u][m]].type = "dir"
                           /\ entries'[entries'[u][m]][DotDot] = u
                           /\ \A o \in DirNames : entries'[u][o] = entries'[u][m] => o = m
    BY DEF NamesFit, IsDir
  <2>1. CASE u = k /\ m = n
    <3>1. entries'[u][m] = i /\ entries'[i][DotDot] = u
      BY <1>2, <2>1
    <3>2. \A o \in DirNames : entries'[k][o] = i => o = n
      BY <1>1, <1>2, <1>e
    <3>3. dinode'[i].type = "dir"
      OBVIOUS
    <3> QED
      BY <1>1, <1>3, <1>e, <2>1, <3>1, <3>2, <3>3
  <2>2. CASE ~ (u = k /\ m = n)
    <3> DEFINE j == entries[u][m]
    <3>1. entries'[u][m] = j
      BY <1>2, <2>2
    <3>2. j # NoInode /\ j \in Inodes /\ j # i
      BY <1>0, <1>1, <1>e, <3>1 DEF EntryTypes
    <3>3. u # i
      BY <1>e, <3>2
    <3>4. /\ Live(u) /\ j # Root
          /\ m \in FileNames => dinode[j].type = "file"
          /\ m \in DirNames => /\ dinode[j].type = "dir" /\ entries[j][DotDot] = u
                               /\ \A o \in DirNames : entries[u][o] = j => o = m
      BY <1>0, <3>2 DEF NamesFit, IsDir
    <3> HIDE DEF j
    <3>5. /\ dinode'[j].type = dinode[j].type /\ entries'[j][DotDot] = entries[j][DotDot]
          /\ \A o \in DirNames : entries'[u][o] = i \/ entries'[u][o] = entries[u][o]
      BY <1>1, <1>2, <3>2
    <3> QED
      BY <1>3, <3>1, <3>2, <3>3, <3>4, <3>5
  <2> QED
    BY <2>1, <2>2
<1>5. ParentsFit'
  <2> SUFFICES ASSUME NEW u \in Inodes
               PROVE  /\ Live(u)' =>
                           /\ entries'[u][DotDot] \in Inodes /\ Live(entries[u][DotDot])'
                           /\ u # Root =>
                                \E m \in DirNames : entries'[entries'[u][DotDot]][m] = u
                      /\ ~ IsDir(u)' => entries'[u][DotDot] = NoInode
    BY DEF ParentsFit
  <2>1. ~ IsDir(u)' => entries'[u][DotDot] = NoInode
    BY <1>0, <1>2, <1>3 DEF ParentsFit
  <2>2. ASSUME Live(u)', u # i
        PROVE  /\ entries'[u][DotDot] \in Inodes /\ Live(entries[u][DotDot])'
               /\ u # Root => \E m \in DirNames : entries'[entries'[u][DotDot]][m] = u
    <3> DEFINE v == entries[u][DotDot]
    <3>1. Live(u)
      BY <1>3, <2>2
    <3>2. v \in Inodes /\ Live(v) /\ (u # Root => \E m \in DirNames : entries[v][m] = u) /\ v # i
      BY <1>0, <1>e, <3>1 DEF ParentsFit
    <3>3. entries'[u][DotDot] = v
      BY <1>2, <2>2
    <3> HIDE DEF v
    <3>4. dinode'[v].type = "dir" /\ dinode'[v].nlink > 0
      BY <1>3, <3>2 DEF Live, IsDir
    <3>5. \A m \in DirNames : entries[v][m] = u => entries'[v][m] = u
      BY <1>1, <1>2, <1>r, <3>2
    <3> QED
      BY <3>2, <3>3, <3>4, <3>5 DEF Live, IsDir
  <2>3. CASE u = i
    <3>1. entries'[u][DotDot] = k /\ entries'[k][n] = u /\ n \in DirNames /\ k \in Inodes
      BY <1>1, <1>2, <2>3
    <3>2. dinode'[k].type = "dir" /\ dinode'[k].nlink > 0
      BY <1>3 DEF Live, IsDir
    <3> QED
      BY <2>1, <3>1, <3>2 DEF Live, IsDir
  <2> QED
    BY <2>1, <2>2, <2>3
<1>6. RootStays'
  BY <1>0, <1>2, <1>3, <1>e, <1>r DEF RootStays
<1>7. IsTree'
  <2>1. PICK M \in Nat : \E d \in [Inodes -> Nat] :
          /\ \A u \in Inodes : d[u] <= M
          /\ \A u \in Inodes : \A m \in DirNames :
               entries[u][m] # NoInode => d[entries[u][m]] > d[u]
    BY <1>0 DEF IsTree
  <2>2. PICK d \in [Inodes -> Nat] :
          /\ \A u \in Inodes : d[u] <= M
          /\ \A u \in Inodes : \A m \in DirNames :
               entries[u][m] # NoInode => d[entries[u][m]] > d[u]
    BY <2>1
  <2> DEFINE f == [d EXCEPT ![i] = d[k] + 1]
  <2>3. f \in [Inodes -> Nat] /\ f[i] = d[k] + 1 /\ \A u \in Inodes \ {i} : f[u] = d[u]
    BY <2>2
  <2>4. \A u \in Inodes : d[u] \in Nat
    BY <2>2
  <2> HIDE DEF f
  <2>5. \A u \in Inodes : f[u] <= M + 1
    BY <2>2, <2>3, <2>4
  <2>6. ASSUME NEW u \in Inodes, NEW m \in DirNames, entries'[u][m] # NoInode
        PROVE  f[entries'[u][m]] > f[u]
    <3>1. CASE u = k /\ m = n
      <4>1. entries'[u][m] = i
        BY <1>1, <1>2, <3>1
      <4> QED
        BY <2>3, <2>4, <3>1, <4>1
    <3>2. CASE ~ (u = k /\ m = n)
      <4>1. entries'[u][m] = entries[u][m] /\ entries[u][m] # i /\ entries[u][m] \in Inodes /\ u # i
        BY <1>0, <1>1, <1>2, <1>e, <2>6, <3>2 DEF EntryTypes
      <4>2. d[entries[u][m]] > d[u]
        BY <2>2, <2>6, <4>1
      <4> QED
        BY <2>3, <4>1, <4>2
    <3> QED
      BY <3>1, <3>2
  <2>7. M + 1 \in Nat
    BY <2>1
  <2> QED
    BY <2>3, <2>5, <2>6, <2>7 DEF IsTree
<1>8. LinksCounted'
  <2> SUFFICES ASSUME NEW u \in Inodes
               PROVE  dinode'[u].nlink = Linkers(u)'
    BY DEF LinksCounted
  <2>1. Cardinality(NamesOf(u)') =
             Cardinality(NamesOf(u)) - One(IsNameOf(k, n, u)) + One(IsNameOf(k, n, u)')
        /\ Cardinality(NamesOf(u)') \in Nat
    <3>1. \A j \in Inodes, m \in Names :
             <<j, m>> # <<k, n>> => (entries'[j][m] = u <=> entries[j][m] = u)
      BY <1>1, <1>2
    <3> QED
      BY ONLY <3>1, NamesStep
  <2>2. ~ IsNameOf(k, n, u) /\ (IsNameOf(k, n, u)' <=> u = i)
    BY <1>1, <1>2, <1>r DEF IsNameOf
  <2>3. Cardinality(SubdirsOf(u)') =
             Cardinality(SubdirsOf(u)) - One(IsSubdirOf(i, u)) + One(IsSubdirOf(i, u)')
           /\ Cardinality(SubdirsOf(u)') \in Nat
    <3>1. \A v \in Inodes \ {i} : IsSubdirOf(v, u)' <=> IsSubdirOf(v, u)
      BY <1>2, <1>3 DEF IsSubdirOf
    <3> QED
      BY ONLY <3>1, SubdirsStep
  <2>4. ~ IsSubdirOf(i, u) /\ (IsSubdirOf(i, u)' <=> u = k)
    BY <1>2, <1>e, <1>n DEF IsSubdirOf
  <2>5. Cardinality(LinkCallsTo(u)') =
          Cardinality(LinkCallsTo(u)) - One(IsLinkCallTo(p, u)) + One(IsLinkCallTo(p, u)')
        /\ Cardinality(LinkCallsTo(u)') \in Nat
    BY LinkCallsStep
  <2>6. dinode[u].nlink = Linkers(u)
    BY <1>0 DEF LinksCounted
  <2>7. /\ One(IsLinkCallTo(p, u)) = 0 /\ One(IsLinkCallTo(p, u)') = 0
        /\ One(u = Root) \in Nat /\ One(IsNameOf(k, n, u)) = 0 /\ One(IsSubdirOf(i, u)) = 0
        /\ One(IsNameOf(k, n, u)') = IF u = i THEN 1 ELSE 0
        /\ One(IsSubdirOf(i, u)') = IF u = k THEN 1 ELSE 0
    BY <2>2, <2>4 DEF One
  <2>8. Linkers(u) = Cardinality(NamesOf(u)) + Cardinality(SubdirsOf(u)) + One(u = Root)
              + Cardinality(LinkCallsTo(u))
      /\ Linkers(u)' = Cardinality(NamesOf(u)') + Cardinality(SubdirsOf(u)') + One(u = Root)
              + Cardinality(LinkCallsTo(u)')
    BY DEF Linkers
  <2>9. dinode'[u].nlink = dinode[u].nlink + IF u = i \/ u = k THEN 1 ELSE 0
    BY <1>n
  <2> HIDE DEF IsLinkCallTo, IsNameOf, IsSubdirOf
  <2> QED
    BY <2>1, <2>3, <2>5, <2>6, <2>7, <2>8, <2>9, LinkersFinite
<1> QED
  BY <1>3, <1>4, <1>5, <1>6, <1>7, <1>8 DEF NamesInv

\* A new directory gets its entries and its name.
LEMMA FillDir ==
    ASSUME TreeInv, NEW p \in Callers, syscall[p].at = "fill", CanLock(syscall[p].ip),
           syscall[p].op = "mkdir",
           NEW k, NEW i, NEW n, k = syscall[p].cur, i = syscall[p].ip,
           n = Head(syscall[p].path),
           Update([j \in {k, i} |-> IF j = i THEN WithLinks(Locked(i), 1)
                                    ELSE WithLinks(copy[k], dinode[k].nlink + 1)]),
           entries' = [entries EXCEPT ![k][n] = i, ![i][DotDot] = k],
           Return(p, <<k, i>>), holder' = [holder EXCEPT ![k] = Nobody],
           UNCHANGED <<ref, opened, cwd>>
    PROVE  TreeInv'
<1> DEFINE ch == [j \in {k, i} |-> IF j = i THEN WithLinks(Locked(i), 1)
                                    ELSE WithLinks(copy[k], dinode[k].nlink + 1)]
<1>0. /\ TreeTypes /\ HandsInv /\ DiskTypes /\ EntryTypes /\ PlacesFit /\ OtherTypes
  BY DEF TreeInv, TreeTypes
<1>w. /\ i \in Inodes /\ k \in Inodes /\ CanLock(i) /\ HasRef(p, i) /\ HasRef(p, k)
      /\ Live(cwd[p]) /\ cwd[p] \in Inodes /\ i # k /\ Live(k) /\ n \in DirNames
      /\ entries[k][n] = NoInode /\ dinode[i].nlink = 0 /\ dinode[i].type = "dir"
      /\ IsCopy(copy[k]) /\ copy[k].type = dinode[k].type /\ copy[k].nlink = dinode[k].nlink
      /\ \A q \in Callers \ {p} : ~ LocksInode(q, k)
  BY FillIs, Zenon DEF TypeMade
<1>1. n \in Names /\ n \in PathNames /\ DotDot \in PathNames /\ n # DotDot
  BY <1>w, FileTreeAssumption DEF Names, PathNames
<1>2. dinode[k].nlink + 1 \in Nat
  BY <1>0, <1>w DEF DiskTypes
<1>3. /\ DOMAIN ch = {k, i} /\ IsCopy(ch[k]) /\ IsCopy(ch[i])
      /\ ch[i].type = dinode[i].type /\ ch[i].nlink = 1
      /\ ch[k].type = dinode[k].type /\ ch[k].nlink = dinode[k].nlink + 1
  <2>1. DOMAIN ch = {k, i} /\ ch[k] = WithLinks(copy[k], dinode[k].nlink + 1)
        /\ ch[i] = WithLinks(Locked(i), 1)
    BY <1>w
  <2>2. IsCopy(Locked(i)) /\ Locked(i).type = dinode[i].type
    BY <1>0, <1>w, LockedCopy
  <2> HIDE DEF ch
  <2>3. IsCopy(ch[i]) /\ ch[i].type = dinode[i].type /\ ch[i].nlink = 1
    BY <2>1, <2>2, WithLinksIs
  <2>4. IsCopy(ch[k]) /\ ch[k].type = dinode[k].type /\ ch[k].nlink = dinode[k].nlink + 1
    <3>1. IsCopy(copy[k]) /\ copy[k].type = dinode[k].type /\ dinode[k].nlink + 1 \in Nat
      BY <1>2, <1>w
    <3>2. \A m \in Nat : IsCopy(WithLinks(copy[k], m)) /\ WithLinks(copy[k], m).type = copy[k].type
                         /\ WithLinks(copy[k], m).nlink = m
      BY <3>1, WithLinksIs
    <3>3. /\ IsCopy(WithLinks(copy[k], dinode[k].nlink + 1))
          /\ WithLinks(copy[k], dinode[k].nlink + 1).type = copy[k].type
          /\ WithLinks(copy[k], dinode[k].nlink + 1).nlink = dinode[k].nlink + 1
      BY <3>1, <3>2, Zenon
    <3> QED
      BY <2>1, <3>1, <3>3, Zenon
  <2> QED
    BY ONLY <2>1, <2>3, <2>4, Zenon
<1>4. Update(ch)
  OBVIOUS
<1> HIDE DEF ch
<1>5. /\ DiskTypes' /\ CopyTypes'
      /\ \A j \in Inodes \ {k, i} : copy'[j] = copy[j] /\ dinode'[j] = dinode[j]
      /\ \A j \in {k, i} : /\ dinode'[j].type = ch[j].type /\ dinode'[j].nlink = ch[j].nlink
                           /\ CopyIsDisk(j)' /\ copy'[j].valid
  BY ONLY <1>0, <1>3, <1>4, <1>w, UpdateIs
<1>6. /\ \A j \in Inodes : dinode'[j].type = dinode[j].type
      /\ \A j \in Inodes \ {i, k} : dinode'[j].nlink = dinode[j].nlink
      /\ dinode'[i].nlink = 1 /\ dinode'[k].nlink = dinode[k].nlink + 1 /\ copy'[i].valid
      /\ \A j \in Inodes : copy[j].valid => copy'[j].valid
  BY ONLY <1>3, <1>5, <1>w
<1>7. Touches(p)
  BY ONLY <1>5, <1>6, <1>w DEF Touches
<1>s. <<k, i>> \in PutLists /\ NextPut(<<k, i>>) = k /\ LastPut(<<k, i>>) = i
  BY ONLY <1>w, PutsAre, Zenon
<1>t. opened' \in [Callers -> Inodes \cup {NoInode}]
  BY <1>0 DEF OtherTypes
<1>8. /\ Moves(p) /\ LocksMove(p) /\ CallTypes' /\ RemoverAlone' /\ Others(p)
      /\ cwd' \in [Callers -> Inodes]
      /\ holder' \in [Inodes -> Callers \cup {Nobody}]
      /\ ref' = [j \in Inodes |-> ref'[j]]
      /\ \A j : ~ IsLinkCallTo(p, j) /\ ~ IsLinkCallTo(p, j)'
      /\ Live(cwd[p])' => PlaceFits(p)'
  <2>1. ASSUME NEW j \in Inodes
        PROVE  One(opened'[p] = j) + One(NextPut(<<k, i>>) = j) + One(LastPut(<<k, i>>) = j)
               = One(opened[p] = j) + One(k = j) + One(i = j)
    <3>1. opened' = opened /\ One(opened[p] = j) \in Nat /\ One(k = j) \in Nat /\ One(i = j) \in Nat
      BY OnesAre
    <3> QED
      BY <1>s, <3>1
  <2>3. \A q \in Callers \ {p} : opened'[q] = opened[q]
    OBVIOUS
  <2> DEFINE s == <<k, i>>
  <2>4. s \in PutLists /\ Return(p, s) /\ HandsOn(p, s, k, i)
    BY <1>s, <2>1 DEF HandsOn
  <2> HIDE DEF s
  <2>5. /\ TreeInv /\ p \in Callers /\ syscall[p].at = "fill" /\ CanLock(syscall[p].ip)
        /\ k = syscall[p].cur /\ i = syscall[p].ip /\ s \in PutLists /\ Return(p, s)
        /\ holder' = [holder EXCEPT ![k] = Nobody] /\ Touches(p) /\ copy'[i].valid
        /\ \A q \in Callers \ {p} : opened'[q] = opened[q]
        /\ opened' \in [Callers -> Inodes \cup {NoInode}]
        /\ HandsOn(p, s, k, i) /\ UNCHANGED <<ref, cwd>>
    BY <1>6, <1>7, <1>t, <2>3, <2>4
  <2> QED
    BY ONLY <2>5, FillEnds
<1>11. /\ EntryTypes'
       /\ \A j \in Inodes : \A m \in PathNames :
             entries'[j][m] = IF j = k /\ m = n THEN i
                              ELSE IF j = i /\ m = DotDot THEN k ELSE entries[j][m]
       /\ \A j \in Inodes \ {k, i} : entries'[j] = entries[j]
  <2>2. entries \in [Inodes -> [PathNames -> Inodes \cup {NoInode}]]
    BY <1>0 DEF EntryTypes
  <2>3. \A j \in Inodes \ {k, i} : entries'[j] = entries[j]
    BY <1>1, <1>w, <2>2, Zenon
  <2>4. \A m \in PathNames : entries'[k][m] = IF m = n THEN i ELSE entries[k][m]
    BY <1>1, <1>w, <2>2, Zenon
  <2>5. \A m \in PathNames : entries'[i][m] = IF m = DotDot THEN k ELSE entries[i][m]
    BY <1>1, <1>w, <2>2, Zenon
  <2>6. EntryTypes'
    BY <1>1, <1>w, <2>2, Zenon DEF EntryTypes
  <2>7. i # k
    BY <1>w
  <2> QED
    BY ONLY <2>3, <2>4, <2>5, <2>6, <2>7
<1>12. NamesInv' /\ \A j \in Inodes : Live(j) => Live(j)'
  <2>1. /\ TreeInv /\ Others(p) /\ k \in Inodes /\ i \in Inodes /\ p \in Callers
        /\ n \in DirNames /\ entries[k][n] = NoInode /\ Live(k) /\ i # k
        /\ dinode[i].type = "dir" /\ dinode[i].nlink = 0
        /\ \A j \in Inodes : \A m \in PathNames :
             entries'[j][m] = IF j = k /\ m = n THEN i
                              ELSE IF j = i /\ m = DotDot THEN k ELSE entries[j][m]
        /\ DiskTypes' /\ \A j \in Inodes : dinode'[j].type = dinode[j].type
        /\ dinode'[i].nlink = 1 /\ dinode'[k].nlink = dinode[k].nlink + 1
        /\ \A j \in Inodes \ {i, k} : dinode'[j].nlink = dinode[j].nlink
        /\ \A j : ~ IsLinkCallTo(p, j) /\ ~ IsLinkCallTo(p, j)'
    BY <1>5, <1>6, <1>8, <1>11, <1>w, Zenon
  <2> QED
    BY ONLY <2>1, DirMade
<1>14. PlaceFits(p)'
  BY <1>8, <1>12, <1>w
<1>15. PlacesFit'
  <2>0. \A q \in Callers \ {p} : ~ LocksInode(q, i)
    <3>1. holder[i] = Nobody /\ HoldersKnown
      BY <1>0, <1>w DEF CanLock, HandsInv
    <3> QED
      BY <1>w, <3>1, FileTreeAssumption DEF HoldersKnown
  <2>1. \A q \in Callers \ {p} : \A j \in Inodes :
          /\ j \in {cwd[q], syscall[q].cur, syscall[q].ip} =>
               dinode'[j].type = dinode[j].type /\ (Live(j) => Live(j)')
          /\ LocksInode(q, j) => entries'[j] = entries[j] /\ (copy[j].valid => copy'[j].valid)
    BY ONLY <1>6, <1>11, <1>12, <1>w, <2>0
  <2>2. p \in Callers /\ Others(p) /\ PlacesFit /\ TreeTypes /\ PlaceFits(p)'
    BY <1>0, <1>8, <1>14
  <2> QED
    BY ONLY <2>1, <2>2, PlacesStep
<1> QED
  BY <1>5, <1>8, <1>11, <1>12, <1>15, <1>t, MoveInv, Zenon

LEMMA CreateFillStep ==
    ASSUME TreeInv, NEW p \in Callers, CreateFill(p)
    PROVE  TreeInv'
<1> DEFINE c == syscall[p]
           k == c.cur
           i == c.ip
           n == Head(c.path)
<1>c. /\ c.at = "fill" /\ CanLock(i) /\ holder' = [holder EXCEPT ![k] = Nobody]
      /\ UNCHANGED <<ref, cwd>>
  BY DEF CreateFill, Reached
<1>w. i \in Inodes /\ k \in Inodes /\ copy[k].nlink = dinode[k].nlink /\ i # k
  BY <1>c, FillIs
<1>1. CASE /\ c.op = "mkdir"
           /\ entries' = [entries EXCEPT ![k][n] = i, ![i][DotDot] = k]
           /\ Update([j \in {k, i} |-> IF j = i THEN WithLinks(Locked(i), 1)
                                       ELSE WithLinks(copy[k], copy[k].nlink + 1)])
           /\ UNCHANGED opened /\ Return(p, <<k, i>>)
  <2>1. Update([j \in {k, i} |-> IF j = i THEN WithLinks(Locked(i), 1)
                                 ELSE WithLinks(copy[k], dinode[k].nlink + 1)])
    BY <1>1, <1>w
  <2> QED
    BY <1>1, <1>c, <2>1, FillDir, Zenon
<1>2. CASE /\ c.op # "mkdir"
           /\ entries' = [entries EXCEPT ![k][n] = i, ![i][DotDot] = NoInode]
           /\ Update([j \in {k, i} |-> IF j = i THEN WithLinks(Locked(i), 1) ELSE copy[k]])
           /\ Opened(p, i, <<k>>)
  BY <1>2, <1>c, FillFile, Zenon
<1>3. CASE /\ Update(Only(i, WithLinks(WithLinks(Locked(i), 1), 0)))
           /\ Return(p, <<i, k>>) /\ UNCHANGED <<entries, opened>>
  BY <1>3, <1>c, FillFails
<1>4. \/ /\ entries' = [entries EXCEPT ![k][n] = i,
                                       ![i][DotDot] = IF c.op = "mkdir" THEN k ELSE NoInode]
         /\ Update([j \in {k, i} |->
                      IF j = i THEN WithLinks(Locked(i), 1)
                      ELSE IF c.op = "mkdir" THEN WithLinks(copy[k], copy[k].nlink + 1)
                           ELSE copy[k]])
         /\ IF c.op = "mkdir" THEN UNCHANGED opened /\ Return(p, <<k, i>>)
            ELSE Opened(p, i, <<k>>)
      \/ /\ Update(Only(i, WithLinks(WithLinks(Locked(i), 1), 0)))
         /\ Return(p, <<i, k>>) /\ UNCHANGED <<entries, opened>>
  BY Zenon DEF CreateFill, Name
<1> HIDE DEF c, n
<1>5. CASE c.op = "mkdir"
  BY <1>1, <1>3, <1>4, <1>5
<1>6. CASE c.op # "mkdir"
  BY <1>2, <1>3, <1>4, <1>6
<1> QED
  BY <1>5, <1>6

LosesHead(s) ==
    \A j \in Inodes :
      One(NextPut(s) = j) + One(LastPut(s) = j)
      = One(NextPut(Tail(s)) = j) + One(LastPut(Tail(s)) = j) + One(Head(s) = j)

LEMMA TailIs ==
    ASSUME NEW s \in PutLists, s # <<>>
    PROVE  /\ Head(s) \in Inodes /\ Tail(s) \in PutLists /\ Len(Tail(s)) <= 1
           /\ Len(s) <= 1 => Tail(s) = <<>>
           /\ NextPut(s) = Head(s) \/ LastPut(s) = Head(s)
           /\ LosesHead(s)
<1>1. \/ \E x \in Inodes :
           /\ s = <<x>> /\ Head(s) = x /\ Tail(s) = <<>> /\ Len(s) = 1
           /\ NextPut(s) = NoInode /\ LastPut(s) = x
      \/ \E x, y \in Inodes :
           /\ s = <<x, y>> /\ Head(s) = x /\ Tail(s) = <<y>> /\ Len(s) = 2
           /\ NextPut(s) = x /\ LastPut(s) = y
  BY PutsForms
<1>2. ASSUME NEW x \in Inodes, Head(s) = x, Tail(s) = <<>>, Len(s) = 1,
             NextPut(s) = NoInode, LastPut(s) = x
      PROVE  /\ Head(s) \in Inodes /\ Tail(s) \in PutLists /\ Len(Tail(s)) <= 1
             /\ Len(s) <= 1 => Tail(s) = <<>>
             /\ NextPut(s) = Head(s) \/ LastPut(s) = Head(s)
             /\ LosesHead(s)
  <2>1. <<>> \in PutLists /\ NextPut(<<>>) = NoInode /\ LastPut(<<>>) = NoInode /\ Len(<<>>) = 0
    BY PutsAre
  <2>2. NextPut(Tail(s)) = NoInode /\ LastPut(Tail(s)) = NoInode
    BY <1>2, <2>1
  <2>3. ASSUME NEW j \in Inodes
        PROVE  One(NextPut(s) = j) + One(LastPut(s) = j)
               = One(NextPut(Tail(s)) = j) + One(LastPut(Tail(s)) = j) + One(Head(s) = j)
    <3>1. One(NoInode = j) = 0 /\ One(x = j) \in Nat
      BY OnesAre
    <3>2. /\ One(NextPut(s) = j) = 0 /\ One(LastPut(s) = j) = One(x = j)
          /\ One(NextPut(Tail(s)) = j) = 0 /\ One(LastPut(Tail(s)) = j) = 0
          /\ One(Head(s) = j) = One(x = j)
      BY ONLY <1>2, <2>2, <3>1
    <3> QED
      BY ONLY <3>1, <3>2
  <2>4. LosesHead(s)
    BY ONLY <2>3, Zenon DEF LosesHead
  <2>5. Tail(s) \in PutLists /\ Len(Tail(s)) <= 1
    <3>1. <<>> \in PutLists /\ Len(<<>>) <= 1
      BY <2>1
    <3> QED
      BY <1>2, <3>1, Zenon
  <2>6. Head(s) \in Inodes /\ (Len(s) <= 1 => Tail(s) = <<>>)
    BY <1>2
  <2> QED
    BY <1>2, <2>4, <2>5, <2>6, Zenon
<1>3. ASSUME NEW x \in Inodes, NEW y \in Inodes, Head(s) = x, Tail(s) = <<y>>, Len(s) = 2,
             NextPut(s) = x, LastPut(s) = y
      PROVE  /\ Head(s) \in Inodes /\ Tail(s) \in PutLists /\ Len(Tail(s)) <= 1
             /\ Len(s) <= 1 => Tail(s) = <<>>
             /\ NextPut(s) = Head(s) \/ LastPut(s) = Head(s)
             /\ LosesHead(s)
  <2>1. <<y>> \in PutLists /\ NextPut(<<y>>) = NoInode /\ LastPut(<<y>>) = y /\ Len(<<y>>) = 1
    BY PutsAre
  <2>2. NextPut(Tail(s)) = NoInode /\ LastPut(Tail(s)) = y
    BY <1>3, <2>1
  <2>3. ASSUME NEW j \in Inodes
        PROVE  One(NextPut(s) = j) + One(LastPut(s) = j)
               = One(NextPut(Tail(s)) = j) + One(LastPut(Tail(s)) = j) + One(Head(s) = j)
    <3>1. One(NoInode = j) = 0 /\ One(x = j) \in Nat /\ One(y = j) \in Nat
      BY OnesAre
    <3>2. /\ One(NextPut(s) = j) = One(x = j) /\ One(LastPut(s) = j) = One(y = j)
          /\ One(NextPut(Tail(s)) = j) = 0 /\ One(LastPut(Tail(s)) = j) = One(y = j)
          /\ One(Head(s) = j) = One(x = j)
      BY ONLY <1>3, <2>2, <3>1
    <3> QED
      BY ONLY <3>1, <3>2
  <2>4. LosesHead(s)
    BY ONLY <2>3, Zenon DEF LosesHead
  <2>5. Tail(s) \in PutLists /\ Len(Tail(s)) <= 1
    <3>1. <<y>> \in PutLists /\ Len(<<y>>) <= 1
      BY <2>1
    <3> QED
      BY <1>3, <3>1, Zenon
  <2>6. Head(s) \in Inodes /\ (Len(s) <= 1 => Tail(s) = <<>>)
    BY <1>3
  <2> QED
    BY <1>3, <2>4, <2>5, <2>6, Zenon
<1> QED
  BY <1>1, <1>2, <1>3

-----------------------------------------------------------------------------
(* iput: a reference is given back, and with the last one to an inode without *)
(* links the inode.                                                           *)

\* A call that has an inode to put.
LEMMA PutIs ==
    ASSUME TreeInv, NEW p \in Callers, NEW s, s = syscall[p].puts, s # <<>>
    PROVE  /\ Head(s) \in Inodes /\ HasRef(p, Head(s))
           /\ Tail(s) \in PutLists /\ Len(Tail(s)) <= 1 /\ LosesHead(s)
           /\ syscall[p].at \in {"end", "walk", "found", "undo", "existing"}
           /\ syscall[p].at # "end" => Tail(s) = <<>>
           /\ \A j : ~ IsFresh(p, j) /\ (LocksInode(p, j) <=> Frees(p, j))
<1>0. CallShape(syscall[p]) /\ s \in PutLists /\ (syscall[p].at # "end" => Len(s) <= 1)
  BY CallIs
<1>1. syscall[p].at \in {"end", "walk", "found", "undo", "existing"}
  BY <1>0 DEF CallShape
<1>2. \A j : ~ IsFresh(p, j) /\ (LocksInode(p, j) <=> Frees(p, j))
  BY <1>1 DEF IsFresh, LocksInode
<1>3. /\ Head(s) \in Inodes /\ Tail(s) \in PutLists /\ Len(Tail(s)) <= 1
      /\ Len(s) <= 1 => Tail(s) = <<>>
      /\ NextPut(s) = Head(s) \/ LastPut(s) = Head(s)
      /\ LosesHead(s)
  BY <1>0, TailIs
<1>4. HasRef(p, Head(s))
  BY <1>3, HandsNow
<1> QED
  BY <1>0, <1>1, <1>2, <1>3, <1>4

\* The call after it.
PutsOne(c, e) ==
    /\ e.op = c.op /\ e.at = c.at /\ e.path = c.path /\ e.new = c.new /\ e.cur = c.cur
    /\ e.ip = c.ip /\ e.puts = Tail(c.puts) /\ ~ e.freeing /\ e.freeing \in BOOLEAN
    /\ DOMAIN e = CallFields

LEMMA PutGoesOn ==
    ASSUME TreeInv, NEW p \in Callers, syscall[p].puts # <<>>, NEW b \in BOOLEAN, ~ b,
           IF syscall[p].at = "end" THEN Return(p, Tail(syscall[p].puts))
           ELSE Continue(p, [syscall[p] EXCEPT !.puts = Tail(@), !.freeing = b])
    PROVE  \E e : Continue(p, e) /\ PutsOne(syscall[p], e)
<1> DEFINE c == syscall[p]
           e == [c EXCEPT !.puts = Tail(@), !.freeing = b]
           s == Tail(c.puts)
<1>0. CallShape(c) /\ DOMAIN c = CallFields /\ s \in PutLists
  BY CallIs, PutIs
<1>1. CASE c.at = "end"
  <2>1. Continue(p, Returned(s))
    BY <1>1, Zenon DEF Return, Returned
  <2>2. c.op = "none" /\ c.cur = NoInode /\ c.ip = NoInode /\ c.path = <<>> /\ c.new = <<>>
    BY <1>0, <1>1 DEF CallShape
  <2>3. /\ Returned(s).op = "none" /\ Returned(s).at = "end" /\ Returned(s).cur = NoInode
        /\ Returned(s).ip = NoInode /\ Returned(s).path = <<>> /\ Returned(s).new = <<>>
        /\ Returned(s).puts = s /\ ~ Returned(s).freeing /\ Returned(s).freeing \in BOOLEAN
        /\ DOMAIN Returned(s) = CallFields
    BY NoCallIs DEF Returned, CallFields
  <2>4. PutsOne(c, Returned(s))
    BY <1>1, <2>2, <2>3 DEF PutsOne
  <2> QED
    BY <2>1, <2>4
<1>2. CASE c.at # "end"
  <2>1. Continue(p, e)
    BY <1>2
  <2>2. /\ e.op = c.op /\ e.at = c.at /\ e.path = c.path /\ e.new = c.new /\ e.cur = c.cur
        /\ e.ip = c.ip /\ e.puts = Tail(c.puts) /\ e.freeing = b
        /\ DOMAIN e = CallFields
    BY <1>0 DEF CallFields
  <2> HIDE DEF e
  <2>3. PutsOne(c, e)
    BY <2>2 DEF PutsOne
  <2> QED
    BY <2>1, <2>3
<1> QED
  BY <1>1, <1>2

\* A process puts one reference.
PutEffects(p, i) ==
    /\ Others(p) /\ CallTypes' /\ RemoverAlone' /\ RefsCounted' /\ OtherTypes'
    /\ \A j : ~ Frees(p, j)' /\ ~ IsFresh(p, j)' /\ ~ LocksInode(p, j)'
    /\ \A j : IsLinkCallTo(p, j)' <=> IsLinkCallTo(p, j)
    /\ \A j \in Inodes :
         /\ NumberOf(InHand[p], j) \in Nat /\ NumberOf(InHand'[p], j) \in Nat
         /\ NumberOf(InHand[p], j) = NumberOf(InHand'[p], j) + One(i = j)
         /\ NumberOf(InHand'[p], j) > 0 <=> HasRef(p, j)'
         /\ HasRef(p, j)' => HasRef(p, j)
         /\ ref[j] \in Nat /\ ref'[j] \in Nat /\ ref[j] = ref'[j] + One(i = j)
    /\ syscall'[p].op = syscall[p].op /\ syscall'[p].at = syscall[p].at
    /\ syscall'[p].cur = syscall[p].cur /\ syscall'[p].ip = syscall[p].ip

LEMMA PutTakes ==
    ASSUME TreeInv, NEW p \in Callers, NEW s, s = syscall[p].puts, s # <<>>,
           NEW i, i = Head(s), NEW e, Continue(p, e), PutsOne(syscall[p], e),
           ref' = [ref EXCEPT ![i] = @ - 1], UNCHANGED <<opened, cwd>>,
           holder' \in [Inodes -> Callers \cup {Nobody}]
    PROVE  PutEffects(p, i)
<1> DEFINE c == syscall[p]
<1>0. /\ IsCall(c) /\ CallTypes /\ OtherTypes /\ RefsCounted /\ RemoverAlone
      /\ CallShape(c) /\ CallPath(c)
  BY CallIs DEF TreeInv, HandsInv
<1>p. /\ i \in Inodes /\ HasRef(p, i) /\ Tail(s) \in PutLists /\ Len(Tail(s)) <= 1
      /\ c.at \in {"end", "walk", "found", "undo", "existing"}
      /\ c.at # "end" => Tail(s) = <<>>
      /\ LosesHead(s)
  BY PutIs
<1>1. /\ e.op = c.op /\ e.at = c.at /\ e.path = c.path /\ e.new = c.new /\ e.cur = c.cur
      /\ e.ip = c.ip /\ e.puts = Tail(s) /\ ~ e.freeing /\ e.freeing \in BOOLEAN
      /\ DOMAIN e = CallFields
  BY DEF PutsOne
<1> HIDE DEF c
<1>2. IsCall(e)
  <2>1. CallShape(e)
    BY <1>0, <1>1, <1>p DEF CallShape
  <2>2. CallPath(e)
    BY <1>0, <1>1 DEF CallPath
  <2> QED
    BY <1>1, <1>p, <2>1, <2>2 DEF IsCall
<1>3. CallTypes' /\ syscall'[p] = e /\ \A q \in Callers \ {p} : syscall'[q] = syscall[q]
  BY <1>0, <1>2, CallStep
<1>4. Others(p)
  BY <1>3 DEF Others
<1>5. \A j : ~ Frees(p, j)' /\ ~ IsFresh(p, j)' /\ ~ LocksInode(p, j)'
  <2>1. Outside(syscall'[p])
    BY <1>1, <1>3, <1>p DEF Outside
  <2> QED
    BY <2>1, OutsideHolds
<1>6. \A j : IsLinkCallTo(p, j)' <=> IsLinkCallTo(p, j)
  BY <1>1, <1>3 DEF IsLinkCallTo, c
<1>7. RemoverAlone'
  <2>1. (Removes(syscall'[p]) => Removes(syscall[p])) /\ syscall'[p].op = syscall[p].op
    BY <1>1, <1>3 DEF Removes, c
  <2> QED
    BY <1>0, <1>4, <2>1, RemoverStep
<1>8. \A j \in Inodes : NumberOf(InHand[p], j) = NumberOf(InHand'[p], j) + One(i = j)
  <2> TAKE j \in Inodes
  <2> DEFINE a == One(cwd[p] = j)
             b == One(opened[p] = j)
             d == One(c.cur = j)
             f == One(c.ip = j)
             u == One(NextPut(s) = j)
             v == One(LastPut(s) = j)
             x == One(NextPut(Tail(s)) = j)
             y == One(LastPut(Tail(s)) = j)
             z == One(i = j)
             t == NumberOf(InHand[p], j)
             tt == NumberOf(InHand'[p], j)
  <2>1. t = a + b + d + f + u + v
    <3>1. s = syscall[p].puts /\ c = syscall[p]
      BY DEF c
    <3>2. t = One(cwd[p] = j) + One(opened[p] = j) + One(syscall[p].cur = j)
              + One(syscall[p].ip = j) + One(NextPut(syscall[p].puts) = j)
              + One(LastPut(syscall[p].puts) = j)
      BY HandsNow
    <3> HIDE DEF t
    <3> QED
      BY <3>1, <3>2, Zenon
  <2>2. tt = a + b + d + f + x + y
    <3>1. /\ cwd'[p] = cwd[p] /\ opened'[p] = opened[p] /\ syscall'[p].cur = c.cur
          /\ syscall'[p].ip = c.ip /\ syscall'[p].puts = Tail(s)
      BY <1>1, <1>3
    <3>2. tt = One(cwd'[p] = j) + One(opened'[p] = j) + One(syscall'[p].cur = j)
                + One(syscall'[p].ip = j) + One(NextPut(syscall'[p].puts) = j)
                + One(LastPut(syscall'[p].puts) = j)
      BY HandsNow
    <3> HIDE DEF tt
    <3> QED
      BY <3>1, <3>2, Zenon
  <2>3. u + v = x + y + z
    BY <1>p, Zenon DEF LosesHead
  <2>4. /\ a \in Nat /\ b \in Nat /\ d \in Nat /\ f \in Nat /\ u \in Nat /\ v \in Nat
        /\ x \in Nat /\ y \in Nat /\ z \in Nat
    BY OnesAre
  <2> HIDE DEF a, b, d, f, u, v, x, y, z, t, tt
  <2>5. t = tt + z
    BY ONLY <2>1, <2>2, <2>3, <2>4
  <2> QED
    BY <2>5 DEF t, tt, z
<1>9. \A j \in Inodes : NumberOf(InHand[p], j) \in Nat /\ NumberOf(InHand'[p], j) \in Nat
                        /\ (NumberOf(InHand[p], j) > 0 <=> HasRef(p, j))
                        /\ (NumberOf(InHand'[p], j) > 0 <=> HasRef(p, j)')
  BY HandCounts
<1>10. \A j \in Inodes : One(i = j) \in Nat
  BY OnesAre
<1>11. \A j \in Inodes : HasRef(p, j)' => HasRef(p, j)
  <2> TAKE j \in Inodes
  <2> HIDE DEF HasRef
  <2> QED
    BY <1>8, <1>9, <1>10
<1>12. \A j \in Inodes : ref[j] \in Nat /\ ref'[j] \in Int /\ ref[j] = ref'[j] + One(i = j)
  BY <1>0, <1>p DEF OtherTypes, One
<1>13. RefsCounted' /\ \A j \in Inodes : ref'[j] \in Nat
  <2>1. \A j \in Inodes :
          ref'[j] + NumberOf(InHand[p], j) = ref[j] + NumberOf(InHand'[p], j)
          /\ ref'[j] \in Int
    <3> TAKE j \in Inodes
    <3> QED
      BY <1>8, <1>9, <1>10, <1>12
  <2> QED
    BY <1>0, <1>4, <2>1, RefsStep
<1>14. OtherTypes'
  <2>1. ref' = [j \in Inodes |-> ref'[j]]
    BY <1>0 DEF OtherTypes
  <2>2. ref' \in [Inodes -> Nat]
    BY <1>13, <2>1
  <2> QED
    BY <1>0, <2>2 DEF OtherTypes
<1>15. /\ syscall'[p].op = syscall[p].op /\ syscall'[p].at = syscall[p].at
       /\ syscall'[p].cur = syscall[p].cur /\ syscall'[p].ip = syscall[p].ip
  BY <1>1, <1>3 DEF c
<1>16. \A j \in Inodes :
         /\ NumberOf(InHand[p], j) \in Nat /\ NumberOf(InHand'[p], j) \in Nat
         /\ NumberOf(InHand[p], j) = NumberOf(InHand'[p], j) + One(i = j)
         /\ NumberOf(InHand'[p], j) > 0 <=> HasRef(p, j)'
         /\ HasRef(p, j)' => HasRef(p, j)
         /\ ref[j] \in Nat /\ ref'[j] \in Nat /\ ref[j] = ref'[j] + One(i = j)
  <2> HIDE DEF HasRef
  <2> QED
    BY <1>8, <1>9, <1>11, <1>12, <1>13
<1> QED
  BY <1>3, <1>4, <1>5, <1>6, <1>7, <1>13, <1>14, <1>15, <1>16, Zenon DEF PutEffects

\* What stays of the tree, the places and the types when inodes on disk and
\* entries stay.
LEMMA PutRest ==
    ASSUME TreeInv, NEW p \in Callers, NEW i, PutEffects(p, i),
           syscall[p].at \notin {"unlink", "fill"},
           UNCHANGED <<dinode, entries, opened, cwd>>, CopyTypes',
           \A q \in Callers \ {p} : \A j \in Inodes :
             LocksInode(q, j) => (copy[j].valid => copy'[j].valid),
           HandsInv'
    PROVE  TreeInv'
<1>0. /\ TreeTypes /\ NamesInv /\ PlacesFit
  BY DEF TreeInv
<1>e. /\ Others(p) /\ CallTypes' /\ RemoverAlone' /\ OtherTypes'
      /\ \A j : IsLinkCallTo(p, j)' <=> IsLinkCallTo(p, j)
      /\ syscall'[p].op = syscall[p].op /\ syscall'[p].at = syscall[p].at
      /\ syscall'[p].cur = syscall[p].cur /\ syscall'[p].ip = syscall[p].ip
  BY DEF PutEffects
<1>1. TreeKept
  BY DEF TreeKept
<1>2. NamesFit' /\ ParentsFit' /\ RootStays' /\ IsTree'
  BY <1>0, <1>1, TreeStep
<1>3. LinksCounted'
  <2>1. \A j \in Inodes :
          dinode'[j].nlink + One(IsLinkCallTo(p, j)) = dinode[j].nlink + One(IsLinkCallTo(p, j)')
          /\ dinode'[j].nlink \in Int
    <3> TAKE j \in Inodes
    <3>1. dinode[j].nlink \in Int /\ dinode'[j].nlink = dinode[j].nlink
      BY <1>0 DEF TreeTypes, DiskTypes
    <3>2. One(IsLinkCallTo(p, j)') = One(IsLinkCallTo(p, j)) /\ One(IsLinkCallTo(p, j)) \in Nat
      <4>1. IsLinkCallTo(p, j)' <=> IsLinkCallTo(p, j)
        BY <1>e
      <4> HIDE DEF IsLinkCallTo
      <4> QED
        BY <4>1 DEF One
    <3> QED
      BY ONLY <3>1, <3>2
  <2> QED
    BY <1>0, <1>1, <1>e, <2>1, LinksStep
<1>4. PlaceFits(p)'
  <2>1. PlaceFits(p)
    BY <1>0 DEF PlacesFit
  <2> QED
    BY <1>e, <2>1 DEF PlaceFits, Live, IsDir, Entering
<1>5. PlacesFit'
  <2>1. \A q \in Callers \ {p} : \A j \in Inodes :
          /\ j \in {cwd[q], syscall[q].cur, syscall[q].ip} =>
               dinode'[j].type = dinode[j].type /\ (Live(j) => Live(j)')
          /\ LocksInode(q, j) => entries'[j] = entries[j] /\ (copy[j].valid => copy'[j].valid)
    BY DEF Live, IsDir
  <2> QED
    BY <1>0, <1>4, <1>e, <2>1, PlacesStep
<1>6. TreeTypes'
  BY <1>0, <1>e DEF TreeTypes, DiskTypes, EntryTypes
<1> QED
  BY <1>2, <1>3, <1>5, <1>6, <1>e DEF TreeInv, NamesInv

\* Who frees an inode and who fills one stay alone with it.
LEMMA PutAlone ==
    ASSUME TreeInv, NEW p \in Callers, NEW i, PutEffects(p, i), dinode' = dinode,
           \A j \in Inodes : Frees(p, j) => ~ HasRef(p, j)',
           \A j : ~ IsFresh(p, j)
    PROVE  NoDangling' /\ FreesAlone' /\ FreshAlone' /\ FreeUnlinked'
<1>0. NoDangling /\ FreesAlone /\ FreshAlone /\ FreeUnlinked
  BY DEF TreeInv, HandsInv
<1>e. /\ Others(p)
      /\ \A j : ~ Frees(p, j)' /\ ~ IsFresh(p, j)'
      /\ \A j \in Inodes : HasRef(p, j)' => HasRef(p, j)
  BY DEF PutEffects
<1>o. \A q \in Callers \ {p} :
        /\ InHand'[q] = InHand[q] /\ syscall'[q] = syscall[q]
        /\ \A j : /\ HasRef(q, j)' <=> HasRef(q, j)
                  /\ Frees(q, j)' <=> Frees(q, j)
                  /\ IsFresh(q, j)' <=> IsFresh(q, j)
  BY <1>e, OthersKeep DEF Others
<1>1. NoDangling'
  <2>1. ASSUME NEW q \in Callers, NEW j \in Inodes, HasRef(q, j)', dinode'[j].type = "free"
        PROVE  Frees(q, j)'
    <3>1. HasRef(q, j)
      BY <1>e, <1>o, <2>1
    <3>2. Frees(q, j)
      BY <1>0, <2>1, <3>1 DEF NoDangling
    <3> QED
      BY <1>o, <2>1, <3>2
  <2> QED
    BY <2>1 DEF NoDangling
<1>2. FreesAlone'
  <2>1. ASSUME NEW q \in Callers, NEW j \in Inodes, Frees(q, j)'
        PROVE  /\ dinode'[j].nlink = 0 /\ NumberOf(InHand'[q], j) = 1
               /\ dinode'[j].type = "free" \/ \E r \in Callers : IsFresh(r, j)'
               /\ \A r \in Callers \ {q} : HasRef(r, j)' => IsFresh(r, j)'
    <3>1. q # p /\ Frees(q, j) /\ InHand'[q] = InHand[q]
      BY <1>e, <1>o, <2>1
    <3>2. /\ dinode[j].nlink = 0 /\ NumberOf(InHand[q], j) = 1
          /\ dinode[j].type = "free" \/ \E r \in Callers : IsFresh(r, j)
          /\ \A r \in Callers \ {q} : HasRef(r, j) => IsFresh(r, j)
      BY <1>0, <3>1 DEF FreesAlone
    <3>3. \A r \in Callers : IsFresh(r, j) => IsFresh(r, j)'
      BY <1>o
    <3>4. \A r \in Callers \ {q} : HasRef(r, j)' => IsFresh(r, j)'
      BY <1>e, <1>o, <3>2, <3>3
    <3>5. dinode'[j].nlink = 0 /\ NumberOf(InHand'[q], j) = 1
          /\ (dinode'[j].type = "free" <=> dinode[j].type = "free")
      BY <3>1, <3>2
    <3> QED
      BY <3>2, <3>3, <3>4, <3>5
  <2> QED
    BY <2>1, Zenon DEF FreesAlone
<1>3. FreshAlone'
  <2>1. ASSUME NEW q \in Callers, NEW j \in Inodes, IsFresh(q, j)'
        PROVE  /\ dinode'[j].type = TypeMade(syscall'[q]) /\ dinode'[j].nlink = 0
               /\ NumberOf(InHand'[q], j) = 1
               /\ \A r \in Callers \ {q} : HasRef(r, j)' => Frees(r, j)'
    <3>1. q # p /\ IsFresh(q, j) /\ InHand'[q] = InHand[q] /\ syscall'[q] = syscall[q]
      BY <1>e, <1>o, <2>1
    <3>2. /\ dinode[j].type = TypeMade(syscall[q]) /\ dinode[j].nlink = 0
          /\ NumberOf(InHand[q], j) = 1
          /\ \A r \in Callers \ {q} : HasRef(r, j) => Frees(r, j)
      BY <1>0, <3>1 DEF FreshAlone
    <3>3. \A r \in Callers \ {q} : HasRef(r, j)' => Frees(r, j)'
      BY <1>e, <1>o, <3>2
    <3>4. dinode'[j].type = TypeMade(syscall'[q]) /\ dinode'[j].nlink = 0
          /\ NumberOf(InHand'[q], j) = 1
      BY <3>1, <3>2
    <3> QED
      BY <3>3, <3>4
  <2> QED
    BY <2>1, Zenon DEF FreshAlone
<1>4. FreeUnlinked'
  BY <1>0 DEF FreeUnlinked
<1> QED
  BY <1>1, <1>2, <1>3, <1>4

\* Who has the lock of an inode has a reference to it.
LEMMA LockerHas ==
    ASSUME CallTypes, NEW q \in Callers, NEW i \in Inodes, LocksInode(q, i)
    PROVE  HasRef(q, i)
<1>1. CASE Frees(q, i)
  <2> DEFINE s == syscall[q].puts
  <2>1. s \in PutLists /\ s # <<>> /\ Head(s) = i
    BY <1>1 DEF CallTypes, IsCall, Frees
  <2>2. NextPut(s) = Head(s) \/ LastPut(s) = Head(s)
    BY <2>1, TailIs
  <2> QED
    BY <2>1, <2>2, HandsNow
<1>2. CASE syscall[q].cur = i
  BY <1>2, HandsNow
<1> QED
  BY <1>1, <1>2 DEF LocksInode

\* A reference that is not the last, or the last to an inode with a link.
LEMMA PutKept ==
    ASSUME TreeInv, NEW p \in Callers, NEW s, s = syscall[p].puts, s # <<>>,
           NEW i, i = Head(s), ~ syscall[p].freeing, ~ IsLast(i),
           ref' = [ref EXCEPT ![i] = @ - 1], copy' = Recycled(i),
           NEW e, Continue(p, e), PutsOne(syscall[p], e),
           UNCHANGED <<dinode, holder, entries, opened, cwd>>
    PROVE  TreeInv'
<1>0. /\ CallTypes /\ CopyTypes /\ OtherTypes /\ HandsInv /\ RefsCounted /\ HoldersKnown /\ CopiesAgree
      /\ OrphansKept /\ FreesAlone /\ FreshAlone
  BY DEF TreeInv, TreeTypes, HandsInv
<1>1. PutEffects(p, i)
  <2>1. holder' \in [Inodes -> Callers \cup {Nobody}]
    BY <1>0 DEF OtherTypes
  <2> QED
    BY <2>1, PutTakes
<1>2. /\ i \in Inodes /\ HasRef(p, i) /\ syscall[p].at \notin {"unlink", "fill"}
      /\ \A j : ~ IsFresh(p, j) /\ ~ Frees(p, j) /\ ~ LocksInode(p, j)
  <2>1. \A j : ~ Frees(p, j)
    BY DEF Frees
  <2> QED
    BY <2>1, PutIs
<1>e. /\ Others(p) /\ RefsCounted'
      /\ \A j : ~ Frees(p, j)' /\ ~ IsFresh(p, j)' /\ ~ LocksInode(p, j)'
      /\ \A j \in Inodes : ref[j] \in Nat /\ ref'[j] \in Nat /\ ref[j] = ref'[j] + One(i = j)
  BY <1>1 DEF PutEffects
<1>o. \A q \in Callers \ {p} : \A j :
        /\ HasRef(q, j)' <=> HasRef(q, j)
        /\ Frees(q, j)' <=> Frees(q, j)
        /\ IsFresh(q, j)' <=> IsFresh(q, j)
        /\ LocksInode(q, j)' <=> LocksInode(q, j)
  BY <1>e, OthersKeep
<1>c. /\ \A j \in Inodes \ {i} : copy'[j] = copy[j] /\ ref'[j] = ref[j]
      /\ ref[i] # 1 => copy'[i] = copy[i]
      /\ ref[i] = 1 => ~ copy'[i].valid
      /\ ref[i] = ref'[i] + 1 /\ ref[i] > 0
  <2>1. \A j \in Inodes \ {i} : copy'[j] = copy[j] /\ ref'[j] = ref[j]
    BY <1>0, <1>2 DEF Recycled, CopyTypes, OtherTypes
  <2>2. copy'[i] = IF ref[i] = 1 THEN NoCopy ELSE copy[i]
    BY <1>0, <1>2 DEF Recycled, CopyTypes
  <2>3. ~ NoCopy.valid
    BY DEF NoCopy
  <2>4. ref[i] = ref'[i] + 1 /\ ref[i] > 0
    BY <1>2, <1>e DEF One
  <2> QED
    BY <2>1, <2>2, <2>3, <2>4, Zenon
<1>d. CopyTypes'
  <2>1. NoCopy \in [valid : BOOLEAN, type : InodeTypes, nlink : Nat]
    BY DEF NoCopy, InodeTypes
  <2>2. \A j \in Inodes : copy[j] \in [valid : BOOLEAN, type : InodeTypes, nlink : Nat]
    BY <1>0 DEF CopyTypes
  <2> DEFINE T == [valid : BOOLEAN, type : InodeTypes, nlink : Nat]
             f == [copy EXCEPT ![i] = IF ref[i] = 1 THEN NoCopy ELSE @]
  <2>3. copy \in [Inodes -> T] /\ NoCopy \in T
    BY <1>0, <2>1 DEF CopyTypes
  <2> HIDE DEF T
  <2>4. f \in [Inodes -> T]
    BY <1>2, <2>3
  <2>5. copy' = f
    BY DEF Recycled
  <2> QED
    BY <2>4, <2>5 DEF CopyTypes, T
<1>3. NoDangling' /\ FreesAlone' /\ FreshAlone' /\ FreeUnlinked'
  BY <1>1, <1>2, PutAlone
<1>4. HoldersKnown'
  <2>1. LocksMove(p)
    BY <1>2, <1>e DEF LocksMove
  <2> QED
    BY <1>0, <1>e, <2>1, HoldersStep
<1>5. CopiesAgree'
  <2>1. ASSUME NEW j \in Inodes, copy'[j].valid
        PROVE  ref'[j] > 0 /\ (CopyIsDisk(j)' \/ \E q \in Callers : Frees(q, j)')
    <3>1. copy'[j] = copy[j] /\ (j # i \/ ref[i] # 1)
      BY <1>c, <2>1
    <3>2. ref[j] > 0 /\ (CopyIsDisk(j) \/ \E q \in Callers : Frees(q, j))
      BY <1>0, <2>1, <3>1 DEF CopiesAgree
    <3>3. CopyIsDisk(j) => CopyIsDisk(j)'
      BY <3>1 DEF CopyIsDisk
    <3>4. \A q \in Callers : Frees(q, j) => Frees(q, j)'
      BY <1>2, <1>o
    <3>5. ref'[j] > 0
      BY ONLY <1>c, <1>e, <3>1, <3>2
    <3> QED
      BY <3>2, <3>3, <3>4, <3>5
  <2> QED
    BY <2>1, Zenon DEF CopiesAgree
<1>n. \A q \in Callers \ {p} : HasRef(q, i) => ref[i] >= 2
  <2> TAKE q \in Callers \ {p}
  <2> HAVE HasRef(q, i)
  <2>1. /\ NumberOf(InHand[p], i) \in Nat /\ NumberOf(InHand[p], i) > 0
        /\ NumberOf(InHand[q], i) \in Nat /\ NumberOf(InHand[q], i) > 0
        /\ NumberOf(InHand[p], i) + NumberOf(InHand[q], i) <= ref[i] /\ ref[i] \in Nat
    BY <1>0, <1>2, RefsAtLeast
  <2> HIDE DEF NumberOf
  <2> QED
    BY <2>1
<1>f. \A q \in Callers : ~ IsFresh(q, i)
  <2> SUFFICES ASSUME NEW q \in Callers, IsFresh(q, i) PROVE FALSE
    OBVIOUS
  <2>1. q # p
    BY <1>2
  <2>2. Frees(p, i)
    BY <1>0, <1>2, <2>1 DEF FreshAlone
  <2> QED
    BY <1>2, <2>2
<1>6. OrphansKept'
  <2>1. ASSUME NEW j \in Inodes, dinode'[j].type # "free", dinode'[j].nlink = 0
        PROVE  ref'[j] > 0 /\ (copy'[j].valid \/ \E q \in Callers : IsFresh(q, j)')
    <3>1. ref[j] > 0 /\ (copy[j].valid \/ \E q \in Callers : IsFresh(q, j))
      BY <1>0, <2>1 DEF OrphansKept
    <3>2. CASE j # i
      BY <1>2, <1>c, <1>o, <3>1, <3>2
    <3>3. CASE j = i
      <4>1. copy[i].valid /\ (CopyIsDisk(i) \/ \E q \in Callers : Frees(q, i))
        BY <1>0, <1>f, <3>1, <3>3 DEF CopiesAgree
      <4>2. ref[i] # 1
        <5> SUFFICES ASSUME ref[i] = 1 PROVE FALSE
          OBVIOUS
        <5>1. ASSUME NEW q \in Callers, Frees(q, i) PROVE FALSE
          <6>1. q # p /\ NumberOf(InHand[q], i) = 1
            BY <1>0, <1>2, <5>1 DEF FreesAlone
          <6>2. HasRef(q, i)
            BY <1>0, <1>2, <6>1, RefsAtLeast
          <6>3. ref[i] >= 2
            BY <1>n, <6>1, <6>2
          <6> QED
            BY <6>3
        <5>2. CopyIsDisk(i)
          BY <4>1, <5>1
        <5>3. copy[i].nlink = 0
          BY <2>1, <3>3, <5>2 DEF CopyIsDisk
        <5> QED
          BY <4>1, <5>3 DEF IsLast
      <4> QED
        BY ONLY <1>c, <1>e, <3>3, <4>1, <4>2
    <3> QED
      BY <3>2, <3>3
  <2> QED
    BY <2>1, Zenon DEF OrphansKept
<1>7. HandsInv'
  BY <1>3, <1>4, <1>5, <1>6, <1>e DEF HandsInv
<1>8. \A q \in Callers \ {p} : \A j \in Inodes :
        LocksInode(q, j) => (copy[j].valid => copy'[j].valid)
  <2> TAKE q \in Callers \ {p}
  <2> TAKE j \in Inodes
  <2> HAVE LocksInode(q, j)
  <2>1. CASE j # i
    BY <1>c, <2>1
  <2>2. CASE j = i
    <3>1. HasRef(q, i)
      BY <1>0, <2>2, LockerHas
    <3>2. ref[i] # 1
      BY <1>n, <3>1
    <3> QED
      BY <1>c, <2>2, <3>2
  <2> QED
    BY <2>1, <2>2
<1> QED
  BY <1>1, <1>2, <1>7, <1>8, <1>d, PutRest

\* The last reference to an inode without links: the inode goes back to disk.
LEMMA LastIs ==
    ASSUME TreeInv, NEW p \in Callers, NEW i \in Inodes, HasRef(p, i), IsLast(i),
           ~ syscall[p].freeing, \A j : ~ IsFresh(p, j)
    PROVE  /\ CopyIsDisk(i) /\ dinode[i].nlink = 0 /\ dinode[i].type # "free"
           /\ NumberOf(InHand[p], i) = 1
           /\ \A q \in Callers \ {p} : ~ HasRef(q, i)
           /\ \A q \in Callers : ~ Frees(q, i) /\ ~ IsFresh(q, i) /\ ~ LocksInode(q, i)
<1>0. /\ CallTypes /\ HandsInv /\ RefsCounted /\ NoDangling /\ CopiesAgree
      /\ ref[i] = 1 /\ copy[i].valid /\ copy[i].nlink = 0
  BY DEF TreeInv, TreeTypes, HandsInv, IsLast
<1>1. /\ NumberOf(InHand[p], i) \in Nat /\ NumberOf(InHand[p], i) <= 1
      /\ NumberOf(InHand[p], i) > 0
      /\ \A q \in Callers \ {p} : NumberOf(InHand[q], i) \in Nat
           /\ NumberOf(InHand[p], i) + NumberOf(InHand[q], i) <= 1
           /\ (NumberOf(InHand[q], i) > 0 <=> HasRef(q, i))
  BY <1>0, RefsAtLeast
<1>2. NumberOf(InHand[p], i) = 1
  <2> HIDE DEF NumberOf
  <2> QED
    BY <1>1
<1>3. \A q \in Callers \ {p} : ~ HasRef(q, i)
  <2> HIDE DEF NumberOf, HasRef
  <2> QED
    BY <1>1
<1>4. \A q \in Callers \ {p} : ~ LocksInode(q, i) /\ ~ IsFresh(q, i)
  BY <1>0, <1>3, LockerHas, FreshRef
<1>5. \A q \in Callers : ~ Frees(q, i) /\ ~ IsFresh(q, i)
  BY <1>4 DEF LocksInode, Frees
<1>6. CopyIsDisk(i)
  BY <1>0, <1>5 DEF CopiesAgree
<1>7. dinode[i].nlink = 0
  BY <1>0, <1>6 DEF CopyIsDisk
<1>8. dinode[i].type # "free"
  BY <1>0, <1>5 DEF NoDangling
<1>9. syscall[p].at \notin {"unlink", "fill"} \/ syscall[p].cur # i
  <2>1. CASE syscall[p].at = "fill"
    <3>1. IsFresh(p, syscall[p].ip)
      BY <2>1 DEF IsFresh
    <3> QED
      BY <3>1
  <2>2. CASE syscall[p].at = "unlink" /\ syscall[p].cur = i
    <3>1. Live(i)
      BY <2>2 DEF TreeInv, PlacesFit, PlaceFits
    <3> QED
      BY <1>7, <3>1 DEF Live
  <2> QED
    BY <2>1, <2>2
<1>10. ~ LocksInode(p, i)
  BY <1>5, <1>9 DEF LocksInode
<1> QED
  BY <1>2, <1>3, <1>4, <1>5, <1>6, <1>7, <1>8, <1>10

LEMMA FreeIs ==
    ASSUME TreeTypes, NEW i \in Inodes, CopyIsDisk(i), dinode[i].nlink = 0,
           Update(Only(i, [copy[i] EXCEPT !.type = "free"]))
    PROVE  /\ DiskTypes' /\ CopyTypes' /\ CopyIsDisk(i)'
           /\ dinode'[i].type = "free" /\ dinode'[i].nlink = 0
           /\ \A j \in Inodes \ {i} : dinode'[j] = dinode[j] /\ copy'[j] = copy[j]
<1> DEFINE x == [copy[i] EXCEPT !.type = "free"]
           t == dinode[i].type
<1>1. \A b : [[valid |-> b, type |-> t, nlink |-> 0] EXCEPT !.type = "free"]
             = [valid |-> b, type |-> "free", nlink |-> 0]
  OBVIOUS
<1>2. copy[i] = [valid |-> TRUE, type |-> t, nlink |-> 0]
  BY Zenon DEF CopyIsDisk
<1>3. x = [valid |-> TRUE, type |-> "free", nlink |-> 0]
  BY <1>1, <1>2, Zenon
<1>4. IsCopy(x)
  <2>1. "free" \in InodeTypes /\ 0 \in Nat
    BY DEF InodeTypes
  <2> HIDE DEF x
  <2> QED
    BY <1>3, <2>1, Zenon DEF IsCopy
<1>5. x.type = "free" /\ x.nlink = 0
  <2> HIDE DEF x
  <2> QED
    BY <1>3
<1>6. Update(Only(i, x))
  OBVIOUS
<1> HIDE DEF x, t
<1> DEFINE ch == Only(i, x)
<1>7. DOMAIN ch = {i} /\ ch[i] = x
  BY DEF Only
<1>8. DOMAIN ch \subseteq Inodes /\ \A j \in DOMAIN ch : IsCopy(ch[j])
  BY <1>4, <1>7
<1>9. Update(ch)
  BY <1>6
<1> HIDE DEF ch
<1> QED
  BY <1>5, <1>7, <1>8, <1>9, UpdateIs

\* What stays when a process begins to free an inode.
FreeEffects(p, i) ==
    /\ Others(p) /\ CallTypes' /\ OtherTypes' /\ RefsCounted' /\ RemoverAlone'
    /\ \A j : (Frees(p, j)' <=> j = i) /\ ~ IsFresh(p, j)' /\ (LocksInode(p, j)' <=> j = i)
    /\ \A j : IsLinkCallTo(p, j)' <=> IsLinkCallTo(p, j)
    /\ \A j \in Inodes : HasRef(p, j)' <=> HasRef(p, j)
    /\ InHand'[p] = InHand[p]
    /\ syscall'[p].op = syscall[p].op /\ syscall'[p].at = syscall[p].at
    /\ syscall'[p].cur = syscall[p].cur /\ syscall'[p].ip = syscall[p].ip

LEMMA FreeBegins ==
    ASSUME TreeInv, NEW p \in Callers, NEW s, s = syscall[p].puts, s # <<>>,
           NEW i, i = Head(s),
           NEW b \in BOOLEAN, b, Continue(p, [syscall[p] EXCEPT !.freeing = b]),
           holder' = [holder EXCEPT ![i] = p], UNCHANGED <<ref, opened, cwd>>
    PROVE  FreeEffects(p, i)
<1> DEFINE c == syscall[p]
           e == [c EXCEPT !.freeing = b]
<1>0. /\ IsCall(c) /\ CallTypes /\ OtherTypes /\ RefsCounted /\ RemoverAlone
      /\ CallShape(c) /\ CallPath(c) /\ DOMAIN c = CallFields /\ c.puts \in PutLists
      /\ c.at # "end" => Len(c.puts) <= 1
  BY CallIs DEF TreeInv, HandsInv
<1>p. i \in Inodes /\ c.at \in {"end", "walk", "found", "undo", "existing"}
  BY PutIs
<1>1. /\ e.op = c.op /\ e.at = c.at /\ e.path = c.path /\ e.new = c.new /\ e.cur = c.cur
      /\ e.ip = c.ip /\ e.puts = c.puts /\ e.freeing = b
      /\ DOMAIN e = CallFields
  BY <1>0 DEF CallFields
<1>c. Continue(p, e)
  OBVIOUS
<1>s. s = c.puts
  OBVIOUS
<1> HIDE DEF c, e
<1>2. IsCall(e)
  <2>1. CallShape(e)
    BY <1>0, <1>1 DEF CallShape
  <2>2. CallPath(e)
    BY <1>0, <1>1 DEF CallPath
  <2> QED
    BY <1>0, <1>1, <1>s, <2>1, <2>2 DEF IsCall
<1>3. CallTypes' /\ syscall'[p] = e /\ \A q \in Callers \ {p} : syscall'[q] = syscall[q]
  BY <1>0, <1>2, <1>c, CallStep
<1>4. Others(p)
  BY <1>3 DEF Others
<1>5. /\ syscall'[p].op = syscall[p].op /\ syscall'[p].at = syscall[p].at
      /\ syscall'[p].cur = syscall[p].cur /\ syscall'[p].ip = syscall[p].ip
      /\ syscall'[p].puts = syscall[p].puts /\ syscall'[p].freeing
      /\ syscall'[p].at \in {"end", "walk", "found", "undo", "existing"}
      /\ Head(syscall'[p].puts) = i /\ syscall'[p].path = syscall[p].path
  BY <1>1, <1>3, <1>p, <1>s DEF c
<1>6. \A j : (Frees(p, j)' <=> j = i) /\ ~ IsFresh(p, j)' /\ (LocksInode(p, j)' <=> j = i)
  BY <1>5 DEF Frees, IsFresh, LocksInode
<1>7. \A j : IsLinkCallTo(p, j)' <=> IsLinkCallTo(p, j)
  BY <1>5 DEF IsLinkCallTo
<1>8. InHand'[p] = InHand[p]
  <2>1. Handles(cwd'[p], opened'[p], syscall'[p]) = Handles(cwd[p], opened[p], syscall[p])
    BY <1>5 DEF Handles
  <2> QED
    BY <2>1, HandIs
<1>9. \A j \in Inodes : HasRef(p, j)' <=> HasRef(p, j)
  BY <1>8 DEF HasRef
<1>10. RefsCounted'
  <2>1. \A j \in Inodes :
          ref'[j] + NumberOf(InHand[p], j) = ref[j] + NumberOf(InHand'[p], j)
          /\ ref'[j] \in Int
    BY <1>0, <1>8 DEF OtherTypes
  <2> QED
    BY <1>0, <1>4, <2>1, RefsStep
<1>11. OtherTypes'
  <2>1. holder' \in [Inodes -> Callers \cup {Nobody}]
    BY <1>0 DEF OtherTypes
  <2> QED
    BY <1>0, <2>1 DEF OtherTypes
<1>12. RemoverAlone'
  <2>1. (Removes(syscall'[p]) => Removes(syscall[p]))
    BY <1>5 DEF Removes
  <2> QED
    BY <1>0, <1>4, <1>5, <2>1, RemoverStep
<1> QED
  BY <1>3, <1>4, <1>5, <1>6, <1>7, <1>8, <1>9, <1>10, <1>11, <1>12, Zenon DEF FreeEffects

\* The disk and the tree while an inode is freed.
FreedNow(i) ==
    /\ CopyIsDisk(i)' /\ dinode'[i].type = "free" /\ dinode'[i].nlink = 0
    /\ dinode[i].nlink = 0
    /\ \A j \in Inodes \ {i} :
         dinode'[j] = dinode[j] /\ copy'[j] = copy[j] /\ entries'[j] = entries[j]
    /\ \A n \in PathNames : entries'[i][n] = NoInode

Lonely(p, i) ==
    /\ NumberOf(InHand[p], i) = 1 /\ HasRef(p, i)
    /\ \A q \in Callers \ {p} : ~ HasRef(q, i)
    /\ \A q \in Callers : ~ Frees(q, i) /\ ~ IsFresh(q, i) /\ ~ LocksInode(q, i)

LEMMA FreeAlone ==
    ASSUME TreeInv, NEW p \in Callers, NEW i \in Inodes, FreeEffects(p, i),
           FreedNow(i), Lonely(p, i), ~ syscall[p].freeing, \A j : ~ IsFresh(p, j)
    PROVE  NoDangling' /\ FreesAlone' /\ FreshAlone' /\ FreeUnlinked'
<1>0. NoDangling /\ FreesAlone /\ FreshAlone /\ FreeUnlinked
  BY DEF TreeInv, HandsInv
<1>e. /\ Others(p) /\ InHand'[p] = InHand[p]
      /\ \A j : (Frees(p, j)' <=> j = i) /\ ~ IsFresh(p, j)' /\ ~ Frees(p, j)
      /\ \A j \in Inodes : HasRef(p, j)' <=> HasRef(p, j)
  BY DEF FreeEffects, Frees
<1>o. \A q \in Callers \ {p} :
        /\ InHand'[q] = InHand[q] /\ syscall'[q] = syscall[q]
        /\ \A j : /\ HasRef(q, j)' <=> HasRef(q, j)
                  /\ Frees(q, j)' <=> Frees(q, j)
                  /\ IsFresh(q, j)' <=> IsFresh(q, j)
  BY <1>e, OthersKeep DEF Others
<1>d. /\ dinode'[i].type = "free" /\ dinode'[i].nlink = 0
      /\ \A j \in Inodes \ {i} : dinode'[j] = dinode[j]
  BY DEF FreedNow
<1>l. /\ NumberOf(InHand[p], i) = 1
      /\ \A q \in Callers \ {p} : ~ HasRef(q, i)
      /\ \A q \in Callers : ~ Frees(q, i) /\ ~ IsFresh(q, i)
  BY DEF Lonely
<1>1. NoDangling'
  <2>1. ASSUME NEW q \in Callers, NEW j \in Inodes, HasRef(q, j)', dinode'[j].type = "free"
        PROVE  Frees(q, j)'
    <3>1. CASE j = i
      BY <1>e, <1>o, <1>l, <2>1, <3>1
    <3>2. CASE j # i
      <4>1. HasRef(q, j) /\ dinode[j].type = "free"
        BY <1>d, <1>e, <1>o, <2>1, <3>2
      <4>2. Frees(q, j)
        BY <1>0, <4>1 DEF NoDangling
      <4> QED
        BY <1>e, <1>o, <4>2
    <3> QED
      BY <3>1, <3>2
  <2> QED
    BY <2>1 DEF NoDangling
<1>2. FreesAlone'
  <2>1. ASSUME NEW q \in Callers, NEW j \in Inodes, Frees(q, j)'
        PROVE  /\ dinode'[j].nlink = 0 /\ NumberOf(InHand'[q], j) = 1
               /\ dinode'[j].type = "free" \/ \E r \in Callers : IsFresh(r, j)'
               /\ \A r \in Callers \ {q} : HasRef(r, j)' => IsFresh(r, j)'
    <3>1. CASE q = p
      <4>1. j = i
        BY <1>e, <2>1, <3>1
      <4>2. NumberOf(InHand'[q], j) = 1
        BY <1>e, <1>l, <3>1, <4>1, Zenon
      <4>3. \A r \in Callers \ {q} : ~ HasRef(r, j)'
        BY <1>l, <1>o, <3>1, <4>1
      <4> QED
        BY <1>d, <4>1, <4>2, <4>3
    <3>2. CASE q # p
      <4>1. Frees(q, j) /\ InHand'[q] = InHand[q] /\ j # i
        BY <1>o, <1>l, <2>1, <3>2
      <4>2. /\ dinode[j].nlink = 0 /\ NumberOf(InHand[q], j) = 1
            /\ dinode[j].type = "free" \/ \E r \in Callers : IsFresh(r, j)
            /\ \A r \in Callers \ {q} : HasRef(r, j) => IsFresh(r, j)
        BY <1>0, <4>1 DEF FreesAlone
      <4>3. \A r \in Callers : IsFresh(r, j) => IsFresh(r, j)'
        BY <1>o
      <4>4. \A r \in Callers \ {q} : HasRef(r, j)' => IsFresh(r, j)'
        BY <1>e, <1>o, <4>2, <4>3
      <4>5. dinode'[j].nlink = 0 /\ NumberOf(InHand'[q], j) = 1
            /\ (dinode'[j].type = "free" <=> dinode[j].type = "free")
        BY <1>d, <4>1, <4>2
      <4> QED
        BY <4>2, <4>3, <4>4, <4>5
    <3> QED
      BY <3>1, <3>2
  <2> QED
    BY <2>1, Zenon DEF FreesAlone
<1>3. FreshAlone'
  <2>1. ASSUME NEW q \in Callers, NEW j \in Inodes, IsFresh(q, j)'
        PROVE  /\ dinode'[j].type = TypeMade(syscall'[q]) /\ dinode'[j].nlink = 0
               /\ NumberOf(InHand'[q], j) = 1
               /\ \A r \in Callers \ {q} : HasRef(r, j)' => Frees(r, j)'
    <3>1. q # p /\ IsFresh(q, j) /\ InHand'[q] = InHand[q] /\ syscall'[q] = syscall[q] /\ j # i
      BY <1>e, <1>o, <1>l, <2>1
    <3>2. /\ dinode[j].type = TypeMade(syscall[q]) /\ dinode[j].nlink = 0
          /\ NumberOf(InHand[q], j) = 1
          /\ \A r \in Callers \ {q} : HasRef(r, j) => Frees(r, j)
      BY <1>0, <3>1 DEF FreshAlone
    <3>3. \A r \in Callers \ {q} : HasRef(r, j)' => Frees(r, j)'
      BY <1>e, <1>o, <3>2
    <3>4. dinode'[j].type = TypeMade(syscall'[q]) /\ dinode'[j].nlink = 0
          /\ NumberOf(InHand'[q], j) = 1
      BY <1>d, <3>1, <3>2
    <3> QED
      BY <3>3, <3>4
  <2> QED
    BY <2>1, Zenon DEF FreshAlone
<1>4. FreeUnlinked'
  BY <1>0, <1>d DEF FreeUnlinked
<1> QED
  BY <1>1, <1>2, <1>3, <1>4

LEMMA FreeHands ==
    ASSUME TreeInv, NEW p \in Callers, NEW i \in Inodes, FreeEffects(p, i),
           FreedNow(i), Lonely(p, i), ~ syscall[p].freeing, \A j : ~ IsFresh(p, j),
           \A j : ~ LocksInode(p, j), CanLock(i), holder' = [holder EXCEPT ![i] = p],
           ref' = ref
    PROVE  HandsInv'
<1>0. /\ CopiesAgree /\ OrphansKept /\ HoldersKnown /\ OtherTypes
      /\ ref[i] \in Nat /\ NumberOf(InHand[p], i) <= ref[i]
  <2>1. RefsCounted
    BY DEF TreeInv, HandsInv
  <2> QED
    BY <2>1, RefsAtLeast DEF TreeInv, HandsInv, TreeTypes
<1>e. /\ Others(p) /\ RefsCounted'
      /\ \A j : (Frees(p, j)' <=> j = i) /\ ~ Frees(p, j) /\ (LocksInode(p, j)' <=> j = i)
  BY DEF FreeEffects, Frees
<1>o. \A q \in Callers \ {p} : \A j :
        (Frees(q, j)' <=> Frees(q, j)) /\ (IsFresh(q, j)' <=> IsFresh(q, j))
  BY <1>e, OthersKeep
<1>d. /\ CopyIsDisk(i)' /\ dinode'[i].type = "free"
      /\ \A j \in Inodes \ {i} : dinode'[j] = dinode[j] /\ copy'[j] = copy[j]
  BY DEF FreedNow
<1>1. NoDangling' /\ FreesAlone' /\ FreshAlone' /\ FreeUnlinked'
  BY FreeAlone
<1>2. HoldersKnown'
  <2>1. LocksMove(p)
    BY <1>0, <1>e DEF LocksMove, CanLock, OtherTypes
  <2> QED
    BY <1>0, <1>e, <2>1, HoldersStep
<1>3. CopiesAgree'
  <2>1. ASSUME NEW j \in Inodes, copy'[j].valid
        PROVE  ref'[j] > 0 /\ (CopyIsDisk(j)' \/ \E q \in Callers : Frees(q, j)')
    <3>1. CASE j = i
      <4>1. NumberOf(InHand[p], i) = 1
        BY DEF Lonely
      <4>2. ref[i] > 0
        BY ONLY <1>0, <4>1
      <4> QED
        BY <1>d, <3>1, <4>2
    <3>2. CASE j # i
      <4>1. copy'[j] = copy[j] /\ dinode'[j] = dinode[j]
        BY <1>d, <3>2
      <4>2. ref[j] > 0 /\ (CopyIsDisk(j) \/ \E q \in Callers : Frees(q, j))
        BY <1>0, <2>1, <4>1 DEF CopiesAgree
      <4>3. CopyIsDisk(j) => CopyIsDisk(j)'
        BY <4>1 DEF CopyIsDisk
      <4>4. \A q \in Callers : Frees(q, j) => Frees(q, j)'
        BY <1>e, <1>o
      <4> QED
        BY <4>2, <4>3, <4>4
    <3> QED
      BY <3>1, <3>2
  <2> QED
    BY <2>1, Zenon DEF CopiesAgree
<1>4. OrphansKept'
  <2>1. ASSUME NEW j \in Inodes, dinode'[j].type # "free", dinode'[j].nlink = 0
        PROVE  ref'[j] > 0 /\ (copy'[j].valid \/ \E q \in Callers : IsFresh(q, j)')
    <3>1. j # i /\ copy'[j] = copy[j] /\ dinode'[j] = dinode[j]
      BY <1>d, <2>1
    <3>2. ref[j] > 0 /\ (copy[j].valid \/ \E q \in Callers : IsFresh(q, j))
      BY <1>0, <2>1, <3>1 DEF OrphansKept
    <3> QED
      BY <1>o, <3>1, <3>2
  <2> QED
    BY <2>1, Zenon DEF OrphansKept
<1> QED
  BY <1>1, <1>2, <1>3, <1>4, <1>e DEF HandsInv

LEMMA FreePlaces ==
    ASSUME TreeInv, NEW p \in Callers, NEW i \in Inodes, FreeEffects(p, i),
           FreedNow(i), Lonely(p, i), UNCHANGED cwd,
           syscall[p].at \notin {"parent", "unlink", "fill"}
    PROVE  PlacesFit'
<1>0. TreeTypes /\ PlacesFit /\ LinksCounted /\ CallTypes
  BY DEF TreeInv, NamesInv, TreeTypes
<1>e. /\ Others(p)
      /\ syscall'[p].op = syscall[p].op /\ syscall'[p].at = syscall[p].at
      /\ syscall'[p].cur = syscall[p].cur /\ syscall'[p].ip = syscall[p].ip
  BY DEF FreeEffects
<1>d. /\ dinode'[i].type = "free" /\ dinode[i].nlink = 0
      /\ \A j \in Inodes \ {i} :
           dinode'[j] = dinode[j] /\ copy'[j] = copy[j] /\ entries'[j] = entries[j]
  BY DEF FreedNow
<1>l. \A q \in Callers \ {p} : ~ HasRef(q, i) /\ ~ LocksInode(q, i)
  BY DEF Lonely
<1>k. \A j \in Inodes : Live(j) => Live(j)'
  BY <1>d DEF Live, IsDir
<1>1. PlaceFits(p)'
  <2>1. PlaceFits(p)
    BY <1>0 DEF PlacesFit
  <2>2. cwd[p] \in Inodes /\ IsCall(syscall[p])
    BY <1>0 DEF TreeTypes, OtherTypes, CallTypes
  <2>3. syscall[p].cur \in Inodes \cup {NoInode} /\ syscall[p].ip \in Inodes \cup {NoInode}
        /\ (syscall[p].op = "newlink" \/ syscall[p].at = "found" => syscall[p].ip \in Inodes)
    BY <2>2 DEF IsCall, CallShape, Entering
  <2> DEFINE w == cwd[p]
             k == syscall[p].cur
             l == syscall[p].ip
  <2>a. w \in Inodes /\ k \in Inodes \cup {NoInode} /\ l \in Inodes \cup {NoInode}
        /\ (syscall[p].at = "found" => l \in Inodes)
    BY <2>2, <2>3
  <2>b. /\ dinode[w].type = "dir" /\ dinode[w].nlink > 0
        /\ k # NoInode /\ dinode[k].type = "dir" => dinode[k].nlink > 0
        /\ syscall[p].at = "found" /\ dinode[l].type = "dir" => dinode[l].nlink > 0
    BY <2>1 DEF PlaceFits, Live, IsDir
  <2> HIDE DEF w, k, l
  <2>4. dinode'[w].type = "dir" /\ dinode'[w].nlink > 0
    BY <1>d, <2>a, <2>b
  <2>5. k # NoInode /\ dinode'[k].type = "dir" => dinode'[k].nlink > 0
    BY <1>d, <2>a, <2>b
  <2>6. syscall[p].at = "found" /\ dinode'[l].type = "dir" => dinode'[l].nlink > 0
    BY <1>d, <2>a, <2>b
  <2>c. cwd'[p] = w /\ syscall'[p].cur = k /\ syscall'[p].ip = l
    BY <1>e DEF w, k, l
  <2>7. syscall'[p].op = "newlink" => dinode'[syscall'[p].ip].type = "file"
    <3> SUFFICES ASSUME syscall[p].op = "newlink" PROVE dinode'[syscall[p].ip].type = "file"
      BY <1>e
    <3>1. IsLinkCallTo(p, syscall[p].ip) /\ syscall[p].ip \in Inodes
      BY <2>3 DEF IsLinkCallTo
    <3>2. dinode[syscall[p].ip].nlink > 0
      BY <1>0, <3>1, LinkCallCounts
    <3>3. dinode'[syscall[p].ip] = dinode[syscall[p].ip]
      BY <1>d, <3>1, <3>2
    <3> QED
      BY <2>1, <3>3 DEF PlaceFits
  <2>8. syscall'[p].at \notin {"parent", "unlink", "fill"}
    BY <1>e
  <2> QED
    BY <1>e, <2>4, <2>5, <2>6, <2>7, <2>8, <2>c DEF PlaceFits, Live, IsDir
<1>2. \A q \in Callers \ {p} : \A j \in Inodes :
        /\ j \in {cwd[q], syscall[q].cur, syscall[q].ip} =>
             dinode'[j].type = dinode[j].type /\ (Live(j) => Live(j)')
        /\ LocksInode(q, j) => entries'[j] = entries[j] /\ (copy[j].valid => copy'[j].valid)
  <2> TAKE q \in Callers \ {p}
  <2> TAKE j \in Inodes
  <2>1. j \in {cwd[q], syscall[q].cur, syscall[q].ip} => HasRef(q, j)
    BY HandsNow
  <2>2. j \in {cwd[q], syscall[q].cur, syscall[q].ip} => j # i
    BY <1>l, <2>1
  <2>3. LocksInode(q, j) => j # i
    BY <1>l
  <2> QED
    BY <1>d, <1>k, <2>2, <2>3
<1> QED
  BY ONLY <1>0, <1>e, <1>1, <1>2, p \in Callers, PlacesStep

LEMMA FreeNames ==
    ASSUME TreeInv, NEW p \in Callers, NEW i \in Inodes, FreeEffects(p, i), FreedNow(i)
    PROVE  NamesInv'
<1>0. TreeTypes /\ NamesInv
  BY DEF TreeInv
<1>d. /\ dinode'[i].type = "free" /\ dinode'[i].nlink = 0 /\ dinode[i].nlink = 0
      /\ \A j \in Inodes \ {i} : dinode'[j] = dinode[j] /\ entries'[j] = entries[j]
      /\ \A n \in PathNames : entries'[i][n] = NoInode
  BY DEF FreedNow
<1>1. TreeKept
  <2> SUFFICES ASSUME NEW j \in Inodes
               PROVE  \/ /\ entries'[j] = entries[j] /\ dinode'[j].type = dinode[j].type
                         /\ dinode'[j].nlink > 0 <=> dinode[j].nlink > 0
                      \/ /\ dinode[j].nlink = 0 /\ dinode'[j].nlink = 0
                         /\ \A n \in Names : entries'[j][n] = NoInode
                         /\ ~ IsDir(j)' => entries'[j][DotDot] = NoInode
    BY DEF TreeKept
  <2>1. CASE j = i
    BY <1>d, <2>1 DEF PathNames
  <2>2. CASE j # i
    BY <1>d, <2>2
  <2> QED
    BY <2>1, <2>2
<1>2. NamesFit' /\ ParentsFit' /\ RootStays' /\ IsTree'
  BY <1>0, <1>1, TreeStep
<1>3. Others(p) /\ \A j : IsLinkCallTo(p, j)' <=> IsLinkCallTo(p, j)
  BY DEF FreeEffects
<1>4. \A j \in Inodes :
        dinode'[j].nlink + One(IsLinkCallTo(p, j)) = dinode[j].nlink + One(IsLinkCallTo(p, j)')
        /\ dinode'[j].nlink \in Int
  <2> TAKE j \in Inodes
  <2>1. dinode[j].nlink \in Nat
    BY <1>0 DEF TreeTypes, DiskTypes
  <2>2. dinode'[j].nlink = dinode[j].nlink
    BY <1>d
  <2>3. One(IsLinkCallTo(p, j)') = One(IsLinkCallTo(p, j)) /\ One(IsLinkCallTo(p, j)) \in Nat
    <3>1. IsLinkCallTo(p, j)' <=> IsLinkCallTo(p, j)
      BY <1>3
    <3> HIDE DEF IsLinkCallTo
    <3> QED
      BY <3>1 DEF One
  <2> QED
    BY ONLY <2>1, <2>2, <2>3
<1>5. LinksCounted'
  BY <1>0, <1>1, <1>3, <1>4, LinksStep
<1> QED
  BY <1>2, <1>5 DEF NamesInv

LEMMA PutFrees ==
    ASSUME TreeInv, NEW p \in Callers, NEW s, s = syscall[p].puts, s # <<>>,
           NEW i, i = Head(s), ~ syscall[p].freeing, IsLast(i), CanLock(i),
           NEW b \in BOOLEAN, b, Continue(p, [syscall[p] EXCEPT !.freeing = b]),
           holder' = [holder EXCEPT ![i] = p],
           Update(Only(i, [copy[i] EXCEPT !.type = "free"])),
           entries' = [entries EXCEPT ![i] = NoEntries], UNCHANGED <<ref, opened, cwd>>
    PROVE  TreeInv'
<1>0. TreeTypes /\ EntryTypes
  BY DEF TreeInv, TreeTypes
<1>1. /\ i \in Inodes /\ HasRef(p, i) /\ syscall[p].at \notin {"parent", "unlink", "fill"}
      /\ \A j : ~ IsFresh(p, j) /\ ~ Frees(p, j) /\ ~ LocksInode(p, j)
  <2>1. \A j : ~ Frees(p, j)
    BY DEF Frees
  <2> QED
    BY <2>1, PutIs
<1>2. CopyIsDisk(i) /\ dinode[i].nlink = 0 /\ Lonely(p, i)
  BY <1>1, LastIs DEF Lonely
<1>3. /\ DiskTypes' /\ CopyTypes' /\ CopyIsDisk(i)'
      /\ dinode'[i].type = "free" /\ dinode'[i].nlink = 0
      /\ \A j \in Inodes \ {i} : dinode'[j] = dinode[j] /\ copy'[j] = copy[j]
  BY <1>0, <1>1, <1>2, FreeIs, Zenon
<1>4. /\ EntryTypes' /\ \A n \in PathNames : entries'[i][n] = NoInode
      /\ \A j \in Inodes \ {i} : entries'[j] = entries[j]
  <2>1. NoEntries \in [PathNames -> Inodes \cup {NoInode}]
        /\ \A n \in PathNames : NoEntries[n] = NoInode
    BY DEF NoEntries, PathNames
  <2> QED
    BY <1>0, <1>1, <2>1 DEF EntryTypes
<1>5. FreedNow(i)
  BY ONLY <1>2, <1>3, <1>4 DEF FreedNow
<1>6. FreeEffects(p, i)
  BY FreeBegins
<1>7. HandsInv'
  BY <1>1, <1>2, <1>5, <1>6, FreeHands, Zenon
<1>8. NamesInv'
  BY <1>1, <1>5, <1>6, FreeNames
<1>9. PlacesFit'
  BY <1>1, <1>2, <1>5, <1>6, FreePlaces
<1>10. CallTypes' /\ OtherTypes' /\ RemoverAlone'
  BY <1>6 DEF FreeEffects
<1> QED
  BY <1>3, <1>4, <1>7, <1>8, <1>9, <1>10 DEF TreeInv, TreeTypes

LEMMA PutKeeps ==
    ASSUME TreeInv, NEW p \in Callers, syscall[p].puts # <<>>, ~ syscall[p].freeing,
           IF syscall[p].at = "end" THEN Return(p, Tail(syscall[p].puts))
           ELSE Continue(p, [syscall[p] EXCEPT !.puts = Tail(@)])
    PROVE  \E e : Continue(p, e) /\ PutsOne(syscall[p], e)
<1> DEFINE c == syscall[p]
           e == [c EXCEPT !.puts = Tail(@)]
<1>0. c.freeing \in BOOLEAN /\ DOMAIN c = CallFields
  BY CallIs
<1>1. CASE c.at = "end"
  BY <1>1, PutGoesOn, Zenon
<1>2. CASE c.at # "end"
  <2>1. Continue(p, e)
    BY <1>2
  <2>2. /\ e.op = c.op /\ e.at = c.at /\ e.path = c.path /\ e.new = c.new /\ e.cur = c.cur
        /\ e.ip = c.ip /\ e.puts = Tail(c.puts) /\ e.freeing = c.freeing
        /\ DOMAIN e = CallFields
    BY <1>0 DEF CallFields
  <2> HIDE DEF e
  <2>3. PutsOne(c, e)
    BY <1>0, <2>2 DEF PutsOne
  <2> QED
    BY <2>1, <2>3
<1> QED
  BY <1>1, <1>2

LEMMA PutStep ==
    ASSUME TreeInv, NEW p \in Callers, Put(p)
    PROVE  TreeInv'
<1> DEFINE c == syscall[p]
           s == c.puts
           i == Head(s)
<1>1. s # <<>> /\ ~ c.freeing /\ UNCHANGED <<opened, cwd>>
  BY Zenon DEF Put
<1>2. CASE /\ ~ IsLast(i) /\ ref' = [ref EXCEPT ![i] = @ - 1] /\ copy' = Recycled(i)
           /\ IF c.at = "end" THEN Return(p, Tail(c.puts))
              ELSE Continue(p, [c EXCEPT !.puts = Tail(@)])
           /\ UNCHANGED <<dinode, holder, entries>>
  <2>1. PICK e : Continue(p, e) /\ PutsOne(syscall[p], e)
    BY <1>1, <1>2, PutKeeps
  <2> QED
    BY <1>1, <1>2, <2>1, PutKept
<1>3. CASE /\ IsLast(i) /\ CanLock(i) /\ holder' = [holder EXCEPT ![i] = p]
           /\ Update(Only(i, [copy[i] EXCEPT !.type = "free"]))
           /\ entries' = [entries EXCEPT ![i] = NoEntries]
           /\ Continue(p, [c EXCEPT !.freeing = TRUE]) /\ UNCHANGED ref
  BY <1>1, <1>3, PutFrees, Zenon
<1> QED
  BY <1>1, <1>2, <1>3, Zenon DEF Put

\* The inode is freed and the copy is dropped.
LEMMA FreedHands ==
    ASSUME TreeInv, NEW p \in Callers, NEW i, Frees(p, i), PutEffects(p, i),
           i \in Inodes, \A j : ~ IsFresh(p, j) /\ (LocksInode(p, j) <=> Frees(p, j)),
           dinode' = dinode, copy' = Invalid(i), holder' = [holder EXCEPT ![i] = Nobody]
    PROVE  HandsInv'
<1>0. /\ CopyTypes /\ OtherTypes /\ HandsInv /\ RefsCounted /\ HoldersKnown /\ CopiesAgree
      /\ OrphansKept /\ FreesAlone
  BY DEF TreeInv, TreeTypes, HandsInv
<1>e. /\ Others(p) /\ RefsCounted'
      /\ \A j : ~ Frees(p, j)' /\ ~ IsFresh(p, j)' /\ ~ LocksInode(p, j)'
      /\ \A j \in Inodes :
           /\ NumberOf(InHand[p], j) \in Nat /\ NumberOf(InHand'[p], j) \in Nat
           /\ NumberOf(InHand[p], j) = NumberOf(InHand'[p], j) + One(i = j)
           /\ NumberOf(InHand'[p], j) > 0 <=> HasRef(p, j)'
           /\ ref[j] \in Nat /\ ref'[j] \in Nat /\ ref[j] = ref'[j] + One(i = j)
  BY DEF PutEffects
<1>o. \A q \in Callers \ {p} : \A j :
        (Frees(q, j)' <=> Frees(q, j)) /\ (IsFresh(q, j)' <=> IsFresh(q, j))
  BY <1>e, OthersKeep
<1>f. \A j : Frees(p, j) <=> j = i
  BY DEF Frees
<1>n. /\ NumberOf(InHand[p], i) = 1
      /\ dinode[i].type = "free" \/ \E q \in Callers : IsFresh(q, i)
  BY <1>0 DEF FreesAlone
<1>h. ~ HasRef(p, i)'
  <2> DEFINE t == NumberOf(InHand[p], i)
             u == NumberOf(InHand'[p], i)
  <2>1. t = 1 /\ t = u + One(i = i) /\ u \in Nat /\ (u > 0 <=> HasRef(p, i)')
    BY <1>e, <1>n
  <2>2. One(i = i) = 1
    BY DEF One
  <2> HIDE DEF t, u
  <2> QED
    BY <2>1, <2>2
<1>c. /\ \A j \in Inodes \ {i} : copy'[j] = copy[j] /\ ref'[j] = ref[j]
      /\ ~ copy'[i].valid /\ ref[i] = ref'[i] + 1
  <2>1. ~ NoCopy.valid /\ copy'[i] = NoCopy
    BY <1>0 DEF NoCopy, Invalid, CopyTypes
  <2>2. \A j \in Inodes \ {i} : copy'[j] = copy[j]
    BY <1>0 DEF Invalid, CopyTypes
  <2>3. (\A j \in Inodes \ {i} : ref'[j] = ref[j]) /\ ref[i] = ref'[i] + 1
    <3>1. \A j \in Inodes : ref[j] \in Nat /\ ref'[j] \in Nat /\ ref[j] = ref'[j] + One(i = j)
      BY <1>e
    <3> QED
      BY ONLY <3>1, i \in Inodes DEF One
  <2> QED
    BY <2>1, <2>2, <2>3
<1>1. NoDangling' /\ FreesAlone' /\ FreshAlone' /\ FreeUnlinked'
  <2>1. \A j \in Inodes : Frees(p, j) => ~ HasRef(p, j)'
    BY <1>f, <1>h
  <2> QED
    BY <2>1, PutAlone
<1>2. HoldersKnown'
  <2>1. LocksMove(p)
    BY <1>0, <1>e, <1>f DEF LocksMove, OtherTypes
  <2> QED
    BY <1>0, <1>e, <2>1, HoldersStep
<1>3. CopiesAgree'
  <2>1. ASSUME NEW j \in Inodes, copy'[j].valid
        PROVE  ref'[j] > 0 /\ (CopyIsDisk(j)' \/ \E q \in Callers : Frees(q, j)')
    <3>1. j # i /\ copy'[j] = copy[j] /\ ref'[j] = ref[j]
      BY <1>c, <2>1
    <3>2. ref[j] > 0 /\ (CopyIsDisk(j) \/ \E q \in Callers : Frees(q, j))
      BY <1>0, <2>1, <3>1 DEF CopiesAgree
    <3>3. CopyIsDisk(j) => CopyIsDisk(j)'
      BY <3>1 DEF CopyIsDisk
    <3>4. \A q \in Callers : Frees(q, j) => Frees(q, j)'
      BY <1>f, <1>o, <3>1
    <3> QED
      BY <3>1, <3>2, <3>3, <3>4
  <2> QED
    BY <2>1, Zenon DEF CopiesAgree
<1>4. OrphansKept'
  <2>1. ASSUME NEW j \in Inodes, dinode'[j].type # "free", dinode'[j].nlink = 0
        PROVE  ref'[j] > 0 /\ (copy'[j].valid \/ \E q \in Callers : IsFresh(q, j)')
    <3>1. CASE j = i
      <4>1. PICK q \in Callers : IsFresh(q, i)
        BY <1>n, <2>1, <3>1
      <4>2. q # p /\ IsFresh(q, i)' /\ HasRef(q, i)
        BY <1>o, <4>1, FreshRef
      <4>3. /\ NumberOf(InHand[q], i) \in Nat /\ NumberOf(InHand[q], i) > 0
            /\ NumberOf(InHand[p], i) + NumberOf(InHand[q], i) <= ref[i]
        BY <1>0, <4>2, RefsAtLeast
      <4>4. ref'[i] > 0
        <5>1. ref[i] \in Nat /\ ref'[i] \in Nat
          BY <1>e
        <5> QED
          BY ONLY <4>3, <5>1, <1>n, <1>c
      <4> QED
        BY <3>1, <4>2, <4>4
    <3>2. CASE j # i
      <4>1. copy'[j] = copy[j] /\ ref'[j] = ref[j]
        BY <1>c, <3>2
      <4>2. ref[j] > 0 /\ (copy[j].valid \/ \E q \in Callers : IsFresh(q, j))
        BY <1>0, <2>1 DEF OrphansKept
      <4> QED
        BY <1>o, <4>1, <4>2
    <3> QED
      BY <3>1, <3>2
  <2> QED
    BY <2>1, Zenon DEF OrphansKept
<1> QED
  BY <1>1, <1>2, <1>3, <1>4, <1>e DEF HandsInv

LEMMA PutFreedStep ==
    ASSUME TreeInv, NEW p \in Callers, PutFreed(p)
    PROVE  TreeInv'
<1> DEFINE c == syscall[p]
           s == c.puts
           i == Head(s)
<1>0. /\ CallTypes /\ CopyTypes /\ OtherTypes /\ HoldersKnown
  BY DEF TreeInv, TreeTypes, HandsInv
<1>1. /\ c.freeing /\ copy' = Invalid(i) /\ holder' = [holder EXCEPT ![i] = Nobody]
      /\ ref' = [ref EXCEPT ![i] = @ - 1] /\ UNCHANGED <<dinode, entries, opened, cwd>>
      /\ IF c.at = "end" THEN Return(p, Tail(c.puts))
         ELSE Continue(p, [c EXCEPT !.puts = Tail(@), !.freeing = FALSE])
  BY Zenon DEF PutFreed
<1>2. s # <<>>
  BY <1>0, <1>1 DEF CallTypes, IsCall
<1>3. PICK e : Continue(p, e) /\ PutsOne(syscall[p], e)
  <2>1. FALSE \in BOOLEAN /\ ~ FALSE
    OBVIOUS
  <2> QED
    BY <1>1, <1>2, <2>1, PutGoesOn, Zenon
<1>4. /\ i \in Inodes /\ syscall[p].at \notin {"unlink", "fill"}
      /\ \A j : ~ IsFresh(p, j) /\ (LocksInode(p, j) <=> Frees(p, j))
  BY <1>2, PutIs
<1>5. PutEffects(p, i)
  <2>1. holder' \in [Inodes -> Callers \cup {Nobody}]
    BY <1>0, <1>1 DEF OtherTypes
  <2> QED
    BY <1>1, <1>2, <1>3, <2>1, PutTakes
<1>6. Frees(p, i)
  BY <1>1 DEF Frees
<1>7. HandsInv'
  BY <1>1, <1>4, <1>5, <1>6, FreedHands
<1>8. CopyTypes'
  <2> DEFINE T == [valid : BOOLEAN, type : InodeTypes, nlink : Nat]
  <2>1. NoCopy \in T
    BY DEF NoCopy, InodeTypes
  <2>2. copy \in [Inodes -> T]
    BY <1>0 DEF CopyTypes
  <2> HIDE DEF T
  <2>3. copy' \in [Inodes -> T]
    BY <1>1, <1>4, <2>1, <2>2 DEF Invalid
  <2> QED
    BY <2>3 DEF CopyTypes, T
<1>9. \A q \in Callers \ {p} : \A j \in Inodes :
        LocksInode(q, j) => (copy[j].valid => copy'[j].valid)
  <2> TAKE q \in Callers \ {p}
  <2> TAKE j \in Inodes
  <2> HAVE LocksInode(q, j)
  <2>1. j # i
    BY <1>0, <1>4, <1>6 DEF HoldersKnown
  <2>2. copy'[j] = copy[j]
    BY <1>0, <1>1, <2>1 DEF Invalid, CopyTypes
  <2> QED
    BY <2>2
<1> QED
  BY <1>1, <1>4, <1>5, <1>7, <1>8, <1>9, PutRest

-----------------------------------------------------------------------------
(* The initial states, every step, and the theorems.                          *)

LEMMA NoEntriesAre ==
    /\ NoEntries \in [PathNames -> Inodes \cup {NoInode}]
    /\ \A n \in PathNames : NoEntries[n] = NoInode
    /\ DotDot \in PathNames /\ DotDot \notin Names /\ Names \subseteq PathNames
BY FileTreeAssumption DEF NoEntries, PathNames

LEMMA InitTypes ==
    ASSUME TreeInit
    PROVE  TreeTypes
<1>1. Root \in Inodes /\ NoInode \notin Inodes
  BY InodesAre
<1>2. DiskTypes
  BY DEF TreeInit, DiskTypes, Free, InodeTypes
<1>3. CopyTypes
  <2> DEFINE T == [valid : BOOLEAN, type : InodeTypes, nlink : Nat]
  <2>1. NoCopy \in T
    BY DEF NoCopy, InodeTypes
  <2>2. copy = [i \in Inodes |-> NoCopy]
    BY DEF TreeInit
  <2> HIDE DEF T
  <2>3. copy \in [Inodes -> T]
    BY <2>1, <2>2
  <2> QED
    BY <2>3 DEF CopyTypes, T
<1>4. EntryTypes
  BY <1>1, NoEntriesAre DEF TreeInit, EntryTypes
<1>5. CallTypes
  <2>1. IsCall(NoCall)
    <3>1. CallShape(NoCall)
      BY NoCallIs DEF CallShape
    <3>2. CallPath(NoCall)
      BY NoCallIs DEF CallPath
    <3> QED
      BY <3>1, <3>2, NoCallIs, PutsAre DEF IsCall
  <2>2. DOMAIN syscall = Callers /\ \A p \in Callers : syscall[p] = NoCall
    BY DEF TreeInit
  <2> QED
    BY <2>1, <2>2, Zenon DEF CallTypes
<1>6. OtherTypes
  <2>1. Cardinality(Callers) \in Nat
    BY FS_CardinalityType, FileTreeAssumption
  <2> QED
    BY <1>1, <2>1 DEF TreeInit, OtherTypes
<1> QED
  BY <1>2, <1>3, <1>4, <1>5, <1>6 DEF TreeTypes

LEMMA InitCalls ==
    ASSUME TreeInit, NEW p \in Callers
    PROVE  /\ syscall[p].op = "none" /\ syscall[p].at = "end" /\ syscall[p].cur = NoInode
           /\ syscall[p].ip = NoInode /\ syscall[p].puts = <<>> /\ ~ syscall[p].freeing
           /\ cwd[p] = Root /\ opened[p] = NoInode
           /\ \A i : ~ Frees(p, i) /\ ~ IsFresh(p, i) /\ ~ LocksInode(p, i)
<1>1. syscall[p] = NoCall /\ cwd[p] = Root /\ opened[p] = NoInode
  BY DEF TreeInit
<1>2. /\ syscall[p].op = "none" /\ syscall[p].at = "end" /\ syscall[p].cur = NoInode
      /\ syscall[p].ip = NoInode /\ syscall[p].puts = <<>> /\ ~ syscall[p].freeing
  BY <1>1, NoCallIs, Zenon
<1>3. Outside(syscall[p])
  BY <1>2 DEF Outside
<1> QED
  BY <1>1, <1>2, <1>3, OutsideHolds

LEMMA InitRefs ==
    ASSUME TreeInit
    PROVE  RefsCounted
<1>0. Root \in Inodes /\ NoInode \notin Inodes
  BY InodesAre
<1>1. \A p \in Callers : \A s \in Slots : InHand[p][s] = IF s = "cwd" THEN Root ELSE NoInode
  <2> TAKE p \in Callers
  <2>1. InHand[p] = Handles(cwd[p], opened[p], syscall[p])
    BY HandIs
  <2>2. /\ syscall[p].cur = NoInode /\ syscall[p].ip = NoInode /\ cwd[p] = Root
        /\ opened[p] = NoInode
        /\ NextPut(syscall[p].puts) = NoInode /\ LastPut(syscall[p].puts) = NoInode
    BY InitCalls, PutsAre
  <2>3. InHand[p] = [cwd |-> Root, open |-> NoInode, cur |-> NoInode, ip |-> NoInode,
                     put |-> NoInode, last |-> NoInode]
    BY <2>1, <2>2 DEF Handles
  <2> QED
    BY <2>3 DEF Slots
<1>2. RefSet(InHand, Root) = Callers \X {"cwd"}
  BY <1>0, <1>1 DEF RefSet, Slots
<1>3. IsFiniteSet({"cwd"}) /\ Cardinality({"cwd"}) = 1 /\ IsFiniteSet(Callers)
      /\ Cardinality(Callers) \in Nat
  BY FS_Singleton, FS_CardinalityType, FileTreeAssumption
<1>4. Cardinality(Callers \X {"cwd"}) = Cardinality(Callers) * 1
  BY <1>3, FS_Product
<1>5. Cardinality(RefSet(InHand, Root)) = Cardinality(Callers)
  BY <1>2, <1>3, <1>4
<1>6. \A i \in Inodes \ {Root} : Cardinality(RefSet(InHand, i)) = 0
  <2> TAKE i \in Inodes \ {Root}
  <2>1. RefSet(InHand, i) = {}
    BY <1>0, <1>1 DEF RefSet
  <2> QED
    BY <2>1, FS_EmptySet
<1> QED
  BY <1>5, <1>6 DEF RefsCounted, TreeInit

LEMMA InitDisk ==
    ASSUME TreeInit
    PROVE  /\ dinode[Root].type = "dir" /\ dinode[Root].nlink = 1
           /\ \A i \in Inodes \ {Root} : dinode[i].type = "free" /\ dinode[i].nlink = 0
           /\ \A i \in Inodes : ~ copy[i].valid
           /\ \A i \in Inodes : \A n \in PathNames :
                entries[i][n] = IF i = Root /\ n = DotDot THEN Root ELSE NoInode
           /\ Live(Root) /\ \A i \in Inodes \ {Root} : ~ Live(i)
<1>1. /\ dinode[Root].type = "dir" /\ dinode[Root].nlink = 1
      /\ \A i \in Inodes \ {Root} : dinode[i].type = "free" /\ dinode[i].nlink = 0
  BY InodesAre DEF TreeInit, Free
<1>2. \A i \in Inodes : ~ copy[i].valid
  <2>1. ~ NoCopy.valid
    BY DEF NoCopy
  <2> QED
    BY <2>1 DEF TreeInit
<1>3. \A i \in Inodes : \A n \in PathNames :
        entries[i][n] = IF i = Root /\ n = DotDot THEN Root ELSE NoInode
  BY NoEntriesAre, InodesAre DEF TreeInit
<1> QED
  BY <1>1, <1>2, <1>3 DEF Live, IsDir

LEMMA InitNames ==
    ASSUME TreeInit
    PROVE  NamesInv
<1>0. /\ Root \in Inodes /\ NoInode \notin Inodes
      /\ DotDot \in PathNames /\ DotDot \notin Names /\ Names \subseteq PathNames
      /\ DirNames \subseteq Names
  BY InodesAre, NoEntriesAre DEF Names
<1>n. \A i \in Inodes : \A n \in Names : entries[i][n] = NoInode
  BY <1>0, InitDisk
<1>1. NamesFit
  BY <1>n DEF NamesFit
<1>2. ParentsFit
  <2>1. \A i \in Inodes : (Live(i) <=> i = Root) /\ (IsDir(i) <=> i = Root)
    BY InitDisk DEF IsDir
  <2>2. entries[Root][DotDot] = Root /\ \A i \in Inodes \ {Root} : entries[i][DotDot] = NoInode
    BY <1>0, InitDisk
  <2> HIDE DEF Live, IsDir
  <2> QED
    BY <1>0, <2>1, <2>2, Zenon DEF ParentsFit
<1>3. RootStays
  BY <1>0, InitDisk DEF RootStays
<1>4. LinksCounted
  <2> SUFFICES ASSUME NEW i \in Inodes PROVE dinode[i].nlink = Linkers(i)
    BY DEF LinksCounted
  <2>1. NamesOf(i) = {}
    BY <1>0, <1>n DEF NamesOf
  <2>2. SubdirsOf(i) = {}
    BY <1>0, InitDisk DEF SubdirsOf
  <2>3. LinkCallsTo(i) = {}
    BY InitCalls DEF LinkCallsTo
  <2>4. Linkers(i) = One(i = Root)
    BY <2>1, <2>2, <2>3, FS_EmptySet DEF Linkers, One
  <2> QED
    BY <2>4, InitDisk DEF One
<1>5. IsTree
  <2>1. [i \in Inodes |-> 0] \in [Inodes -> Nat]
    OBVIOUS
  <2>2. \A i \in Inodes : [j \in Inodes |-> 0][i] <= 0
    OBVIOUS
  <2>3. \A i \in Inodes : \A n \in DirNames : entries[i][n] = NoInode
    BY <1>0, <1>n
  <2> QED
    BY <2>1, <2>2, <2>3 DEF IsTree
<1> QED
  BY <1>1, <1>2, <1>3, <1>4, <1>5 DEF NamesInv

LEMMA InitTree == TreeInit => TreeInv
<1> SUFFICES ASSUME TreeInit PROVE TreeInv
  OBVIOUS
<1>1. TreeTypes /\ RefsCounted /\ NamesInv
  BY InitTypes, InitRefs, InitNames
<1>2. NoDangling
  <2>1. \A p \in Callers : \A i \in Inodes : HasRef(p, i) => i = Root
    BY InitCalls, HandsNow, PutsAre, InodesAre
  <2> QED
    BY <2>1, InitDisk DEF NoDangling
<1>3. FreesAlone /\ FreshAlone
  BY InitCalls DEF FreesAlone, FreshAlone
<1>4. HoldersKnown
  <2>1. \A i \in Inodes : holder[i] = Nobody
    BY DEF TreeInit
  <2> QED
    BY <2>1, InitCalls, FileTreeAssumption DEF HoldersKnown
<1>5. CopiesAgree /\ OrphansKept /\ FreeUnlinked
  BY InitDisk DEF CopiesAgree, OrphansKept, FreeUnlinked
<1>6. PlacesFit
  <2> SUFFICES ASSUME NEW p \in Callers PROVE PlaceFits(p)
    BY DEF PlacesFit
  <2>1. Live(Root)
    BY InitDisk
  <2> QED
    BY <2>1, InitCalls DEF PlaceFits
<1>7. RemoverAlone
  <2>1. \A p \in Callers : ~ Removes(syscall[p])
    BY InitCalls DEF Removes
  <2> QED
    BY <2>1 DEF RemoverAlone
<1> QED
  BY <1>1, <1>2, <1>3, <1>4, <1>5, <1>6, <1>7 DEF TreeInv, HandsInv

LEMMA StutterTree ==
    ASSUME TreeInv, UNCHANGED treeVars
    PROVE  TreeInv'
<1>1. UNCHANGED <<dinode, copy, ref, holder, entries, opened, cwd, syscall>>
  BY DEF treeVars
<1>2. InHand' = InHand
  BY <1>1 DEF InHand
<1>3. TreeTypes' /\ RemoverAlone' /\ PlacesFit'
  BY <1>1 DEF TreeInv, TreeTypes, DiskTypes, CopyTypes, EntryTypes, CallTypes, OtherTypes,
              RemoverAlone, PlacesFit, PlaceFits, Live, IsDir
<1>4. HandsInv'
  BY <1>1, <1>2 DEF TreeInv, HandsInv, RefsCounted, NoDangling, FreesAlone, FreshAlone,
     HoldersKnown, CopiesAgree, OrphansKept, FreeUnlinked, HasRef, Frees, IsFresh, LocksInode,
     CopyIsDisk
<1>5. NamesInv'
  <2>1. NamesFit' /\ ParentsFit' /\ RootStays' /\ IsTree'
    BY <1>1 DEF TreeInv, NamesInv, NamesFit, ParentsFit, RootStays, IsTree, Live, IsDir
  <2>2. LinksCounted'
    <3>1. \A i : Linkers(i)' = Linkers(i)
      BY <1>1 DEF Linkers, NamesOf, SubdirsOf, LinkCallsTo
    <3> QED
      BY <1>1, <3>1 DEF TreeInv, NamesInv, LinksCounted
  <2> QED
    BY <2>1, <2>2 DEF NamesInv
<1> QED
  BY <1>3, <1>4, <1>5 DEF TreeInv

LEMMA NextTree == TreeInv /\ [TreeNext]_treeVars => TreeInv'
<1> SUFFICES ASSUME TreeInv, [TreeNext]_treeVars PROVE TreeInv'
  OBVIOUS
<1>1. CASE UNCHANGED treeVars
  BY <1>1, StutterTree
<1>2. ASSUME NEW p \in Callers,
             \/ \E r \in Requests : Allowed(p, r) /\ BeginCall(p, r)
             \/ Walk(p) \/ Put(p) \/ PutFreed(p)
             \/ OpenFound(p) \/ ChdirFound(p) \/ Close(p)
             \/ LinkFound(p) \/ LinkEntry(p) \/ LinkUndo(p)
             \/ UnlinkFind(p) \/ UnlinkEntry(p)
             \/ CreateLook(p) \/ CreateExisting(p) \/ CreateFill(p)
      PROVE  TreeInv'
  <2>1. CASE \E r \in Requests : Allowed(p, r) /\ BeginCall(p, r)
    BY <2>1, CallBegins
  <2>2. CASE Walk(p) \/ Put(p) \/ PutFreed(p)
    BY <2>2, WalkStep, PutStep, PutFreedStep
  <2>3. CASE OpenFound(p) \/ ChdirFound(p) \/ Close(p)
    BY <2>3, OpenFoundStep, ChdirStep, CloseStep
  <2>4. CASE LinkFound(p) \/ LinkEntry(p) \/ LinkUndo(p)
    BY <2>4, LinkFoundStep, LinkEntryStep, LinkUndoStep
  <2>5. CASE UnlinkFind(p) \/ UnlinkEntry(p)
    BY <2>5, UnlinkFindStep, UnlinkEntryStep
  <2>6. CASE CreateLook(p) \/ CreateExisting(p) \/ CreateFill(p)
    BY <2>6, CreateLookStep, ExistingStep, CreateFillStep
  <2> QED
    BY <1>2, <2>1, <2>2, <2>3, <2>4, <2>5, <2>6, Zenon
<1> QED
  BY <1>1, <1>2, Zenon DEF TreeNext

\* What holds together of itable, the inodes on disk, the directories and the
\* calls under way, in every state.
THEOREM TreeStands == TreeSpec => []TreeInv
BY InitTree, NextTree, PTL DEF TreeSpec

LEMMA TreeSound == TreeInv => InodesSound
<1> SUFFICES ASSUME TreeInv, NEW i \in Inodes
             PROVE  /\ ref[i] = Cardinality(References(i))
                    /\ dinode[i].nlink = Linkers(i)
                    /\ dinode[i].type = "free" => Linkers(i) = 0 /\ ref[i] = One(Freeing(i))
                    /\ dinode[i].type # "free" /\ dinode[i].nlink = 0 => ref[i] > 0
                    /\ ref[i] > 0 /\ copy[i].valid /\ ~ Freeing(i) =>
                         copy[i].type = dinode[i].type /\ copy[i].nlink = dinode[i].nlink
  BY DEF InodesSound
<1>0. /\ RefsCounted /\ NoDangling /\ FreesAlone /\ FreshAlone /\ CopiesAgree /\ OrphansKept
      /\ FreeUnlinked /\ LinksCounted
  BY DEF TreeInv, HandsInv, NamesInv
<1>1. References(i) = RefSet(InHand, i) /\ ref[i] = Cardinality(RefSet(InHand, i))
  BY <1>0 DEF References, RefSet, RefsCounted
<1>2. dinode[i].nlink = Linkers(i)
  BY <1>0 DEF LinksCounted
<1>3. Freeing(i) <=> \E p \in Callers : Frees(p, i)
  BY DEF Freeing, Frees
<1>4. ASSUME dinode[i].type = "free" PROVE ref[i] = One(Freeing(i))
  <2>1. CASE Freeing(i)
    <3>1. PICK p \in Callers : Frees(p, i)
      BY <1>3, <2>1
    <3>2. \A q \in Callers : ~ IsFresh(q, i)
      BY <1>0, <1>4 DEF FreshAlone, TypeMade
    <3>3. NumberOf(InHand[p], i) = 1 /\ \A q \in Callers \ {p} : ~ HasRef(q, i)
      BY <1>0, <3>1, <3>2 DEF FreesAlone
    <3>4. Cardinality(RefSet(InHand, i)) = NumberOf(InHand[p], i)
      BY <3>3, OnlyRefs DEF HasRef
    <3>5. ref[i] = 1
      BY <1>1, <3>3, <3>4, Zenon
    <3> QED
      BY <2>1, <3>5 DEF One
  <2>2. CASE ~ Freeing(i)
    <3>1. \A p \in Callers : ~ HasRef(p, i)
      BY <1>0, <1>3, <1>4, <2>2 DEF NoDangling
    <3>2. RefSet(InHand, i) = {}
      BY <3>1 DEF RefSet, HasRef
    <3>3. ref[i] = 0
      BY <1>1, <3>2, FS_EmptySet
    <3> QED
      BY <2>2, <3>3 DEF One
  <2> QED
    BY <2>1, <2>2
<1>5. dinode[i].type = "free" => Linkers(i) = 0
  BY <1>0, <1>2 DEF FreeUnlinked
<1>6. dinode[i].type # "free" /\ dinode[i].nlink = 0 => ref[i] > 0
  BY <1>0 DEF OrphansKept
<1>7. copy[i].valid /\ ~ Freeing(i) =>
        copy[i].type = dinode[i].type /\ copy[i].nlink = dinode[i].nlink
  <2> SUFFICES ASSUME copy[i].valid, ~ Freeing(i)
               PROVE  copy[i].type = dinode[i].type /\ copy[i].nlink = dinode[i].nlink
    OBVIOUS
  <2>1. CopyIsDisk(i)
    BY <1>0, <1>3 DEF CopiesAgree
  <2> QED
    BY <2>1 DEF CopyIsDisk
<1> QED
  BY <1>1, <1>2, <1>4, <1>5, <1>6, <1>7

\* Whoever waits while it has a lock is removing a name or filling an inode,
\* and waits for that inode.
LEMMA WaiterHolds ==
    ASSUME TreeInv, NEW g \in Callers, NEW i \in Inodes, holder[i] = g, Awaited(g) # NoInode
    PROVE  /\ syscall[g].at \in {"unlink", "fill"} /\ syscall[g].cur = i
           /\ syscall[g].op # "none" /\ Live(i) /\ Awaited(g) = syscall[g].ip
           /\ syscall[g].ip \in Inodes
<1>1. LocksInode(g, i)
  BY DEF TreeInv, HandsInv, HoldersKnown
<1>2. IsCall(syscall[g]) /\ PlaceFits(g)
  BY DEF TreeInv, TreeTypes, CallTypes, PlacesFit
<1>3. syscall[g].puts = <<>>
  BY DEF Awaited
<1>4. syscall[g].at \in {"unlink", "fill"} /\ syscall[g].cur = i
  BY <1>1, <1>2, <1>3 DEF LocksInode, Frees, IsCall
<1>5. syscall[g].op # "none" /\ syscall[g].ip \in Inodes
  BY <1>2, <1>4 DEF IsCall, CallShape
<1>6. Live(i)
  BY <1>2, <1>4 DEF PlaceFits
<1>7. Awaited(g) = syscall[g].ip
  BY <1>4 DEF Awaited
<1> QED
  BY <1>4, <1>5, <1>6, <1>7

LEMMA AwaitedIs ==
    ASSUME TreeInv, NEW p \in Callers, Awaited(p) # NoInode
    PROVE  Awaited(p) \in Inodes
<1>1. IsCall(syscall[p])
  BY DEF TreeInv, TreeTypes, CallTypes
<1>2. CallShape(syscall[p]) /\ syscall[p].puts = <<>>
  BY <1>1 DEF IsCall, Awaited
<1> QED
  BY <1>2 DEF CallShape, Awaited

LEMMA TreeOrdered == TreeInv => InodeLocksOrdered
<1> SUFFICES ASSUME TreeInv PROVE InodeLocksOrdered
  OBVIOUS
<1>0. /\ CallTypes /\ HoldersKnown /\ FreshAlone /\ NamesFit /\ IsTree /\ PlacesFit /\ RemoverAlone
      /\ OtherTypes
  BY DEF TreeInv, TreeTypes, HandsInv, NamesInv
<1>1. ASSUME NEW S \in SUBSET Callers, NEW p \in S,
             \A q \in S : Awaited(q) # NoInode /\ holder[Awaited(q)] \in S
      PROVE  FALSE
  <2> DEFINE k == Awaited(p)
             h == holder[k]
             i == syscall[h].ip
             g == holder[i]
  <2>1. k \in Inodes /\ h \in S /\ h \in Callers /\ Awaited(h) # NoInode
    BY <1>1, AwaitedIs
  <2>2. /\ syscall[h].at \in {"unlink", "fill"} /\ syscall[h].cur = k /\ syscall[h].op # "none"
        /\ Awaited(h) = i /\ i \in Inodes
    BY <2>1, WaiterHolds
  <2>3. g \in S /\ g \in Callers /\ Awaited(g) # NoInode
    BY <1>1, <2>1, <2>2
  <2>4. /\ syscall[g].at \in {"unlink", "fill"} /\ syscall[g].cur = i /\ syscall[g].op # "none"
        /\ Live(i)
    BY <2>2, <2>3, WaiterHolds
  <2> HIDE DEF k, h, i, g
  <2>5. syscall[h].at = "unlink"
    <3> SUFFICES ASSUME IsFresh(h, i) PROVE FALSE
      BY <2>2 DEF IsFresh, i
    <3>1. dinode[i].nlink = 0
      BY <1>0, <2>1, <2>2 DEF FreshAlone
    <3> QED
      BY <2>4, <3>1 DEF Live
  <2> DEFINE n == Head(syscall[h].path)
  <2>6. n \in PathNames /\ n # DotDot /\ n = LastOf(syscall[h].path) /\ syscall[h].op = "unlink"
    <3>1. IsCall(syscall[h])
      BY <1>0, <2>1 DEF CallTypes
    <3>2. /\ syscall[h].path \in Seq(PathNames) /\ syscall[h].path # <<>>
          /\ Len(syscall[h].path) = 1 /\ LastOf(syscall[h].path) # DotDot
      BY <2>5, <3>1 DEF IsCall, CallPath
    <3>3. syscall[h].op = "unlink"
      BY <2>5, <3>1 DEF IsCall, CallShape
    <3> QED
      BY <3>2, <3>3, PathEnds
  <2>7. entries[k][n] = i /\ i # NoInode
    BY <1>0, <2>1, <2>2, <2>5, InodesAre DEF PlacesFit, PlaceFits, i
  <2>8. n \in DirNames
    <3>1. n \in Names /\ dinode[i].type # "file"
      BY <2>4, <2>6 DEF PathNames, Live, IsDir
    <3>2. n \in FileNames => dinode[i].type = "file"
      BY <1>0, <2>1, <2>7, <3>1 DEF NamesFit
    <3> QED
      BY <3>1, <3>2 DEF Names
  <2>9. g = h
    <3>1. Removes(syscall[h])
      BY <2>6, <2>8 DEF Removes
    <3> QED
      BY <1>0, <2>1, <2>3, <2>4, <3>1 DEF RemoverAlone
  <2>10. i = k
    BY <2>2, <2>4, <2>9
  <2>11. PICK M \in Nat, d \in [Inodes -> Nat] :
           \A j \in Inodes : \A m \in DirNames :
             entries[j][m] # NoInode => d[entries[j][m]] > d[j]
    BY <1>0 DEF IsTree
  <2>12. d[k] > d[k] /\ d[k] \in Nat
    BY <2>1, <2>7, <2>8, <2>10, <2>11
  <2> QED
    BY <2>12
<1>2. \A S \in SUBSET Callers : S # {} =>
        \E p \in S : Awaited(p) = NoInode \/ holder[Awaited(p)] \notin S
  BY <1>1
<1>3. ASSUME NEW p \in Callers, syscall[p].puts # <<>>, ~ syscall[p].freeing,
             IsLast(Head(syscall[p].puts))
      PROVE  CanLock(Head(syscall[p].puts))
  <2> DEFINE i == Head(syscall[p].puts)
  <2>1. i \in Inodes /\ HasRef(p, i) /\ \A j : ~ IsFresh(p, j)
    BY <1>3, PutIs
  <2>2. \A q \in Callers : ~ LocksInode(q, i)
    BY <1>3, <2>1, LastIs
  <2>3. holder[i] \in Callers \cup {Nobody} /\ holder[i] \notin Callers
    BY <1>0, <2>1, <2>2 DEF HoldersKnown, OtherTypes
  <2> QED
    BY <2>3 DEF CanLock
<1> QED
  BY <1>2, <1>3 DEF InodeLocksOrdered

\* However open, create, link, unlink, chdir and close of any number of
\* processes mix, nlink on disk and ref in itable are the numbers of links and
\* references there are, a name never leads to a free inode, and only iput, which
\* frees it, has a reference to one (ialloc, iput, sys_link, sys_unlink, create).
THEOREM InodesStaySound == TreeSpec => []InodesSound
BY TreeStands, TreeSound, PTL

\* No circle of processes waits in ilock for inodes they have locked, and iput
\* gets the lock of an inode whose last reference it drops at once, as fs.c says
\* it must.
THEOREM InodeLocksStayOrdered == TreeSpec => []InodeLocksOrdered
BY TreeStands, TreeOrdered, PTL
=============================================================================
