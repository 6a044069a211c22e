------------------------------ MODULE FileTree ------------------------------
(* Inodes and directories: the table of inodes in memory, allocation, path    *)
(* lookup and directory entries (kernel/fs.c), and the calls open, mkdir,     *)
(* link, unlink, chdir and close (kernel/sysfile.c, kernel/file.c).           *)
(*                                                                            *)
(* A step is what a call does from one ilock that may have to wait to the     *)
(* next.  The inode and the data of a directory change only in transactions   *)
(* (DiskLog); blocks and contents of files are left out, and so is the limit  *)
(* on inodes in memory.  A path is a sequence of names and starts at the      *)
(* working directory.                                                         *)
EXTENDS Naturals, Sequences, FiniteSets

CONSTANTS
    Callers,            \* processes
    InodeCount,         \* sb.ninodes; inode 1 is ROOTINO
    FileNames, DirNames,
    DotDot,             \* ".."
    Requests,           \* [op, path, new]: the calls programs make
    Nobody

Root == 1
Inodes == 1 .. InodeCount
Names == FileNames \cup DirNames
NoInode == 0

ASSUME FileTreeAssumption ==
    /\ InodeCount \in Nat \ {0}
    /\ IsFiniteSet(Callers) /\ IsFiniteSet(Names)
    /\ DotDot \notin Names /\ FileNames \cap DirNames = {}
    /\ \A r \in Requests :
         /\ r.op \in {"open", "create", "mkdir", "link", "unlink", "chdir"}
         /\ {r.path, r.new} \subseteq Seq(Names \cup {DotDot}) /\ r.path # <<>>
         /\ r.op = "link" => r.new # <<>>
    /\ Nobody \notin Callers

VARIABLES
    dinode,     \* [type, nlink] on disk
    copy,       \* [valid, type, nlink]: the entry of itable that has the inode
    ref,        \* its ref, 0: no entry
    holder,     \* the process that has its sleep-lock
    entries,    \* entries of a directory, "." left out
    opened,     \* the inode a process has open
    cwd,
    syscall     \* the call a process is in

treeVars == <<dinode, copy, ref, holder, entries, opened, cwd, syscall>>

Free == [type |-> "free", nlink |-> 0]
NoCopy == [valid |-> FALSE, type |-> "free", nlink |-> 0]
NoEntries == [n \in Names \cup {DotDot} |-> NoInode]

\* cur and ip are inodes the call has a reference to, puts those it has yet to
\* iput before it goes on; freeing: it is in the middle of one.
NoCall == [op |-> "none", at |-> "end", path |-> <<>>, new |-> <<>>,
           cur |-> NoInode, ip |-> NoInode, puts |-> <<>>, freeing |-> FALSE]

\* mkfs makes the root.
TreeInit ==
    /\ dinode = [i \in Inodes |-> IF i = Root THEN [type |-> "dir", nlink |-> 1] ELSE Free]
    /\ copy = [i \in Inodes |-> NoCopy]
    /\ ref = [i \in Inodes |-> IF i = Root THEN Cardinality(Callers) ELSE 0]
    /\ holder = [i \in Inodes |-> Nobody]
    /\ entries = [i \in Inodes |-> IF i = Root THEN [NoEntries EXCEPT ![DotDot] = Root]
                                   ELSE NoEntries]
    /\ opened = [p \in Callers |-> NoInode]
    /\ cwd = [p \in Callers |-> Root]
    /\ syscall = [p \in Callers |-> NoCall]

NotCalling(p) == syscall[p] = NoCall
Reached(p, ops, at) ==
    syscall[p].op \in ops /\ syscall[p].at = at /\ syscall[p].puts = <<>>
Continue(p, c) == syscall' = [syscall EXCEPT ![p] = c]

\* The call returns when it has put its inodes.
Return(p, puts) ==
    Continue(p, [NoCall EXCEPT !.puts = puts])

----------------------------------------------------------------------------
(* ilock, iupdate, iget and iput.                                             *)

\* ilock waits, and reads the inode unless the copy is valid.
CanLock(i) == holder[i] = Nobody
Locked(i) == IF copy[i].valid THEN copy[i]
             ELSE [valid |-> TRUE, type |-> dinode[i].type, nlink |-> dinode[i].nlink]

\* The inodes of changed have new values, in memory and, by iupdate, on disk.
Update(changed) ==
    /\ copy' = [i \in Inodes |-> IF i \in DOMAIN changed THEN changed[i] ELSE copy[i]]
    /\ dinode' = [i \in Inodes |->
                    IF i \in DOMAIN changed
                    THEN [type |-> changed[i].type, nlink |-> changed[i].nlink]
                    ELSE dinode[i]]
WithLinks(ino, n) == [ino EXCEPT !.nlink = n]
Only(i, ino) == [j \in {i} |-> ino]

\* ilock with nothing to update.
JustRead(i) == copy' = [copy EXCEPT ![i] = Locked(i)] /\ UNCHANGED dinode

Get(i) == ref' = [ref EXCEPT ![i] = @ + 1]

\* An entry without references will be found by nobody; iget recycles it as
\* not valid.
Recycled(i) == [copy EXCEPT ![i] = IF ref[i] = 1 THEN NoCopy ELSE @]

\* iput: the last reference to an inode without links frees it ...
IsLast(i) == ref[i] = 1 /\ copy[i].valid /\ copy[i].nlink = 0

Put(p) ==
    LET c == syscall[p]
        i == Head(c.puts)
    IN /\ c.puts # <<>> /\ ~ c.freeing
       /\ \/ /\ ~ IsLast(i)
             /\ ref' = [ref EXCEPT ![i] = @ - 1]
             /\ copy' = Recycled(i)
             /\ IF c.at = "end" THEN Return(p, Tail(c.puts))
                ELSE Continue(p, [c EXCEPT !.puts = Tail(@)])
             /\ UNCHANGED <<dinode, holder, entries>>
          \/ /\ IsLast(i) /\ CanLock(i)
             /\ holder' = [holder EXCEPT ![i] = p]
             /\ Update(Only(i, [copy[i] EXCEPT !.type = "free"]))
             /\ entries' = [entries EXCEPT ![i] = NoEntries]
             /\ Continue(p, [c EXCEPT !.freeing = TRUE])
             /\ UNCHANGED ref
       /\ UNCHANGED <<opened, cwd>>

\* A variant with a plausible bug, for the mutation checks: it stays valid.
Invalid_Not(i) == Recycled(i)

\* ... and invalidates the copy before it lets go of it: the inode may already
\* be allocated again.
Invalid(i) == [copy EXCEPT ![i] = NoCopy]

PutFreed(p) ==
    LET c == syscall[p]
        i == Head(c.puts)
    IN /\ c.freeing
       /\ copy' = Invalid(i)
       /\ holder' = [holder EXCEPT ![i] = Nobody]
       /\ ref' = [ref EXCEPT ![i] = @ - 1]
       /\ IF c.at = "end" THEN Return(p, Tail(c.puts))
          ELSE Continue(p, [c EXCEPT !.puts = Tail(@), !.freeing = FALSE])
       /\ UNCHANGED <<dinode, entries, opened, cwd>>

----------------------------------------------------------------------------
(* namex, one directory at a time; it stops at the parent for a call that     *)
(* needs it.                                                                  *)

WantsParent(c) == c.op \in {"create", "mkdir", "unlink", "newlink"}

BeginCall(p, r) ==
    /\ NotCalling(p)
    /\ Continue(p, [NoCall EXCEPT !.op = r.op, !.at = "walk", !.path = r.path,
                                  !.new = r.new, !.cur = cwd[p]])
    /\ Get(cwd[p])
    /\ UNCHANGED <<dinode, copy, holder, entries, opened, cwd>>

\* A path that leads nowhere; link takes its count back.
NotFound(p, c) ==
    IF c.op = "newlink"
    THEN Continue(p, [c EXCEPT !.at = "undo", !.puts = <<c.cur>>, !.cur = NoInode])
    ELSE Return(p, <<c.cur>>)

Walk(p) ==
    LET c == syscall[p]
        next == entries[c.cur][Head(c.path)]
        here == Len(c.path) = 1
    IN /\ c.at = "walk" /\ c.puts = <<>> /\ CanLock(c.cur)
       /\ JustRead(c.cur)
       /\ \/ /\ Locked(c.cur).type = "dir" /\ WantsParent(c) /\ here
             /\ Continue(p, [c EXCEPT !.at = "parent"])
             /\ UNCHANGED ref
          \/ /\ Locked(c.cur).type = "dir" /\ ~ (WantsParent(c) /\ here) /\ next # NoInode
             /\ Continue(p, IF here
                            THEN [c EXCEPT !.at = "found", !.ip = next, !.cur = NoInode,
                                           !.path = <<>>, !.puts = <<c.cur>>]
                            ELSE [c EXCEPT !.path = Tail(@), !.cur = next,
                                           !.puts = <<c.cur>>])
             /\ Get(next)
          \/ /\ \/ Locked(c.cur).type # "dir"
                \/ ~ (WantsParent(c) /\ here) /\ next = NoInode
             /\ NotFound(p, c)
             /\ UNCHANGED ref
       /\ UNCHANGED <<holder, entries, opened, cwd>>

Name(p) == Head(syscall[p].path)

----------------------------------------------------------------------------
(* open without O_CREATE, chdir, close.                                       *)

\* open ends with ip in a descriptor, or finds none.
Opened(p, i, puts) ==
    IF opened[p] = NoInode
    THEN opened' = [opened EXCEPT ![p] = i] /\ Return(p, puts)
    ELSE UNCHANGED opened /\ Return(p, Append(puts, i))

OpenFound(p) ==
    LET i == syscall[p].ip
    IN /\ Reached(p, {"open"}, "found") /\ CanLock(i)
       /\ JustRead(i)
       /\ \/ Opened(p, i, <<>>)
          \/ /\ Locked(i).type = "dir"                    \* opened for writing
             /\ UNCHANGED opened /\ Return(p, <<i>>)
       /\ UNCHANGED <<ref, holder, entries, cwd>>

ChdirFound(p) ==
    LET i == syscall[p].ip
    IN /\ Reached(p, {"chdir"}, "found") /\ CanLock(i)
       /\ JustRead(i)
       /\ IF Locked(i).type = "dir"
          THEN cwd' = [cwd EXCEPT ![p] = i] /\ Return(p, <<cwd[p]>>)
          ELSE UNCHANGED cwd /\ Return(p, <<i>>)
       /\ UNCHANGED <<ref, holder, entries, opened>>

Close(p) ==
    /\ NotCalling(p) /\ opened[p] # NoInode
    /\ opened' = [opened EXCEPT ![p] = NoInode]
    /\ Return(p, <<opened[p]>>)
    /\ UNCHANGED <<dinode, copy, ref, holder, entries, cwd>>

----------------------------------------------------------------------------
(* link: the count goes up before the entry is written, under another lock.   *)

\* A variant with a plausible bug, for the mutation checks: it keeps ip locked.
LinkFound_Locked(p) ==
    LET c == syscall[p]
    IN /\ Reached(p, {"link"}, "found") /\ CanLock(c.ip)
       /\ Update(Only(c.ip, WithLinks(Locked(c.ip), Locked(c.ip).nlink + 1)))
       /\ holder' = [holder EXCEPT ![c.ip] = p]
       /\ Get(cwd[p])
       /\ Continue(p, [c EXCEPT !.op = "newlink", !.at = "walk", !.path = c.new,
                                !.new = <<>>, !.cur = cwd[p]])
       /\ UNCHANGED <<entries, opened, cwd>>

LinkFound(p) ==
    LET c == syscall[p]
        ino == Locked(c.ip)
    IN /\ Reached(p, {"link"}, "found") /\ CanLock(c.ip)
       /\ IF ino.type = "dir"
          THEN JustRead(c.ip) /\ Return(p, <<c.ip>>) /\ UNCHANGED ref
          ELSE /\ Update(Only(c.ip, WithLinks(ino, ino.nlink + 1)))
               /\ Get(cwd[p])
               /\ Continue(p, [c EXCEPT !.op = "newlink", !.at = "walk", !.path = c.new,
                                        !.new = <<>>, !.cur = cwd[p]])
       /\ UNCHANGED <<holder, entries, opened, cwd>>

\* dirlink fails if the name is there or the directory cannot grow.
LinkEntry(p) ==
    LET c == syscall[p]
    IN /\ Reached(p, {"newlink"}, "parent") /\ CanLock(c.cur)
       /\ JustRead(c.cur)
       /\ \/ /\ entries[c.cur][Name(p)] = NoInode
             /\ entries' = [entries EXCEPT ![c.cur][Name(p)] = c.ip]
             /\ Return(p, <<c.cur, c.ip>>)
          \/ NotFound(p, c) /\ UNCHANGED entries
       /\ UNCHANGED <<ref, holder, opened, cwd>>

LinkUndo(p) ==
    LET i == syscall[p].ip
    IN /\ Reached(p, {"newlink"}, "undo") /\ CanLock(i)
       /\ Update(Only(i, WithLinks(Locked(i), Locked(i).nlink - 1)))
       /\ Return(p, <<i>>)
       /\ UNCHANGED <<ref, holder, entries, opened, cwd>>

----------------------------------------------------------------------------
(* unlink keeps the directory locked while it locks the inode.                *)

UnlinkFind(p) ==
    LET c == syscall[p]
        i == entries[c.cur][Name(p)]
    IN /\ Reached(p, {"unlink"}, "parent") /\ CanLock(c.cur)
       /\ JustRead(c.cur)
       /\ IF Name(p) = DotDot \/ i = NoInode
          THEN Return(p, <<c.cur>>) /\ UNCHANGED <<ref, holder>>
          ELSE /\ Get(i)
               /\ holder' = [holder EXCEPT ![c.cur] = p]
               /\ Continue(p, [c EXCEPT !.at = "unlink", !.ip = i])
       /\ UNCHANGED <<entries, opened, cwd>>

IsDirEmpty(i) == \A n \in Names : entries[i][n] = NoInode

UnlinkEntry(p) ==
    LET c == syscall[p]
        dir == copy[c.cur]
        ino == Locked(c.ip)
        less(x) == WithLinks(x, x.nlink - 1)
    IN /\ Reached(p, {"unlink"}, "unlink") /\ CanLock(c.ip)
       /\ holder' = [holder EXCEPT ![c.cur] = Nobody]
       /\ IF ino.type = "dir" /\ ~ IsDirEmpty(c.ip)
          THEN /\ JustRead(c.ip)
               /\ Return(p, <<c.ip, c.cur>>)
               /\ UNCHANGED entries
          ELSE /\ Update([j \in {c.cur, c.ip} |->
                            IF j = c.ip THEN less(ino)
                            ELSE IF ino.type = "dir" THEN less(dir) ELSE dir])
               /\ entries' = [entries EXCEPT ![c.cur][Name(p)] = NoInode]
               /\ Return(p, <<c.cur, c.ip>>)
       /\ UNCHANGED <<ref, opened, cwd>>

----------------------------------------------------------------------------
(* create, for open with O_CREATE and for mkdir.                              *)

TypeMade(c) == IF c.op = "mkdir" THEN "dir" ELSE "file"

\* ialloc takes the first inode that is free on disk, under no lock but that of
\* the buffer.
FreeInodes == {i \in Inodes : dinode[i].type = "free"}

CreateLook(p) ==
    LET c == syscall[p]
        old == entries[c.cur][Name(p)]
    IN /\ Reached(p, {"create", "mkdir"}, "parent") /\ CanLock(c.cur)
       /\ copy' = [copy EXCEPT ![c.cur] = Locked(c.cur)]
       /\ \/ /\ old # NoInode
             /\ Get(old)
             /\ Continue(p, [c EXCEPT !.at = "existing", !.ip = old, !.cur = NoInode,
                                      !.puts = <<c.cur>>])
             /\ UNCHANGED <<dinode, holder>>
          \/ /\ old = NoInode
             /\ \E i \in FreeInodes :
                  /\ \A j \in FreeInodes : i <= j
                  /\ dinode' = [dinode EXCEPT ![i] = [type |-> TypeMade(c), nlink |-> 0]]
                  /\ Get(i)
                  /\ holder' = [holder EXCEPT ![c.cur] = p]
                  /\ Continue(p, [c EXCEPT !.at = "fill", !.ip = i])
          \/ /\ old = NoInode /\ FreeInodes = {}
             /\ Return(p, <<c.cur>>)
             /\ UNCHANGED <<dinode, ref, holder>>
       /\ UNCHANGED <<entries, opened, cwd>>

CreateExisting(p) ==
    LET c == syscall[p]
    IN /\ Reached(p, {"create", "mkdir"}, "existing") /\ CanLock(c.ip)
       /\ JustRead(c.ip)
       /\ IF c.op = "create" /\ Locked(c.ip).type = "file"
          THEN Opened(p, c.ip, <<>>)
          ELSE UNCHANGED opened /\ Return(p, <<c.ip>>)
       /\ UNCHANGED <<ref, holder, entries, cwd>>

\* The new inode gets its entries and its name, or goes back.
CreateFill(p) ==
    LET c == syscall[p]
        dir == copy[c.cur]
        isDir == c.op = "mkdir"
        new == WithLinks(Locked(c.ip), 1)
    IN /\ Reached(p, {"create", "mkdir"}, "fill") /\ CanLock(c.ip)
       /\ holder' = [holder EXCEPT ![c.cur] = Nobody]
       /\ \/ /\ entries' = [entries EXCEPT ![c.cur][Name(p)] = c.ip,
                                           ![c.ip][DotDot] = IF isDir THEN c.cur ELSE NoInode]
             /\ Update([j \in {c.cur, c.ip} |->
                          IF j = c.ip THEN new
                          ELSE IF isDir THEN WithLinks(dir, dir.nlink + 1) ELSE dir])
             /\ IF isDir THEN UNCHANGED opened /\ Return(p, <<c.cur, c.ip>>)
                ELSE Opened(p, c.ip, <<c.cur>>)
          \/ /\ Update(Only(c.ip, WithLinks(new, 0)))          \* the disk is full
             /\ Return(p, <<c.ip, c.cur>>)
             /\ UNCHANGED <<entries, opened>>
       /\ UNCHANGED <<ref, cwd>>

----------------------------------------------------------------------------
\* A file name stays one: directories are made with names of their own, and
\* removed while no other call is under way and nobody uses them.
LastOf(path) == path[Len(path)]
Removes(c) == c.op = "unlink" /\ LastOf(c.path) \in DirNames
DirsUnused ==
    \A p \in Callers :
      /\ cwd[p] = Root
      /\ opened[p] # NoInode => copy[opened[p]].type # "dir"

Allowed(p, r) ==
    /\ r.op = "mkdir" => LastOf(r.path) \in DirNames
    /\ r.op = "create" => LastOf(r.path) \in FileNames
    /\ r.op = "link" => LastOf(r.new) \in FileNames
    /\ Removes(r) => DirsUnused /\ \A q \in Callers \ {p} : NotCalling(q)
    /\ \A q \in Callers : ~ Removes(syscall[q])

TreeNext ==
    \E p \in Callers :
      \/ \E r \in Requests : Allowed(p, r) /\ BeginCall(p, r)
      \/ Walk(p) \/ Put(p) \/ PutFreed(p)
      \/ OpenFound(p) \/ ChdirFound(p) \/ Close(p)
      \/ LinkFound(p) \/ LinkEntry(p) \/ LinkUndo(p)
      \/ UnlinkFind(p) \/ UnlinkEntry(p)
      \/ CreateLook(p) \/ CreateExisting(p) \/ CreateFill(p)

TreeSpec == TreeInit /\ [][TreeNext]_treeVars

----------------------------------------------------------------------------
One(b) == IF b THEN 1 ELSE 0
\* What a process may have a reference in; a call puts one or two inodes.
Slots == {"cwd", "open", "cur", "ip", "put", "last"}
NextPut(puts) == IF Len(puts) > 1 THEN Head(puts) ELSE NoInode
LastPut(puts) == IF puts = <<>> THEN NoInode ELSE puts[Len(puts)]
Handles(w, o, c) ==
    [cwd |-> w, open |-> o, cur |-> c.cur, ip |-> c.ip,
     put |-> NextPut(c.puts), last |-> LastPut(c.puts)]
InHand == [p \in Callers |-> Handles(cwd[p], opened[p], syscall[p])]
References(i) == {h \in Callers \X Slots : InHand[h[1]][h[2]] = i}

Freeing(i) == \E p \in Callers : syscall[p].freeing /\ Head(syscall[p].puts) = i

\* What has a link to i: its names, its subdirectories, mkfs for the root, and
\* a link call that has not come to the entry yet.
NamesOf(i) == {e \in Inodes \X Names : entries[e[1]][e[2]] = i}
SubdirsOf(i) == {j \in Inodes \ {Root} : entries[j][DotDot] = i /\ dinode[j].nlink > 0}
LinkCallsTo(i) == {p \in Callers : syscall[p].op = "newlink" /\ syscall[p].ip = i}
Linkers(i) == Cardinality(NamesOf(i)) + Cardinality(SubdirsOf(i)) + One(i = Root)
              + Cardinality(LinkCallsTo(i))

(* However the calls of the processes mix: the count of an inode on disk is   *)
(* that of the links to it, its ref that of the references processes have, no *)
(* name leads to a free inode, nobody has a reference to one but who is       *)
(* freeing it, and an inode without a link is in somebody's hands.            *)
InodesSound ==
    \A i \in Inodes :
      /\ ref[i] = Cardinality(References(i))
      /\ dinode[i].nlink = Linkers(i)
      /\ dinode[i].type = "free" => Linkers(i) = 0 /\ ref[i] = One(Freeing(i))
      /\ dinode[i].type # "free" /\ dinode[i].nlink = 0 => ref[i] > 0
      /\ ref[i] > 0 /\ copy[i].valid /\ ~ Freeing(i) =>
           copy[i].type = dinode[i].type /\ copy[i].nlink = dinode[i].nlink

\* The inode whose lock a call goes for.
Awaited(p) ==
    LET c == syscall[p]
    IN IF c.puts # <<>> \/ NotCalling(p) THEN NoInode
       ELSE IF c.at \in {"walk", "parent"} THEN c.cur ELSE c.ip

(* No processes wait for inodes that they themselves have locked, neither one *)
(* for its own nor several in a circle, and iput never waits for the lock of  *)
(* an inode whose last reference it drops (fs.c says so).                     *)
InodeLocksOrdered ==
    /\ \A S \in SUBSET Callers : S # {} =>
         \E p \in S : Awaited(p) = NoInode \/ holder[Awaited(p)] \notin S
    /\ \A p \in Callers :
         LET puts == syscall[p].puts
         IN puts # <<>> /\ ~ syscall[p].freeing /\ IsLast(Head(puts))
              => CanLock(Head(puts))
=============================================================================
