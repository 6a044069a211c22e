---------------------------- MODULE FileVersions ----------------------------
(* The versions of file objects (kernel/agent_fs.c) and everybody who changes *)
(* a file: write and mmap write-back in chunks, patch_file, unlink, open with *)
(* O_TRUNC, and the creation that takes a freed inode again.                  *)
(*                                                                            *)
(* A writer changes the file under the inode lock and reports the change      *)
(* later, holding nothing.  stamp counts the changes of an inode, so two      *)
(* reads saw the same object and content exactly if they saw the same stamp.  *)
EXTENDS Naturals, FiniteSets

CONSTANTS
    Inodes,
    Writers,
    Watched,        \* the inode the reading agent watches (agent_watch)
    VersionSlots,   \* AGENT_FILE_VERSION_MAX
    MaxStamp        \* bound: changes of one inode

ASSUME FileVersionsAssumption ==
    /\ Watched \in Inodes
    /\ VersionSlots \in Nat /\ MaxStamp \in Nat

VARIABLES
    stamp,      \* how often object or content of the inode changed
    live,       \* the inode is a file with a name
    version,    \* the entries of file_versions
    writer,     \* what each writer is doing
    silent,     \* history: inodes with a change nobody reports
    event,      \* AGENT_EVENT_FILEMOD is pending at the reading agent
    unaware     \* history: Watched has a version from after the last event taken

fileVars == <<stamp, live, version, writer, silent, event, unaware>>

NoEntry == [used |-> FALSE, number |-> 0, deleted |-> FALSE]
Idle == [at |-> "idle", inode |-> Watched, wrote |-> FALSE]
At(step, i, wrote) == [at |-> step, inode |-> i, wrote |-> wrote]

FileInit ==
    /\ stamp = [i \in Inodes |-> 0] /\ live = [i \in Inodes |-> TRUE]
    /\ version = [i \in Inodes |-> NoEntry]
    /\ writer = [w \in Writers |-> Idle]
    /\ silent = {} /\ event = FALSE /\ unaware = FALSE

----------------------------------------------------------------------------
(* The table.  An entry is never given back.                                  *)

Known == {i \in Inodes : version[i].used}

\* file_version_find_locked with create: the entry of i, a new one, or none.
Find(i) == IF version[i].used THEN version[i]
           ELSE IF Cardinality(Known) < VersionSlots
                THEN [used |-> TRUE, number |-> 1, deleted |-> FALSE]
                ELSE NoEntry

\* agentfs_inode_version_get: 0 if there is no room or the object is deleted.
Current(i) == IF Find(i).deleted THEN 0 ELSE Find(i).number
Get(i) == version' = [version EXCEPT ![i] = Find(i)]

\* agentfs_inode_version_bump and agentfs_inode_version_remove.
Bumped(i, gone) == IF Find(i).used
                   THEN [used |-> TRUE, number |-> Find(i).number + 1, deleted |-> gone]
                   ELSE NoEntry
Bump(i) == version' = [version EXCEPT ![i] = Bumped(i, FALSE)]
Removed(i) == version' = [version EXCEPT ![i] = Bumped(i, TRUE)]

Change(i) == stamp[i] < MaxStamp /\ stamp' = [stamp EXCEPT ![i] = @ + 1]
Goto(w, s) == writer' = [writer EXCEPT ![w] = s]

----------------------------------------------------------------------------
(* filewrite and writeback: one transaction per chunk, one report at the end. *)

Open(w, i) ==
    /\ writer[w].at = "idle" /\ live[i]
    /\ Goto(w, At("write", i, FALSE))
    /\ UNCHANGED <<stamp, live, version, silent, event, unaware>>

WriteChunk(w) ==
    /\ writer[w].at = "write"
    /\ Change(writer[w].inode)
    /\ Goto(w, At("write", writer[w].inode, TRUE))
    /\ UNCHANGED <<live, version, silent, event, unaware>>

\* The loop of filewrite ends; i counts whole chunks only.
WriteEnd(w) ==
    /\ writer[w].at = "write"
    /\ Goto(w, IF writer[w].wrote THEN At("report", writer[w].inode, TRUE) ELSE Idle)
    /\ UNCHANGED <<stamp, live, version, silent, event, unaware>>

\* Mutant: only a write that succeeds as a whole is reported.
ShortChunk_FailsSilently(w) ==
    /\ writer[w].at = "write"
    /\ Change(writer[w].inode)
    /\ Goto(w, Idle)
    /\ silent' = IF writer[w].wrote THEN silent ELSE silent \cup {writer[w].inode}
    /\ UNCHANGED <<live, version, event, unaware>>

\* writei of filewrite stops within a chunk: the bytes are there, i is not
\* advanced, and the loop is left.
ShortChunk(w) ==
    /\ writer[w].at = "write"
    /\ Change(writer[w].inode)
    /\ IF writer[w].wrote
       THEN Goto(w, At("report", writer[w].inode, TRUE)) /\ silent' = silent
       ELSE Goto(w, Idle) /\ silent' = silent \cup {writer[w].inode}
    /\ UNCHANGED <<live, version, event, unaware>>

----------------------------------------------------------------------------
(* tool_patch_file: one transaction, then the index and its signal to every   *)
(* agent that watches files, and only then the version.                       *)

Patch(w, i) ==
    /\ writer[w].at = "idle" /\ live[i]
    /\ Change(i)
    /\ Goto(w, At("patched", i, TRUE))
    /\ UNCHANGED <<live, version, silent, event, unaware>>

\* The file is truncated and the write that follows is cut short.
PatchFails(w, i) ==
    /\ writer[w].at = "idle" /\ live[i]
    /\ Change(i)
    /\ silent' = silent \cup {i}
    /\ UNCHANGED <<live, version, writer, event, unaware>>

ContentChanged(w) ==
    /\ writer[w].at = "patched"
    /\ event' = TRUE
    /\ Goto(w, At("report", writer[w].inode, TRUE))
    /\ UNCHANGED <<stamp, live, version, silent, unaware>>

----------------------------------------------------------------------------
(* agent_notify_file_modified: the version first, the exact watchers after.   *)

NotifyBump(w) ==
    /\ writer[w].at = "report"
    /\ Bump(writer[w].inode)
    /\ silent' = silent \ {writer[w].inode}
    /\ unaware' = (unaware \/ writer[w].inode = Watched)
    /\ Goto(w, At("signal", writer[w].inode, TRUE))
    /\ UNCHANGED <<stamp, live, event>>

\* Mutant: patch_file has signalled already and does not signal again.
NotifySignal_Once(w) ==
    /\ writer[w].at = "signal"
    /\ Goto(w, Idle)
    /\ UNCHANGED <<stamp, live, version, silent, event, unaware>>

NotifySignal(w) ==
    /\ writer[w].at = "signal"
    /\ event' = (event \/ writer[w].inode = Watched)
    /\ Goto(w, Idle)
    /\ UNCHANGED <<stamp, live, version, silent, unaware>>

----------------------------------------------------------------------------
(* sys_unlink of the last name, whose version is a newer one that nobody is   *)
(* signalled, and the inode taken again by create.                            *)

Unlink(w, i) ==
    /\ writer[w].at = "idle" /\ live[i]
    /\ Change(i)
    /\ live' = [live EXCEPT ![i] = FALSE]
    /\ Goto(w, At("unlinked", i, TRUE))
    /\ UNCHANGED <<version, silent, event, unaware>>

UnlinkRemove(w) ==
    /\ writer[w].at = "unlinked"
    /\ Removed(writer[w].inode)
    /\ silent' = silent \ {writer[w].inode}
    /\ unaware' = (unaware \/ (writer[w].inode = Watched /\ Find(Watched).used))
    /\ Goto(w, Idle)
    /\ UNCHANGED <<stamp, live, event>>

\* A file that is open keeps its inode.  (filewrite also reports with the file
\* open; the model lets it go then, as patch_file and unlink do.)
Held(i) == \E w \in Writers : writer[w].inode = i /\ writer[w].at = "write"

Create(i) ==
    /\ ~ live[i] /\ ~ Held(i)
    /\ Change(i)
    /\ live' = [live EXCEPT ![i] = TRUE]
    /\ UNCHANGED <<version, writer, silent, event, unaware>>

\* sys_open with O_TRUNC: itrunc, and no report.
Truncate(i) ==
    /\ live[i]
    /\ Change(i)
    /\ silent' = silent \cup {i}
    /\ UNCHANGED <<live, version, writer, event, unaware>>

\* The agent takes the event of its watch (agent_wait).
TakeEvent ==
    /\ event
    /\ event' = FALSE
    /\ unaware' = FALSE
    /\ UNCHANGED <<stamp, live, version, writer, silent>>

WriterStep(w) == WriteEnd(w) \/ ContentChanged(w) \/ NotifyBump(w)
                 \/ NotifySignal(w) \/ UnlinkRemove(w)

FileStep == \/ \E w \in Writers : \/ WriterStep(w) \/ WriteChunk(w) \/ ShortChunk(w)
                                  \/ \E i \in Inodes : Open(w, i) \/ Patch(w, i)
                                                       \/ PatchFails(w, i) \/ Unlink(w, i)
            \/ \E i \in Inodes : Create(i) \/ Truncate(i)
            \/ TakeEvent

----------------------------------------------------------------------------
\* A change of i has been made and its report is still to come.
ReportComing(i) == \E w \in Writers : /\ writer[w].inode = i
                                      /\ writer[w].at \in {"write", "patched", "report", "unlinked"}
                                      /\ writer[w].wrote
=============================================================================
