------------------------------ MODULE CodeLab ------------------------------
(* The CodeLab programs at work on one file: the planner and its five workers *)
(* (user/*_agent.c), each a sequence of system calls, on the mailboxes, file  *)
(* events, versions, dynamic tool and workflow that the kernel gives them.    *)
(* A step is one system call and what the program decides from its result.    *)
(* No timing is assumed: a sleep of the programs is a step that may take any  *)
(* time, so that every agent may be late.                                     *)
EXTENDS Naturals, Sequences, FiniteSets

CONSTANTS
    Cap,            \* AGENT_MAILBOX_CAP - AGENT_MAILBOX_SYSTEM_SLOTS
    Originals,      \* contents repo/todo.c may have at the start: "bug", "fixed"
    ForksFail,      \* whether a fork of the planner may fail
    Killable        \* agents that somebody may kill from outside

ASSUME LabAssumption == Cap \in Nat /\ Originals \subseteq {"bug", "fixed"}

Crew == <<"retriever", "patch", "test", "reviewer", "tool">>   \* in order of birth
Workers == {Crew[i] : i \in 1 .. Len(Crew)}
Agents == Workers \cup {"planner"}

VARIABLES
    doing,          \* the next call of an agent, or how it ended
    killed,         \* agents with p->killed
    forks,          \* forks the planner has tried, and whether all succeeded
    mail,           \* mailboxes: messages, oldest first
    file,           \* repo/todo.c: original content, content, inode version
    watch,          \* the reviewer's: whether it watches the file, FILEMOD pending
    service,        \* run_rule_test_dyn: "none", "up" or "down"
    request,        \* the slot of the test agent's call: "none", "queued" or an answer
    seen,           \* version the retriever has recorded with its last reading
    has,            \* what the reviewer has got: "file", "test", "passed"
    got,            \* what the planner has learnt: flags and summaries of main
    verdict,        \* what the planner printed
    lost,           \* history: messages refused or discarded, but for notes and probes
    tested          \* history: content of the file when the test ran

talk == <<mail, lost>>
world == <<file, watch>>
tool == <<service, request, tested>>
minds == <<seen, has, got, verdict>>
crew == <<killed, forks>>
labVars == <<doing, crew, talk, world, tool, minds>>

Over == {"exited", "failed"}                     \* a zombie
Living(a) == doing[a] \notin Over \cup {"unborn", "reaped"}

LabInit ==
    /\ doing = [a \in Agents |-> IF a = "planner" THEN "heartbeat" ELSE "unborn"]
    /\ killed = {} /\ forks = [tried |-> 0, ok |-> TRUE]
    /\ mail = [a \in Agents |-> <<>>] /\ lost = {}
    /\ \E c \in Originals : file = [original |-> c, content |-> c, version |-> 1]
    /\ watch = [on |-> FALSE, filemod |-> FALSE]
    /\ service = "none" /\ request = "none" /\ tested = "nothing"
    /\ seen = 0 /\ has = {} /\ got = {} /\ verdict = "none"

At(a, place) == doing[a] = place /\ a \notin killed
Goto(a, place) == doing' = [doing EXCEPT ![a] = place]

----------------------------------------------------------------------------
(* The system calls.                                                          *)

\* Messages: what the chain cannot do without, and notes, of which the planner
\* keeps only that there was one (they fill its mailbox all the same).
Vital(m) == {m} \ {"note", "cache_probe"}

\* agent_send_message: a process that is gone, or a full mailbox, refuses.
Accepts(to) == doing[to] \notin {"unborn", "reaped"} /\ Len(mail[to]) < Cap
Send(to, m) == \/ /\ Accepts(to)
                  /\ mail' = [mail EXCEPT ![to] = Append(@, m)]
                  /\ UNCHANGED lost
               \/ /\ ~ Accepts(to)
                  /\ lost' = lost \cup Vital(m)
                  /\ UNCHANGED mail

\* send_message_to with the result ignored, and with exit(1) if it is negative.
Tell(a, at, to, m, next) ==
    /\ At(a, at) /\ Send(to, m) /\ Goto(a, next)
    /\ UNCHANGED <<crew, world, tool, minds>>
MustTell(a, at, to, m, next) ==
    /\ At(a, at) /\ Send(to, m)
    /\ Goto(a, IF Accepts(to) THEN next ELSE "failed")
    /\ UNCHANGED <<crew, world, tool, minds>>

\* agent_wait(1) that returns a message.
Receive(a) == mail[a] # <<>> /\ mail' = [mail EXCEPT ![a] = Tail(@)] /\ UNCHANGED lost

\* A worker that waits for one message and exits if it is another.
Expect(a, at, m, next) ==
    /\ At(a, at) /\ Receive(a)
    /\ Goto(a, IF Head(mail[a]) = m THEN next ELSE "failed")
    /\ UNCHANGED <<crew, world, tool, minds>>

\* agent_create(WORKER) of a child that could be written to since fork: the
\* mailbox is cleared.
Boot(w) ==
    /\ At(w, "boot")
    /\ mail' = [mail EXCEPT ![w] = <<>>]
    /\ lost' = lost \cup UNION {Vital(mail[w][i]) : i \in 1 .. Len(mail[w])}
    /\ Goto(w, IF w = "tool" THEN "register" ELSE "assignment")
    /\ UNCHANGED <<crew, world, tool, minds>>

\* agent_cascade_terminate: the exit of the planner kills the workers it left.
Cascaded == killed \cup {w \in Workers : Living(w)}

----------------------------------------------------------------------------
(* planner_agent.c                                                            *)

\* agent_wait for the first HEARTBEAT, then request_llm_plan, which may refuse.
PlannerStarts ==
    /\ At("planner", "heartbeat")
    /\ \E place \in {"spawn", "failed"} : Goto("planner", place)
    /\ UNCHANGED <<crew, talk, world, tool, minds>>

\* spawn_agent; a child whose exec fails is one that is not born.
Spawn ==
    /\ At("planner", "spawn") /\ forks.tried < Len(Crew)
    /\ LET w == Crew[forks.tried + 1]
       IN \/ /\ doing' = [doing EXCEPT ![w] = "boot"]
             /\ forks' = [forks EXCEPT !.tried = @ + 1]
          \/ /\ ForksFail
             /\ forks' = [tried |-> forks.tried + 1, ok |-> FALSE]
             /\ UNCHANGED doing
    /\ UNCHANGED <<killed, talk, world, tool, minds>>

\* All five pids are looked at when all five forks have been tried.
Spawned_NoCascade ==                \* Mutant: the exit spares the workers.
    /\ At("planner", "spawn") /\ forks.tried = Len(Crew)
    /\ Goto("planner", IF forks.ok THEN "tool?" ELSE "failed")
    /\ UNCHANGED <<crew, talk, world, tool, minds>>
Spawned ==
    /\ At("planner", "spawn") /\ forks.tried = Len(Crew)
    /\ Goto("planner", IF forks.ok THEN "tool?" ELSE "failed")
    /\ killed' = IF forks.ok THEN killed ELSE Cascaded
    /\ UNCHANGED <<forks, talk, world, tool, minds>>

\* wait_for_worker_message: other messages are noted and dropped.
Await(at, m, next) ==
    /\ At("planner", at) /\ Receive("planner")
    /\ Goto("planner", IF Head(mail["planner"]) = m THEN next ELSE at)
    /\ UNCHANGED <<crew, world, tool, minds>>

\* Each worker is told its part when the one before it has said it is ready.
Dispatch ==
    \/ Await("tool?", "tool ready", "to patch")
    \/ Tell("planner", "to patch", "patch", "assignment", "patch?")
    \/ Await("patch?", "patch ready", "to test")
    \/ Tell("planner", "to test", "test", "assignment", "test?")
    \/ Await("test?", "test ready", "to reviewer")
    \/ Tell("planner", "to reviewer", "reviewer", "assignment", "reviewer?")
    \/ Await("reviewer?", "watching", "to retriever")
    \/ Tell("planner", "to retriever", "retriever", "assignment", "collect")

\* What a message leaves in the planner's flags and summaries.  The retriever's
\* last message brings the summary of the file if its notes have not, and the
\* summary of the patch is not needed next to diff_file.
Learnt(m) == CASE m = "context valid" -> {"valid", "found"}
               [] m = "passed" -> {"passed"}
               [] m = "approve" -> {"review", "approve"}
               [] m = "reject" -> {"review"}
               [] OTHER -> {}

\* The loop of main; it ends with a review and the retriever's last word.
Collect ==
    /\ At("planner", "collect") /\ Receive("planner")
    /\ got' = got \cup Learnt(Head(mail["planner"]))
    /\ Goto("planner", IF {"review", "valid"} \subseteq got' THEN "children" ELSE "collect")
    /\ UNCHANGED <<crew, world, tool, seen, has, verdict>>

\* while(wait(&status) > 0); what init reaps later is left a zombie here.
Reap(w) ==
    /\ doing[w] \in Over
    /\ At("planner", "children")
    /\ Goto(w, "reaped")
    /\ UNCHANGED <<crew, talk, world, tool, minds>>

\* diff_file shows task_count-- and dual_validate_todo accepts the file if and
\* only if it is fixed.
Passes == /\ "found" \in got
          /\ file.content = "fixed"
          /\ "passed" \in got
          /\ "approve" \in got

Conclude ==
    /\ At("planner", "children")
    /\ \A w \in Workers : doing[w] \in {"unborn", "reaped"}
    /\ verdict' = IF Passes THEN "PASS" ELSE "FAIL"
    /\ Goto("planner", "exited")
    /\ UNCHANGED <<crew, talk, world, tool, seen, has, got>>

Planner == PlannerStarts \/ Spawn \/ Spawned \/ Dispatch \/ Collect \/ Conclude

----------------------------------------------------------------------------
(* retriever_agent.c                                                          *)

\* read_file leaves the version of the file with the reading.
Read(at, next) ==
    /\ At("retriever", at)
    /\ seen' = file.version /\ Goto("retriever", next)
    /\ UNCHANGED <<crew, talk, world, tool, has, got, verdict>>

\* context_validate of that reading must give the verdict wanted.
Validate(at, valid, next) ==
    /\ At("retriever", at)
    /\ Goto("retriever", IF (seen = file.version) = valid THEN next ELSE "failed")
    /\ UNCHANGED <<crew, talk, world, tool, minds>>

Retriever ==
    \/ Expect("retriever", "assignment", "assignment", "query")
    \/ Tell("retriever", "query", "planner", "note", "probe")
    \/ Tell("retriever", "probe", "reviewer", "cache_probe", "read")
    \/ Read("read", "captured")
    \/ Validate("captured", TRUE, "ask")
    \/ MustTell("retriever", "ask", "patch", "replace", "tell found")
    \/ Tell("retriever", "tell found", "planner", "note", "wait")
    \/ Expect("retriever", "wait", "validate_context", "stale?")
    \/ Validate("stale?", FALSE, "tell stale")
    \/ Tell("retriever", "tell stale", "planner", "note", "read again")
    \/ Read("read again", "refreshed")
    \/ Validate("refreshed", TRUE, "tell valid")
    \/ Tell("retriever", "tell valid", "planner", "context valid", "exited")

----------------------------------------------------------------------------
(* patch_agent.c and the tool patch_file                                      *)

\* The pattern is found once: the file is truncated and written anew.
PatchFile ==
    /\ At("patch", "patch_file")
    /\ file' = IF file.content = "bug" THEN [file EXCEPT !.content = "fixed"] ELSE file
    /\ Goto("patch", IF file.content = "bug" THEN "changed" ELSE "failed")
    /\ UNCHANGED <<crew, talk, watch, tool, minds>>

\* agentfs_content_changed: whoever watches files is signalled, before ...
ContentChanged ==
    /\ At("patch", "changed")
    /\ watch' = [watch EXCEPT !.filemod = @ \/ watch.on]
    /\ Goto("patch", "notify")
    /\ UNCHANGED <<crew, talk, file, tool, minds>>

\* ... agent_notify_file_modified gives it a new version and signals again.
NotifyModified_NoVersion ==         \* Mutant: the version stays.
    /\ At("patch", "notify")
    /\ watch' = [watch EXCEPT !.filemod = @ \/ watch.on]
    /\ Goto("patch", "tell retriever")
    /\ UNCHANGED <<crew, talk, file, tool, minds>>
NotifyModified ==
    /\ At("patch", "notify")
    /\ file' = [file EXCEPT !.version = @ + 1]
    /\ watch' = [watch EXCEPT !.filemod = @ \/ watch.on]
    /\ Goto("patch", "tell retriever")
    /\ UNCHANGED <<crew, talk, tool, minds>>

PatchAgent ==
    \/ Expect("patch", "assignment", "assignment", "ready")
    \/ Tell("patch", "ready", "planner", "patch ready", "request")
    \/ Expect("patch", "request", "replace", "patch_file")
    \/ PatchFile \/ ContentChanged \/ NotifyModified
    \/ MustTell("patch", "tell retriever", "retriever", "validate_context", "tell test")
    \/ MustTell("patch", "tell test", "test", "file patched", "tell planner")
    \/ Tell("patch", "tell planner", "planner", "note", "exited")

----------------------------------------------------------------------------
(* test_agent.c and rule_test_tool_agent.c                                    *)

\* Whatever message comes second starts the test.
TestWaits ==
    /\ At("test", "wait") /\ Receive("test")
    /\ Goto("test", "call")
    /\ UNCHANGED <<crew, world, tool, minds>>

\* agent_dynamic_tool_call: "gone" stands for the texts of its errors.
TestCalls ==
    /\ At("test", "call")
    /\ request' = IF service = "up" THEN "queued" ELSE "gone"
    /\ Goto("test", "answer")
    /\ UNCHANGED <<crew, talk, world, service, tested, minds>>

Answers == {"passed", "gone"}
TestTells(at, to, next) == request \in Answers /\ MustTell("test", at, to, request, next)

Test ==
    \/ Expect("test", "assignment", "assignment", "ready")
    \/ Tell("test", "ready", "planner", "test ready", "wait")
    \/ TestWaits \/ TestCalls
    \/ TestTells("answer", "planner", "tell reviewer")
    \/ TestTells("tell reviewer", "reviewer", "exited")

\* tool_register
Register ==
    /\ At("tool", "register")
    /\ service' = "up" /\ Goto("tool", "ready")
    /\ UNCHANGED <<crew, talk, world, request, tested, minds>>

\* tool_recv, run_rule_test_dyn and tool_reply: the marker of the bug contains
\* "task_count--" too, so that all three checks are passed by either content.
Serve ==
    /\ At("tool", "recv") /\ request = "queued"
    /\ request' = "passed" /\ tested' = file.content
    /\ Goto("tool", "leave")
    /\ UNCHANGED <<crew, talk, world, service, minds>>

\* agent_exit of the service: the tool is taken back.
ServiceLeaves ==
    /\ At("tool", "leave")
    /\ service' = "down" /\ Goto("tool", "exited")
    /\ UNCHANGED <<crew, talk, world, request, tested, minds>>

ToolService ==
    \/ Register \/ Serve \/ ServiceLeaves
    \/ Tell("tool", "ready", "planner", "tool ready", "recv")

----------------------------------------------------------------------------
(* reviewer_agent.c                                                           *)

\* agent_watch_file
WatchFile ==
    /\ At("reviewer", "watch")
    /\ watch' = [watch EXCEPT !.on = TRUE]
    /\ Goto("reviewer", "tell watching")
    /\ UNCHANGED <<crew, talk, file, tool, minds>>

Waiting_ForEither ==               \* Mutant: && for || in the condition of the loop.
    IF {"file", "test"} \cap has # {} THEN "diff" ELSE "loop"
Waiting == IF {"file", "test"} \subseteq has THEN "diff" ELSE "loop"

\* agent_wait gives messages first.  All but a probe of the cache is taken for
\* the result of the test.
ReviewMessage ==
    /\ At("reviewer", "loop") /\ Receive("reviewer")
    /\ LET m == Head(mail["reviewer"])
       IN IF m = "cache_probe"
          THEN Goto("reviewer", "tell cache") /\ UNCHANGED has
          ELSE /\ has' = has \cup {"test"} \cup ({m} \cap {"passed"})
               /\ Goto("reviewer", Waiting')
    /\ UNCHANGED <<crew, world, tool, seen, got, verdict>>

\* FILEMOD: the first one is reported to the planner.
ReviewFile ==
    /\ At("reviewer", "loop") /\ mail["reviewer"] = <<>> /\ watch.filemod
    /\ watch' = [watch EXCEPT !.filemod = FALSE]
    /\ has' = has \cup {"file"}
    /\ Goto("reviewer", IF "file" \in has THEN "loop" ELSE "tell modified")
    /\ UNCHANGED <<crew, talk, file, tool, seen, got, verdict>>

\* diff_file and the decision.
Decide ==
    /\ At("reviewer", "diff")
    /\ Goto("reviewer", IF "passed" \in has /\ file.content = "fixed"
                        THEN "approve" ELSE "reject")
    /\ UNCHANGED <<crew, talk, world, tool, minds>>

Reviewer ==
    \/ Expect("reviewer", "assignment", "assignment", "watch")
    \/ WatchFile
    \/ Tell("reviewer", "tell watching", "planner", "watching", "loop")
    \/ ReviewMessage \/ ReviewFile
    \/ Tell("reviewer", "tell cache", "planner", "note", "loop")
    \/ Tell("reviewer", "tell modified", "planner", "note", Waiting)
    \/ Decide
    \/ Tell("reviewer", "approve", "planner", "approve", "exited")
    \/ Tell("reviewer", "reject", "planner", "reject", "exited")

----------------------------------------------------------------------------
\* kill; bound: one.
Kill(a) ==
    /\ a \in Killable /\ Living(a) /\ killed = {}
    /\ killed' = killed \cup {a}
    /\ UNCHANGED <<doing, forks, talk, world, tool, minds>>

\* usertrap of a killed process: it exits.  A service takes its tool back and
\* answers for it, a caller frees its slot, the planner's exit cascades.
Die_Silent(a) ==                    \* Mutant: nobody answers for the service.
    /\ a \in killed /\ Living(a)
    /\ Goto(a, "failed")
    /\ killed' = IF a = "planner" THEN Cascaded ELSE killed
    /\ service' = IF a = "tool" /\ service = "up" THEN "down" ELSE service
    /\ UNCHANGED <<forks, talk, world, request, tested, minds>>
Die(a) ==
    /\ a \in killed /\ Living(a)
    /\ Goto(a, "failed")
    /\ killed' = IF a = "planner" THEN Cascaded ELSE killed
    /\ service' = IF a = "tool" /\ service = "up" THEN "down" ELSE service
    /\ request' = CASE request = "queued" /\ a = "tool" -> "gone"
                    [] request = "queued" /\ a = "test" -> "none"
                    [] OTHER -> request
    /\ UNCHANGED <<forks, talk, world, tested, minds>>

Step(a) == \/ a = "planner" /\ Planner
           \/ a = "retriever" /\ Retriever
           \/ a = "patch" /\ PatchAgent
           \/ a = "test" /\ Test
           \/ a = "reviewer" /\ Reviewer
           \/ a = "tool" /\ ToolService
           \/ a \in Workers /\ (Boot(a) \/ Reap(a))
           \/ Die(a)

LabNext ==
    \/ \E a \in Agents : Step(a)
    \/ \E a \in Agents : Kill(a)

LabSpec == LabInit /\ [][LabNext]_labVars

\* Every process runs, later or sooner; nobody has to kill.
FairLabSpec == LabSpec /\ \A a \in Agents : WF_labVars(Step(a))

----------------------------------------------------------------------------
\* Nothing went wrong from outside, and no message was lost but notes and probes.
Undisturbed == file.original = "bug" /\ forks.ok /\ killed = {} /\ lost = {}

(* Undisturbed, no worker ever takes one of its exits for an unexpected event *)
(* or result, however late the others are: each gets the message it expects   *)
(* and no other, the pattern is there, and context_validate tells the         *)
(* retriever VALID, STALE and VALID again, in this order.                     *)
NobodyStumbles == Undisturbed => \A w \in Workers : doing[w] # "failed"

(* The reviewer approves, and the planner prints PASS, only of a file that is *)
(* fixed and was fixed when the test ran; and the planner prints FAIL only if *)
(* the service died before it ran the test.                                   *)
VerdictTrue ==
    /\ doing["reviewer"] = "approve" \/ "approve" \in got \/ verdict = "PASS"
         => file.content = "fixed" /\ tested = "fixed"
    /\ verdict = "FAIL" => tested = "nothing" /\ "tool" \in killed

\* The planner waits for ever: for the service that died before it was ready.
NeverReady == /\ doing["planner"] = "tool?" /\ mail["planner"] = <<>>
              /\ doing["tool"] = "failed"

(* The planner ends with a verdict, unless the model refuses the plan, a fork *)
(* fails, somebody kills it, the file is fixed already (the patch agent exits *)
(* and nobody hears of it), the service dies unready, or a vital message is   *)
(* lost.  In particular a service that dies with the request of the test      *)
(* holds nobody up, and neither do the messages that are lost without being   *)
(* vital.                                                                     *)
Concludes == <>(\/ verdict # "none"
                \/ doing["planner"] = "failed" \/ ~ forks.ok \/ "planner" \in killed
                \/ file.original = "fixed" \/ NeverReady \/ lost # {})

(* However the planner ends, all its workers end: those it has waited for,    *)
(* and those the cascade of its exit finds wherever they are.                 *)
NoOrphans == doing["planner"] \in Over ~> \A w \in Workers : ~ Living(w)
=============================================================================
