------------------------------ MODULE ToolCalls ------------------------------
(***************************************************************************)
(* What the dynamic tools promise: a call waits for one service, returns   *)
(* with an answer of that service to this very call, or with SERVICE_GONE  *)
(* when the service has exited, or because the caller is killed.           *)
(***************************************************************************)
CONSTANTS
    Procs,          \* callers and services
    NoCall          \* no call is under way

VARIABLES
    call,           \* per caller: NoCall, or the service and its answer
    killed,         \* processes that are killed
    gone            \* processes that have exited

vars == <<call, killed, gone>>

Answers == {"none", "reply", "gone"}

Init ==
    /\ call = [c \in Procs |-> NoCall]
    /\ killed = {}
    /\ gone = {}

Ask(c, s) ==
    /\ c \notin gone
    /\ s \notin gone
    /\ call[c] = NoCall
    /\ call' = [call EXCEPT ![c] = [service |-> s, answer |-> "none"]]
    /\ UNCHANGED <<killed, gone>>

\* A service may answer again as long as the caller has not returned.
Answer(c) ==
    /\ call[c] # NoCall
    /\ call[c].service \notin gone
    /\ call' = [call EXCEPT ![c].answer = "reply"]
    /\ UNCHANGED <<killed, gone>>

Return(c) ==
    /\ call[c] # NoCall
    /\ call[c].answer # "none" \/ c \in killed
    /\ call' = [call EXCEPT ![c] = NoCall]
    /\ UNCHANGED <<killed, gone>>

Kill(p) ==
    /\ p \notin gone
    /\ killed' = killed \union {p}
    /\ UNCHANGED <<call, gone>>

\* A service leaves: the calls it has not answered are answered for it.
Leave(s) ==
    /\ s \notin gone
    /\ call[s] = NoCall
    /\ gone' = gone \union {s}
    /\ call' = [c \in Procs |->
                  IF call[c] # NoCall /\ call[c].service = s
                                      /\ call[c].answer = "none"
                  THEN [call[c] EXCEPT !.answer = "gone"]
                  ELSE call[c]]
    /\ UNCHANGED killed

Next ==
    \E p \in Procs :
        \/ \E s \in Procs : Ask(p, s)
        \/ Answer(p)
        \/ Return(p)
        \/ Kill(p)
        \/ Leave(p)

Spec == Init /\ [][Next]_vars
=============================================================================
