---------------------------- MODULE MCAgentWait ----------------------------
(* An instance of AgentWait for TLC: which programs there are.              *)
EXTENDS AgentWait, TLC

\* One agent uses every source of events and every way to be woken; a process
\* that becomes an agent writes to it, more messages than its mailbox holds.
ProgramPeers == {<<1, 2>>}
ProgramCalls == 1 :> {"begin"} @@
                2 :> {"wait", "watch", "file", "heartbeat", "done", "killed",
                      "cascade", "child"}
=============================================================================
