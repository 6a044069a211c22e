----------------------------- MODULE MCWorkflow -----------------------------
(* An instance of Workflow for TLC: which calls the programs make.         *)
EXTENDS Workflow, TLC

\* A Primary, which cascades by a call and by its exit; a member that sleeps in
\* agent_wait, forks, and leaves for a workflow of its own, which the one entry
\* of the table refuses while the first lives; and a member that may get
\* WORKFLOW_CTRL, so that two cascades may run at once, and is killed.
ProgramCalls ==
    1 :> {"fork", "PRIMARY", "cascade"} @@
    2 :> {"fork", "PRIMARY", "WORKER", "wait"} @@
    3 :> {"CTRL", "NOCTRL", "cascade", "killed"}
=============================================================================
