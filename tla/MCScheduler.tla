---------------------------- MODULE MCScheduler -----------------------------
(* An instance for TLC of what CPUs and processes do to each other in the     *)
(* tables they share: Scheduler, KernelLocks without the paths that read the  *)
(* clock inside another lock, and FileTree.                                   *)
EXTENDS Scheduler, KernelLocks, FileTree, TLC

\* a1 and a2 are the CPUs of Scheduler and the processes of FileTree.
CONSTANTS a1, a2, f, d

Symmetric == Permutations({a1, a2})

OrderedCalls == CallNames \ {"agent_wait", "send_message", "cascade"}

SomeRequests ==
    LET On(o, paths) == [op : {o}, path : paths, new : {<<>>}]
    IN On("open", {<<f>>, <<d>>}) \cup On("create", {<<f>>, <<d, f>>}) \cup
       On("mkdir", {<<d>>}) \cup On("chdir", {<<d>>, <<DotDot>>}) \cup
       On("unlink", {<<f>>, <<d, f>>, <<d>>, <<DotDot>>}) \cup
       [op : {"link"}, path : {<<f>>, <<d>>}, new : {<<d, f>>}]

\* Two processes do everything on two CPUs; a third one is there for who may
\* overtake whom, and then on one CPU at a time.
Few == proc[3].state # "unused" =>
         /\ now = 0
         /\ \A p \in Procs : proc[p].state # "sleeping"
         /\ \E c \in Cpus : cpu[c].at = "idle"

\* Which of the three moves; chosen once, and the others rest.
VARIABLE moving
allVars == <<vars, lockVars, treeVars, moving>>

SliceInit == Init /\ LocksInit /\ TreeInit /\ moving \in {"scheduler", "locks", "tree"}

SliceNext == /\ UNCHANGED moving
             /\ \/ moving = "scheduler" /\ Next /\ Few' /\ UNCHANGED <<lockVars, treeVars>>
                \/ moving = "locks" /\ LocksNext /\ UNCHANGED <<vars, treeVars>>
                \/ moving = "tree" /\ TreeNext /\ UNCHANGED <<vars, lockVars>>

SliceSpec == SliceInit /\ [][SliceNext]_allVars
=============================================================================
