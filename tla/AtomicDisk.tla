----------------------------- MODULE AtomicDisk -----------------------------
(* What the log of the file system promises: a disk whose operations overlap  *)
(* but reach it only together, when none of them is under way, and a crash    *)
(* that takes back everything since.                                          *)
CONSTANTS Blocks, Values, Ops

VARIABLES
    current,    \* what the operations read and write
    durable,    \* what is there after a crash
    active      \* operations between begin_op and end_op

vars == <<current, durable, active>>

Init == current \in [Blocks -> Values] /\ durable = current /\ active = {}

Begin(p) == p \notin active /\ active' = active \cup {p} /\ UNCHANGED <<current, durable>>

Write(b, v) == /\ active # {}
               /\ current' = [current EXCEPT ![b] = v]
               /\ UNCHANGED <<durable, active>>

End(p) == p \in active /\ active' = active \ {p} /\ UNCHANGED <<current, durable>>

Commit == active = {} /\ durable' = current /\ UNCHANGED <<current, active>>

Crash == current' = durable /\ active' = {} /\ UNCHANGED durable

Next == \/ \E p \in Ops : Begin(p) \/ End(p)
        \/ \E b \in Blocks, v \in Values : Write(b, v)
        \/ Commit \/ Crash

Spec == Init /\ [][Next]_vars
=============================================================================
