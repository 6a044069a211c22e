--------------------------- MODULE MCDynamicTools ---------------------------
(* Instances of DynamicTools for TLC.                                       *)
EXTENDS DynamicTools, TLC

CONSTANTS c1, c2, s1

\* Two services and two clients, one of them a service itself; c2 is of
\* another group.
TwoGroups == c1 :> 1 @@ c2 :> 2 @@ s1 :> 1
=============================================================================
