--------------------------- MODULE MCKernelLocks ---------------------------
(* The instance of KernelLocks in which two CPUs meet over the clock.       *)
EXTENDS KernelLocks
=============================================================================
