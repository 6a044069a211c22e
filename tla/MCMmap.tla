------------------------------- MODULE MCMmap -------------------------------
(* An instance of Mmap for TLC in which programs unmap as they like.          *)
EXTENDS Mmap, TLC

CONSTANTS p1, p2

Writable == {[shared |-> TRUE, write |-> TRUE]}
Symmetric == Permutations({p1, p2})
=============================================================================
