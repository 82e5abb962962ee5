--------------------------- MODULE MCLockFreeStack ---------------------------
(* Instances of LockFreeStack for TLC. *)
EXTENDS LockFreeStack, TLC

Symmetry == Permutations(Nodes) \cup Permutations(Threads)
=============================================================================
