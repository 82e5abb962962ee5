----------------------------- MODULE MCLockFreeQ -----------------------------
(* Instances of LockFreeQ for TLC. *)
EXTENDS LockFreeQ

CONSTANTS n1, n2, n3

ThreeNodes == <<n1, n2, n3>>
=============================================================================
