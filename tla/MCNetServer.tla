----------------------------- MODULE MCNetServer -----------------------------
(* Instances of NetServer, with its inductive invariant, for TLC. *)
EXTENDS NetServerInv, TLC

Symmetry == Permutations(Workers)
=============================================================================
