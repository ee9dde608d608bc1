-------------------------- MODULE MCInternalOrder --------------------------
(***************************************************************************)
(* Small instances of InternalOrder for TLC.                               *)
(***************************************************************************)
EXTENDS InternalOrder, TLC

Symmetry == Permutations(Orders) \cup Permutations(Variants) \cup Permutations(Runners)
=============================================================================
