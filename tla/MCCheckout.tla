----------------------------- MODULE MCCheckout -----------------------------
(***************************************************************************)
(* Small instances of Checkout for TLC.                                    *)
(***************************************************************************)
EXTENDS Checkout, TLC

Symmetry == Permutations(Orders) \cup Permutations(Sales)
              \cup Permutations(Shifts) \cup Permutations(Clients)
=============================================================================
