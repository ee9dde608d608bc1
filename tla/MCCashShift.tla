---------------------------- MODULE MCCashShift ----------------------------
(***************************************************************************)
(* Small instances of CashShift for TLC.  The shifts, sales, returns and   *)
(* clients of a set are interchangeable.                                   *)
(***************************************************************************)
EXTENDS CashShift, TLC

Symmetry == Permutations(Sales) \cup Permutations(Clients)
=============================================================================
