------------------------------ MODULE MCStock ------------------------------
(***************************************************************************)
(* Small instances of Stock for TLC.  The warehouse has the smallest id,   *)
(* so that a transfer locks it before the store and a charge after it.  A  *)
(* behaviour is chosen at the start: one reference, two units at a time,   *)
(* in two boxes of the store; or two references, a unit of each, in one    *)
(* box, where nothing comes in or goes out by hand.                        *)
(***************************************************************************)
EXTENDS Stock, TLC

CONSTANTS b, farBox

VARIABLE family

Symmetry == Permutations(Docs) \cup Permutations(Clients)

\* Two units in the first box of the store and none in the other, or one everywhere.
MCInit ==
    /\ family \in {"UNITS", "LOCKS"}
    /\ Init
    /\ balance = [p \in Places |->
           CASE family = "UNITS" \/ p[2] = Warehouse -> 1
             [] p[2] = farBox -> 0
             [] OTHER -> 2]

Touches(t, places) == tx'[t].want \in places

MCNext ==
    /\ UNCHANGED family
    /\ Next
    /\ \/ /\ family = "UNITS"
          /\ \A v \in Variants : balance'[<<v, Warehouse>>] <= 1
          /\ \A t \in Clients : tx'[t].lines[b] = 0 /\ ~Touches(t, {b} \X Boxes)
       \/ /\ family = "LOCKS"
          /\ \A p \in Places : balance'[p] <= IF p[2] = Warehouse THEN 1 ELSE 2
          /\ \A t \in Clients : /\ \A v \in Variants : tx'[t].lines[v] <= 1
                                /\ tx'[t].op = "move" => None \notin {tx'[t].from, tx'[t].to}
                                /\ ~Touches(t, Variants \X {farBox})

MCSpec == MCInit /\ [][MCNext]_<<family, vars>>
=============================================================================
