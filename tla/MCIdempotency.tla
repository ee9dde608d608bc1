--------------------------- MODULE MCIdempotency ---------------------------
(***************************************************************************)
(* Small instances of Idempotency for TLC: each input names a shift of its *)
(* own, so that two inputs under one key meet at the claim and not at the  *)
(* lock of a shift.  A behaviour is chosen at the start: two requests of   *)
(* any operation over some days, or three movements in less.               *)
(***************************************************************************)
EXTENDS Idempotency, TLC

CONSTANTS p1, p2, s1, s2, r3

VARIABLE family

MCPrints == {p1, p2}
MCShifts == {s1, s2}
MCShiftOf == p1 :> s1 @@ p2 :> s2

MCInit == family \in {"DAYS", "CROWD"} /\ Init

MCNext ==
    /\ UNCHANGED family
    /\ Next
    /\ \/ family = "DAYS" /\ UNCHANGED request[r3]
       \/ family = "CROWD" /\ day' < MaxDay /\ \A r \in Requests : request'[r].key \notin WrappedKeys

MCSpec == MCInit /\ [][MCNext]_<<family, vars>> /\ Fairness
=============================================================================
