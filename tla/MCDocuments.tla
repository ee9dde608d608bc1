----------------------------- MODULE MCDocuments -----------------------------
(* Purchase and SaleReturn on small instances.  The two share no state, and  *)
(* an incident of an order and a write-off only the stock, so a behaviour    *)
(* works on one of them, chosen at the start: their states add up instead of *)
(* multiplying.  STOCK leaves the incidents' tray alone, TRAY the write-offs.*)
EXTENDS Purchase, SaleReturn, TLC

VARIABLE family

WastedUnits == [w \in WriteOffs |-> [v \in Variants |-> 1]]
Alike == Permutations(Variants) \cup Permutations(Returns) \cup Permutations(Requests)

DocumentsInit ==
    family \in {"TRAY", "STOCK", "SALE"} /\ PurchaseInit /\ SaleReturnInit

DocumentsNext ==
    /\ UNCHANGED family
    /\ \/ /\ \/ family = "TRAY" /\ PurchaseNext /\ UNCHANGED writeOff
             \/ family = "STOCK" /\ PurchaseNext /\ UNCHANGED <<closing, crossed>>
          /\ UNCHANGED <<discountVars, returnVars>>
       \/ family = "SALE" /\ SaleReturnNext /\ UNCHANGED purchaseVars

DocumentsSpec ==
    DocumentsInit /\ [][DocumentsNext]_<<family, purchaseVars, discountVars, returnVars>>

\* A notice that is still pending, of an order, an incident or a request, asks for a
\* step that can still be given; but for the notice of incidents of which the last ones
\* were closed at once (CrossedBefore).
NoticesAskForALiveStep ==
    PurchaseNoticesAskForALiveStep /\ RequestNoticesAskForALiveStep
=============================================================================
