----------------------------- MODULE SaleReturn -----------------------------
(***************************************************************************)
(* Returns of a sale that was charged: what each returned unit is worth    *)
(* (what the customer paid for it, with the discounts of Discount), that   *)
(* nothing is returned twice, and when the goods are back in the store.    *)
(*                                                                         *)
(* Requests and edits lock the sale and then the return, the other steps   *)
(* the return: an operation is one action.  The sale never changes.  What  *)
(* a rejected or cancelled return listed is history, dropped here.  The    *)
(* sale that charges an exchange is known by its total; the drawer that    *)
(* pays a refund is in CashShift.                                          *)
(***************************************************************************)
EXTENDS Discount

CONSTANTS
    Returns,            \* identities of the returns that may be requested
    ReplacementTotals,  \* what the sale of an exchange may be worth
    Generic             \* the lines that are not in the inventory

ASSUME SaleReturnAssumption ==
    /\ IsFiniteSet(Returns)
    /\ ReplacementTotals \subseteq Nat \ {0}
    /\ Generic \subseteq Places

VARIABLES
    return,    \* rows of sale_returns, with their items
    brought,   \* units of each line that came back into the store
    waiting    \* returns whose "new return" notice somebody has not read

returnVars == <<return, brought, waiting>>

-----------------------------------------------------------------------------
(* Rows *)

\* replacement: the total of the sale that charged the exchange, 0 before.
ReturnStatus == {"NONE", "PENDING", "APPROVED", "COMPLETED", "REJECTED", "CANCELLED"}
ReturnRow ==
    [status: ReturnStatus, of: Sales, resolution: {"REFUND", "EXCHANGE", "PARTIAL_REFUND"},
     quantity: [Places -> 0 .. MaxUnits], amount: [Places -> Int],
     replacement: {0} \cup ReplacementTotals, refund: Int]

SaleReturnTypeOK ==
    /\ return \in [Returns -> ReturnRow]
    /\ brought \in [Sales -> [Places -> Nat]]
    /\ waiting \subseteq Returns

\* RESERVING_SALE_RETURN_STATUSES
Reserving == {"PENDING", "APPROVED", "COMPLETED"}

ReturnsOf(s) == {r \in Returns : return[r].of = s /\ return[r].status \in Reserving}

ReturnedUnits(s, l, R) == Plus([r \in Returns |-> return[r].quantity[l]], R)
ReturnedCents(s, l, R) == Plus([r \in Returns |-> return[r].amount[l]], R)

-----------------------------------------------------------------------------
(* What a return is worth *)

\* paidPerLine: the last line takes what the others leave of the discount.
Share(s, l) ==
    LET Part(k) == RoundMoney(LineTotal(s, k) * sale[s].general, Net(s))
    IN  IF sale[s].general = 0 \/ Net(s) = 0 THEN 0
        ELSE IF l = Max(LinesOf(s))
             THEN sale[s].general - Plus([k \in Places |-> Part(k)], LinesOf(s) \ {l})
             ELSE Part(l)
Paid(s, l) == LineTotal(s, l) - Share(s, l)

\* Mutant: the last units are worth their share, like the others.
ReturnValueOfShare(s, l, R, units) ==
    RoundMoney(Paid(s, l) * units, item[s][l].quantity)

\* returnValue: the units that complete the line are worth what is left of it.
ReturnValue(s, l, R, units) ==
    IF units = item[s][l].quantity - ReturnedUnits(s, l, R)
    THEN Paid(s, l) - ReturnedCents(s, l, R)
    ELSE RoundMoney(Paid(s, l) * units, item[s][l].quantity)

\* priceItems; R: the other returns of the sale that still count.
CanReturn(s, R, units) ==
    /\ \E l \in Places : units[l] > 0
    /\ \A l \in Places : units[l] <= item[s][l].quantity - ReturnedUnits(s, l, R)
Priced(s, R, units) ==
    [l \in Places |-> IF units[l] = 0 THEN 0 ELSE ReturnValue(s, l, R, units[l])]

TotalReturned(r) == Plus(return[r].amount, Places)
Credit(r, replacement) ==
    IF replacement < TotalReturned(r) THEN replacement ELSE TotalReturned(r)

-----------------------------------------------------------------------------
(* Steps *)

Step(r, row) == return' = [return EXCEPT ![r] = row]

NotifyReturn(r) == waiting' = waiting \cup {r}
ClearReturnNotices(r) == waiting' = waiting \ {r}

List(r, s, R, units, resolution) ==
    /\ CanReturn(s, R, units)
    /\ Plus(Priced(s, R, units), Places) > 0
    /\ Step(r, [return[r] EXCEPT !.status = "PENDING", !.of = s, !.quantity = units,
                                 !.amount = Priced(s, R, units), !.resolution = resolution])

\* lockCompleted: only a charged sale is returned.
Charged(s) == sale[s].status = "COMPLETED"

Approved(r) == return[r].status = "APPROVED"

RequestReturn(r, s, units, resolution) ==
    /\ return[r].status = "NONE" /\ Charged(s)
    /\ List(r, s, ReturnsOf(s), units, resolution)
    /\ NotifyReturn(r)
    /\ UNCHANGED <<brought, discountVars>>

\* The lines are replaced, judged against the other returns of the sale.
EditReturn(r, units, resolution) ==
    /\ return[r].status = "PENDING"
    /\ List(r, return[r].of, ReturnsOf(return[r].of) \ {r}, units, resolution)
    /\ UNCHANGED <<brought, waiting, discountVars>>

ApproveReturn(r) ==
    /\ return[r].status = "PENDING"
    /\ Step(r, [return[r] EXCEPT !.status = "APPROVED"])
    /\ ClearReturnNotices(r)
    /\ UNCHANGED <<brought, discountVars>>

\* reject a pending one; cancel it, or one that is approved and not exchanged.
DropReturn(r, status) ==
    /\ \/ return[r].status = "PENDING"
       \/ status = "CANCELLED" /\ Approved(r) /\ return[r].replacement = 0
    /\ Step(r, [return[r] EXCEPT !.status = status, !.quantity = NoAmounts,
                                 !.amount = NoAmounts])
    /\ ClearReturnNotices(r)
    /\ UNCHANGED <<brought, discountVars>>

\* restockReturnedItems
Restock(r) ==
    brought' = [brought EXCEPT ![return[r].of] = [l \in Places |->
        @[l] + (IF l \in Generic THEN 0 ELSE return[r].quantity[l])]]

\* lockForExchange and applyExchange, by the charge of the new sale.
ChargeExchange(r, total) ==
    /\ Approved(r) /\ return[r].resolution = "EXCHANGE"
    /\ return[r].replacement = 0
    /\ Restock(r)
    /\ Step(r, [return[r] EXCEPT
           !.replacement = total,
           !.resolution = IF Credit(r, total) < TotalReturned(r) THEN "PARTIAL_REFUND" ELSE @,
           !.status = IF Credit(r, total) < TotalReturned(r) THEN @ ELSE "COMPLETED"])
    /\ UNCHANGED <<waiting, discountVars>>

AmountToRefund(r) ==
    TotalReturned(r)
    - (IF return[r].resolution = "PARTIAL_REFUND" THEN Credit(r, return[r].replacement) ELSE 0)

CompleteRefund(r) ==
    /\ Approved(r) /\ return[r].resolution \in {"REFUND", "PARTIAL_REFUND"}
    /\ IF return[r].resolution = "REFUND" THEN Restock(r) ELSE UNCHANGED brought
    /\ Step(r, [return[r] EXCEPT !.status = "COMPLETED", !.refund = AmountToRefund(r)])
    /\ UNCHANGED <<waiting, discountVars>>

ReadReturnNotice(r) ==
    /\ r \in waiting
    /\ waiting' = waiting \ {r}
    /\ UNCHANGED <<return, brought, discountVars>>

-----------------------------------------------------------------------------

SaleReturnInit ==
    /\ DiscountInit
    /\ \E s \in Sales : return = [r \in Returns |->
           [status |-> "NONE", of |-> s, resolution |-> "REFUND", quantity |-> NoAmounts,
            amount |-> NoAmounts, replacement |-> 0, refund |-> 0]]
    /\ brought = [s \in Sales |-> NoAmounts]
    /\ waiting = {}

ReturnNext ==
    \E r \in Returns :
        \/ ApproveReturn(r) \/ CompleteRefund(r) \/ ReadReturnNotice(r)
        \/ \E status \in {"REJECTED", "CANCELLED"} : DropReturn(r, status)
        \/ \E total \in ReplacementTotals : ChargeExchange(r, total)
        \/ \E units \in [Places -> 0 .. MaxUnits], resolution \in {"REFUND", "EXCHANGE"} :
               EditReturn(r, units, resolution)
               \/ \E s \in Sales : RequestReturn(r, s, units, resolution)

SaleReturnNext == ReturnNext \/ (DiscountNext /\ UNCHANGED returnVars)

SaleReturnSpec == SaleReturnInit /\ [][SaleReturnNext]_<<discountVars, returnVars>>

-----------------------------------------------------------------------------
(* Properties *)

\* The returns of a sale that still count never list more units of a line than
\* were sold, however they were edited, and the goods that came back never
\* pass what they list.
NeverMoreThanSold ==
    \A s \in Sales, l \in Places :
        brought[s][l] <= ReturnedUnits(s, l, ReturnsOf(s))
        /\ ReturnedUnits(s, l, ReturnsOf(s)) <= item[s][l].quantity

\* "Devolver todas las unidades de una venta devuelva exactamente lo que se
\* pago": once every unit of a charged sale is listed, in any number of returns,
\* they are worth its total, to the cent, with both kinds of discount.
AllReturnedIsAllPaid ==
    \A s \in Sales :
        (/\ sale[s].status = "COMPLETED"
         /\ \A l \in LinesOf(s) : ReturnedUnits(s, l, ReturnsOf(s)) = item[s][l].quantity)
        => Plus([r \in Returns |-> TotalReturned(r)], ReturnsOf(s)) = Total(s)

\* The goods are in the store once: of the returns that are completed, and of
\* the exchanges that were charged and wait for the difference.
BroughtBackOnce ==
    \A s \in Sales, l \in Places \ Generic :
        brought[s][l] = ReturnedUnits(s, l, {r \in ReturnsOf(s) :
            return[r].status = "COMPLETED" \/ return[r].replacement # 0})

\* What was sold comes back once, and is worth what was paid for it.
ReturnsAddUp ==
    SaleReturnTypeOK /\ NeverMoreThanSold /\ AllReturnedIsAllPaid /\ BroughtBackOnce

\* The notice of a new request, of a discount or of a return, is pending only
\* while somebody can still resolve it: there is no phantom card.
RequestNoticesAskForALiveStep ==
    RequestNoticeIsAlive /\ \A r \in waiting : return[r].status = "PENDING"
=============================================================================
