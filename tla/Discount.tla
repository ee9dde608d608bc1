------------------------------ MODULE Discount ------------------------------
(***************************************************************************)
(* The money of a sale while it is a draft: its lines, the request for a   *)
(* discount on it (at most one is active), and the ways in which the sale  *)
(* stops being a draft, each of which has to take its request along.       *)
(*                                                                         *)
(* Every operation locks the sale first and reads the request again with   *)
(* the sale locked, so an operation is one action.  Amounts are whole      *)
(* cents.  A line is its place in the order of creation.  A request that   *)
(* is closed keeps its amounts as history; here they are dropped.          *)
(***************************************************************************)
EXTENDS Integers, FiniteSets, FiniteSetsExt

CONSTANTS
    Sales,        \* identities of the drafts that may be opened
    Requests,     \* identities of the discount requests that may be made
    MaxLines,     \* bound of the lines of a sale
    MaxUnits,     \* bound of the quantity of a line
    UnitPrice,    \* cents of a unit
    Amounts,      \* the amounts in cents that people ask for and approve
    MaxPercent    \* MAX_DISCOUNT_PERCENT

ASSUME DiscountAssumption ==
    /\ MaxLines \in Nat \ {0} /\ MaxUnits \in Nat \ {0} /\ UnitPrice \in Nat \ {0}
    /\ 0 \in Amounts /\ Amounts \subseteq Nat /\ MaxPercent \in 0 .. 100

VARIABLES
    sale,      \* rows of sales: status and general discount
    item,      \* rows of sale_items: quantity (0: no such line) and discount
    request,   \* rows of discount_requests with their items
    asking     \* requests whose "new request" notice somebody has not read

discountVars == <<sale, item, request, asking>>

-----------------------------------------------------------------------------
(* Rows *)

Places == 1 .. MaxLines

SaleRow == [status: {"NONE", "DRAFT", "COMPLETED", "CANCELLED", "DELETED"}, general: Nat]
ItemRow == [quantity: 0 .. MaxUnits, discount: Nat]

\* whole: one amount for the sale; otherwise lines has one for each line asked.
RequestStatus == {"NONE", "PENDING", "APPROVED", "REJECTED", "CANCELLED", "DELETED"}
RequestRow == [status: RequestStatus, on: Sales, whole: Nat, lines: [Places -> Nat],
               of: SUBSET Places]

Active == {"PENDING", "APPROVED"}

DiscountTypeOK ==
    /\ sale \in [Sales -> SaleRow]
    /\ item \in [Sales -> [Places -> ItemRow]]
    /\ request \in [Requests -> RequestRow]
    /\ asking \subseteq Requests

-----------------------------------------------------------------------------
(* Money *)

Plus(f, S) == SumFunctionOnSet(f, S)

\* roundMoney: half up.
RoundMoney(n, d) == (2 * n + d) \div (2 * d)

LinesOf(s) == {l \in Places : item[s][l].quantity > 0}

\* calculateLine, lineGross
Gross(s, l) == item[s][l].quantity * UnitPrice
LineTotal(s, l) == Gross(s, l) - item[s][l].discount

SaleValue(s) == Plus([l \in Places |-> Gross(s, l)], LinesOf(s))
Net(s) == Plus([l \in Places |-> LineTotal(s, l)], LinesOf(s))

\* calculateSaleTotals
Total(s) == Net(s) - sale[s].general

MaxDiscountFor(value) == RoundMoney(value * MaxPercent, 100)

-----------------------------------------------------------------------------
(* The draft *)

ActiveRequests(s) == {r \in Requests : request[r].on = s /\ request[r].status \in Active}
IsDraft(s) == sale[s].status = "DRAFT"

OpenDraft(s) ==
    /\ sale[s].status = "NONE"
    /\ sale' = [sale EXCEPT ![s].status = "DRAFT"]
    /\ UNCHANGED <<item, request, asking>>

\* Lines may be added with a request active: the value only grows.
AddItem(s, l, q) ==
    /\ IsDraft(s)
    /\ \A k \in Places : k >= l => k \notin LinesOf(s)
    /\ item' = [item EXCEPT ![s][l] = [quantity |-> q, discount |-> 0]]
    /\ UNCHANGED <<sale, request, asking>>

\* Mutant: a line may change under an active request.
UpdateItemUnderRequest(s, l, q) ==
    /\ IsDraft(s) /\ l \in LinesOf(s)
    /\ q * UnitPrice - item[s][l].discount + Net(s) - LineTotal(s, l) >= sale[s].general
    /\ item' = [item EXCEPT ![s][l].quantity = q]
    /\ UNCHANGED <<sale, request, asking>>

\* recalculate refuses a net below the general discount and undoes the change.
UpdateItemQuantity(s, l, q) ==
    /\ IsDraft(s) /\ l \in LinesOf(s)
    /\ ActiveRequests(s) = {}
    /\ q * UnitPrice - item[s][l].discount + Net(s) - LineTotal(s, l) >= sale[s].general
    /\ item' = [item EXCEPT ![s][l].quantity = q]
    /\ UNCHANGED <<sale, request, asking>>

RemoveItem(s, l) ==
    /\ IsDraft(s) /\ l \in LinesOf(s)
    /\ ActiveRequests(s) = {}
    /\ Net(s) - LineTotal(s, l) >= sale[s].general
    /\ item' = [item EXCEPT ![s][l] = [quantity |-> 0, discount |-> 0]]
    /\ UNCHANGED <<sale, request, asking>>

-----------------------------------------------------------------------------
(* The request *)

NoAmounts == [l \in Places |-> 0]

\* What may be asked or given: within the cap of the sale, or of each line.
WholeFits(s, whole) == whole > 0 /\ whole <= MaxDiscountFor(SaleValue(s))
LinesFit(s, of, lines) ==
    /\ \A l \in of : lines[l] <= MaxDiscountFor(Gross(s, l))
    /\ \A l \in Places \ of : lines[l] = 0
    /\ Plus(lines, of) > 0

\* of = {}: on the whole sale.
Fits(s, of, whole, lines) ==
    IF of = {} THEN WholeFits(s, whole) /\ lines = NoAmounts
               ELSE LinesFit(s, of, lines) /\ whole = 0

\* Approvers are told of a request, and the notice waits until it is resolved.
NotifyApprovers(r) == asking' = asking \cup {r}
ClearPendingNotices(r) == asking' = asking \ {r}

\* lockRequestAndSale: the request of a draft, in one of these statuses.
Resolvable(r, statuses) == request[r].status \in statuses /\ IsDraft(request[r].on)

RequestDiscount(r, s, of, whole, lines) ==
    /\ request[r].status = "NONE"
    /\ IsDraft(s)
    /\ ActiveRequests(s) = {}
    /\ of \subseteq LinesOf(s) /\ \A l \in of : lines[l] > 0
    /\ LinesOf(s) # {}
    /\ Fits(s, of, whole, lines)
    /\ request' = [request EXCEPT ![r] =
           [status |-> "PENDING", on |-> s, whole |-> whole, lines |-> lines, of |-> of]]
    /\ NotifyApprovers(r)
    /\ UNCHANGED <<sale, item>>

\* applyAmounts: on the lines of the request, or as the general discount.
ApplyAmounts(r, whole, lines) ==
    LET s == request[r].on IN
    /\ sale' = [sale EXCEPT ![s].general = whole]
    /\ item' = [item EXCEPT ![s] = [l \in Places |->
           IF l \in request[r].of THEN [@[l] EXCEPT !.discount = lines[l]] ELSE @[l]]]

\* Approving, or editing what was approved: amounts that are not given stay.
ApproveAmounts(r, whole, lines) ==
    /\ Resolvable(r, Active)
    /\ request[r].of \subseteq LinesOf(request[r].on)
    /\ Fits(request[r].on, request[r].of, whole, lines)
    /\ ApplyAmounts(r, whole, lines)
    /\ request' = [request EXCEPT
           ![r] = [@ EXCEPT !.status = "APPROVED", !.whole = whole, !.lines = lines]]
    /\ ClearPendingNotices(r)

\* A request that is closed in the way of status.
Closed(R, status) ==
    [r \in Requests |-> IF r \notin R THEN request[r]
                        ELSE [request[r] EXCEPT !.status = status, !.whole = 0,
                                                !.lines = NoAmounts, !.of = {}]]

Reject(r) ==
    /\ Resolvable(r, {"PENDING"})
    /\ request' = Closed({r}, "REJECTED")
    /\ ClearPendingNotices(r)
    /\ UNCHANGED <<sale, item>>

RemoveAppliedDiscount(r) == ApplyAmounts(r, 0, NoAmounts)

\* An approved discount leaves the sale with its request.
CancelRequest(r) ==
    /\ Resolvable(r, Active)
    /\ IF request[r].status = "APPROVED" THEN RemoveAppliedDiscount(r)
                                         ELSE UNCHANGED <<sale, item>>
    /\ request' = Closed({r}, "CANCELLED")
    /\ ClearPendingNotices(r)

ReadRequestNotice(r) ==
    /\ r \in asking
    /\ asking' = asking \ {r}
    /\ UNCHANGED <<sale, item, request>>

-----------------------------------------------------------------------------
(* The end of the draft *)

\* withdrawDiscountRequests, clearDiscountRequestNotices: the pending ones.
Settled(R) == {r \in R : request[r].status = "PENDING"}

\* Charging retires a pending request and keeps an approved one.
ChargeSale(s) ==
    LET pending == {r \in ActiveRequests(s) : request[r].status = "PENDING"}
    IN  /\ IsDraft(s)
        /\ LinesOf(s) # {} /\ Total(s) > 0
        /\ sale' = [sale EXCEPT ![s].status = "COMPLETED"]
        /\ request' = Closed(pending, "CANCELLED")
        /\ asking' = asking \ Settled(pending)
        /\ UNCHANGED item

CancelSale(s) ==
    /\ IsDraft(s)
    /\ sale' = [sale EXCEPT ![s].status = "CANCELLED"]
    /\ request' = Closed(ActiveRequests(s), "CANCELLED")
    /\ asking' = asking \ Settled(ActiveRequests(s))
    /\ UNCHANGED item

\* The shift closes: the draft goes, with its lines and all its requests.
DiscardDraft(s) ==
    /\ IsDraft(s)
    /\ sale' = [sale EXCEPT ![s] = [status |-> "DELETED", general |-> 0]]
    /\ item' = [item EXCEPT ![s] = [l \in Places |-> [quantity |-> 0, discount |-> 0]]]
    /\ request' = Closed({r \in Requests : request[r].on = s /\ request[r].status # "NONE"},
                         "DELETED")
    /\ asking' = asking \ Settled(ActiveRequests(s))

\* The trigger discount_requests_guard, and that of their amounts: a request of a
\* sale that is not a draft is not written any more.
DiscountRequestsGuard(r) ==
    request[r].status # "NONE" /\ ~IsDraft(request[r].on) => request'[r] = request[r]

-----------------------------------------------------------------------------

DiscountInit ==
    /\ sale = [s \in Sales |-> [status |-> "NONE", general |-> 0]]
    /\ item = [s \in Sales |-> [l \in Places |-> [quantity |-> 0, discount |-> 0]]]
    /\ \E s \in Sales : request = [r \in Requests |->
           [status |-> "NONE", on |-> s, whole |-> 0, lines |-> NoAmounts, of |-> {}]]
    /\ asking = {}

DiscountNext ==
    \/ \E s \in Sales :
           \/ OpenDraft(s) \/ ChargeSale(s) \/ CancelSale(s) \/ DiscardDraft(s)
           \/ \E l \in Places :
                  \/ RemoveItem(s, l)
                  \/ \E q \in 1 .. MaxUnits : AddItem(s, l, q) \/ UpdateItemQuantity(s, l, q)
    \/ \E r \in Requests :
           \/ Reject(r) \/ CancelRequest(r) \/ ReadRequestNotice(r)
           \/ \E whole \in Amounts, lines \in [Places -> Amounts] :
                  \/ ApproveAmounts(r, whole, lines)
                  \/ \E s \in Sales, of \in SUBSET Places :
                         RequestDiscount(r, s, of, whole, lines)

DiscountSpec == DiscountInit /\ [][DiscountNext]_discountVars

-----------------------------------------------------------------------------
(* Properties *)

\* "Solo la aprobada descuenta": what a draft or a charged sale discounts, on
\* each line and in general, is what its approved request says, and nothing when
\* it has none, whatever was edited, cancelled or asked again on the way.
DiscountIsTheApproved ==
    \A s \in Sales : sale[s].status \in {"DRAFT", "COMPLETED"} =>
        LET approved == {r \in ActiveRequests(s) : request[r].status = "APPROVED"}
        IN  /\ sale[s].general = Plus([r \in Requests |-> request[r].whole], approved)
            /\ \A l \in Places : item[s][l].discount =
                   Plus([r \in Requests |-> request[r].lines[l]], approved)

\* "Nadie, ni un administrador, pasa del 30 %": of the value that the sale, or
\* the line, has now, although it was judged when the amount was approved.
CapHolds ==
    \A s \in Sales :
        /\ sale[s].general <= MaxDiscountFor(SaleValue(s))
        /\ \A l \in Places : item[s][l].discount <= MaxDiscountFor(Gross(s, l))

\* What is discounted was approved, and is within the cap, and the trigger that
\* protects the requests of a charged sale has nothing to refuse.
DiscountsHold ==
    /\ [](DiscountTypeOK /\ DiscountIsTheApproved /\ CapHolds)
    /\ [][\A r \in Requests : DiscountRequestsGuard(r)]_discountVars

\* No phantom card: the notice of a new request is pending only while somebody
\* can still resolve it.
RequestNoticeIsAlive ==
    \A r \in asking : request[r].status = "PENDING" /\ sale[request[r].on].status = "DRAFT"
=============================================================================
