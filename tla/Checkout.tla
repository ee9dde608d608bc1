------------------------------ MODULE Checkout ------------------------------
(***************************************************************************)
(* The cash desk charging a sales order (SO) the seller left pending of    *)
(* payment: the order (internal-order), the draft sale that charges it     *)
(* (sale), the shift it belongs to (cash-session), what each of them and   *)
(* the store's returns bin (returns-bin) hold apart, and the trips that    *)
(* take the bin back to the warehouse.                                     *)
(*                                                                         *)
(* Only one store and one reference: the rows of each order, draft and bin *)
(* entry are a number of units.  Money is left to CashShift and the locks  *)
(* of the balances to Stock: what a transaction reads and writes under the *)
(* lock of the balance is one action here.  A transaction is an action per *)
(* lock of an order, a sale or a shift it waits for, and one that commits. *)
(***************************************************************************)
EXTENDS Integers, FiniteSets, Functions

CONSTANTS
    Orders,   \* sales orders whose goods the seller already received
    Sales,    \* identities of the drafts that may be created
    Shifts,   \* shifts of the store, already opened
    Trips,    \* identities of the returns (RE) sent from the bin
    Clients,  \* requests in flight at the same time
    MaxQty,   \* bound of an order and of a line
    Spare,    \* bound of the units the store has on its own
    None

ASSUME ConstantsAssumption ==
    /\ MaxQty \in Nat \ {0} /\ Spare \in Nat
    /\ IsFiniteSet(Orders) /\ IsFiniteSet(Sales) /\ IsFiniteSet(Trips)
    /\ Orders \cap Sales = {} /\ Trips \cap (Orders \cup Sales) = {}
    /\ None \notin Orders \cup Sales \cup Shifts \cup Trips

VARIABLES
    order,  \* rows of internal_orders of type SO
    sale,   \* rows of sales that charge an order
    shift,  \* status of the rows of cash_sessions
    trip,   \* status of the returns that leave from the bin
    stock,  \* units in the store's STOCK location
    held,   \* reservations of orders, sales and trips
    bin,    \* reservations of the returns bin, by the document that left them
    tx      \* the transaction each client has open

vars == <<order, sale, shift, trip, stock, held, bin, tx>>

Documents == Orders \cup Sales \cup Trips
Units == 0 .. MaxQty

OrderRow ==
    [status   : {"RECEIVED_BY_SELLER", "PENDING_PAYMENT", "PAID", "RETURNED", "CANCELLED"},
     quantity : Units,
     sale     : Sales \cup {None},
     reported : BOOLEAN]               \* an incident during its charge (history)

SaleRow ==
    [status : {"NONE", "DRAFT", "COMPLETED", "CANCELLED", "DISCARDED"},
     order  : Orders \cup {None},
     shift  : Shifts \cup {None},
     units  : Units]                \* quantity of its catalogue line

\* `todo`: the drafts of a closing whose order it has not got to yet.
Transaction ==
    [op     : {"none", "step", "checkout", "edit", "charge", "cancel", "close"},
     at     : {"idle", "needDraft", "needShift", "needOrder", "commit"},
     order  : Orders \cup {None},
     sale   : Sales \cup {None},
     shift  : Shifts \cup {None},
     todo   : SUBSET Sales,
     orders : SUBSET Orders,
     sales  : SUBSET Sales,
     shifts : SUBSET Shifts]

NoTransaction ==
    [op |-> "none", at |-> "idle", order |-> None, sale |-> None, shift |-> None,
     todo |-> {}, orders |-> {}, sales |-> {}, shifts |-> {}]

TypeOK ==
    /\ order \in [Orders -> OrderRow]
    /\ sale \in [Sales -> SaleRow]
    /\ shift \in [Shifts -> {"OPEN", "CLOSED"}]
    /\ trip \in [Trips -> {"NONE", "WAITING_FOR_RUNNER", "IN_TRANSIT", "CANCELLED"}]
    /\ stock \in Nat
    /\ held \in [Documents -> Nat]
    /\ bin \in [Documents -> Nat]
    /\ tx \in [Clients -> Transaction]

SumOver(f, S) == SumFunctionOnSet(f, S)

Init ==
    /\ order \in [Orders -> {[status |-> "RECEIVED_BY_SELLER", quantity |-> q,
                              sale |-> None, reported |-> FALSE] : q \in Units \ {0}}]
    /\ sale = [x \in Sales |-> [status |-> "NONE", order |-> None, shift |-> None,
                                units |-> 0]]
    /\ shift = [s \in Shifts |-> "OPEN"]
    /\ trip = [r \in Trips |-> "NONE"]
    /\ held = [d \in Documents |-> IF d \in Orders THEN order[d].quantity ELSE 0]
    /\ bin = [d \in Documents |-> 0]
    /\ stock \in {SumOver(held, Orders) + n : n \in 0 .. Spare}
    /\ tx = [t \in Clients |-> NoTransaction]

-----------------------------------------------------------------------------
(* Row locks *)

Idle(t) == tx[t].at = "idle"

OrderFree(o) == \A u \in Clients : o \notin tx[u].orders
SaleFree(x)  == \A u \in Clients : x \notin tx[u].sales
ShiftFree(s) == \A u \in Clients : s \notin tx[u].shifts

\* A transaction that takes a sale's entry out of the bin locks its row first.
BinLocked(u) ==
    IF \/ tx[u].op = "edit"
       \/ tx[u].op \in {"cancel", "close"} /\ tx[u].at \in {"needOrder", "commit"}
    THEN tx[u].sales \ tx[u].todo
    ELSE {}

Start(t, fields) == tx' = [tx EXCEPT ![t] = fields]
Finish(t) == Start(t, NoTransaction)

-----------------------------------------------------------------------------
(* Quantities *)

DraftsOf(o) == {x \in Sales : sale[x].status = "DRAFT" /\ sale[x].order = o}

Ordered(x) == order[sale[x].order].quantity

\* What a reservation can still take: the balance less all that is held apart.
Available == stock - SumOver(held, Documents) - SumOver(bin, Documents)

\* The same, once the documents of S have let go of all they held.
AvailableWithout(S) == Available + SumOver(held, S) + SumOver(bin, S \cap Sales)

-----------------------------------------------------------------------------
(* InternalOrderService.transition: the steps of a received order.  Each   *)
(* locks the order first and holds it until the end.                       *)

StepFrom ==
    [TO_PAYMENT     |-> {"RECEIVED_BY_SELLER"},
     BACK_TO_SELLER |-> {"PENDING_PAYMENT"},
     RETURN_REQUEST |-> {"RECEIVED_BY_SELLER", "PENDING_PAYMENT"}]

LockForStep(t, o) ==
    /\ Idle(t)
    /\ OrderFree(o)
    /\ order[o].status \in {"RECEIVED_BY_SELLER", "PENDING_PAYMENT"}
    /\ Start(t, [NoTransaction EXCEPT !.op = "step", !.at = "commit", !.order = o,
                                      !.orders = {o}])
    /\ UNCHANGED <<order, sale, shift, trip, stock, held, bin>>

\* Faulty variant: the order moves although the cash desk is charging it.
NoOpenSaleUnchecked(o) == o \in Orders

\* assertNoOpenSale, read without a lock on the sale.
NoOpenSale(o) == DraftsOf(o) = {}

CanStep(t, step) ==
    /\ tx[t].op = "step" /\ tx[t].at = "commit"
    /\ order[tx[t].order].status \in StepFrom[step]

SetStatus(o, status) == order' = [order EXCEPT ![o].status = status]

CommitToPayment(t) ==
    /\ CanStep(t, "TO_PAYMENT")
    /\ SetStatus(tx[t].order, "PENDING_PAYMENT")
    /\ Finish(t)
    /\ UNCHANGED <<sale, shift, trip, stock, held, bin>>

CommitBackToSeller(t) ==
    /\ CanStep(t, "BACK_TO_SELLER")
    /\ NoOpenSale(tx[t].order)
    /\ SetStatus(tx[t].order, "RECEIVED_BY_SELLER")
    /\ Finish(t)
    /\ UNCHANGED <<sale, shift, trip, stock, held, bin>>

\* The customer does not buy: from the order's hold to the store's bin.
CommitReturnRequest(t) ==
    LET o == tx[t].order
    IN  /\ CanStep(t, "RETURN_REQUEST")
        /\ NoOpenSale(o)
        /\ AvailableWithout({o}) >= order[o].quantity
        /\ held' = [held EXCEPT ![o] = 0]
        /\ bin' = [bin EXCEPT ![o] = @ + order[o].quantity]
        /\ SetStatus(o, "RETURNED")
        /\ Finish(t)
        /\ UNCHANGED <<sale, shift, trip, stock>>

\* reportIncident (NOT_FOUND, dropLines): the missing units leave the order,
\* which holds the rest again; with nothing left it is cancelled.  Nobody asks
\* whether the desk is charging it.
CommitIncident(t, missing) ==
    LET o    == tx[t].order
        rest == order[o].quantity - missing
    IN  /\ tx[t].op = "step" /\ tx[t].at = "commit"
        /\ missing \in 1 .. order[o].quantity
        /\ AvailableWithout({o}) >= rest
        /\ order' = [order EXCEPT ![o].quantity = rest,
                                  ![o].reported = @ \/ ~NoOpenSale(o),
                                  ![o].status = IF rest = 0 THEN "CANCELLED" ELSE @]
        /\ held' = [held EXCEPT ![o] = rest]
        /\ Finish(t)
        /\ UNCHANGED <<sale, shift, trip, stock, bin>>

-----------------------------------------------------------------------------
(* SaleService.createFromInternalOrder: order, open draft, shift.          *)

LockForCheckout(t, o, s) ==
    /\ Idle(t)
    /\ OrderFree(o)
    /\ order[o].status = "PENDING_PAYMENT"
    /\ Start(t, [NoTransaction EXCEPT !.op = "checkout", !.at = "needDraft",
                                      !.order = o, !.shift = s, !.orders = {o}])
    /\ UNCHANGED <<order, sale, shift, trip, stock, held, bin>>

\* The order has a draft: it is given back to its cashier, and refused to
\* another.  Nobody ends it meanwhile: that takes the order's lock.
TakeOpenDraft(t) ==
    /\ tx[t].op = "checkout" /\ tx[t].at = "needDraft"
    /\ \E x \in DraftsOf(tx[t].order) : SaleFree(x)
    /\ Finish(t)
    /\ UNCHANGED <<order, sale, shift, trip, stock, held, bin>>

\* Faulty variant: a new draft is opened without looking for the order's own.
FindNoDraftUnlooked(t) ==
    /\ tx[t].op = "checkout" /\ tx[t].at = "needDraft"
    /\ tx' = [tx EXCEPT ![t].at = "needShift"]
    /\ UNCHANGED <<order, sale, shift, trip, stock, held, bin>>

FindNoDraft(t) ==
    /\ tx[t].op = "checkout" /\ tx[t].at = "needDraft"
    /\ DraftsOf(tx[t].order) = {}
    /\ tx' = [tx EXCEPT ![t].at = "needShift"]
    /\ UNCHANGED <<order, sale, shift, trip, stock, held, bin>>

\* CashSessionService.lockOpen, for a checkout and for a charge.
LockOpenShift(t) ==
    /\ tx[t].op \in {"checkout", "charge"} /\ tx[t].at = "needShift"
    /\ ShiftFree(tx[t].shift)
    /\ shift[tx[t].shift] = "OPEN"
    /\ tx' = [tx EXCEPT ![t].shifts = {tx[t].shift},
                        ![t].at = IF tx[t].op = "charge" THEN "needOrder" ELSE "commit"]
    /\ UNCHANGED <<order, sale, shift, trip, stock, held, bin>>

\* What the order held passes to its draft (releaseForSale, syncReservations).
CommitCheckout(t, x) ==
    LET o == tx[t].order
    IN  /\ tx[t].op = "checkout" /\ tx[t].at = "commit"
        /\ sale[x].status = "NONE"
        /\ AvailableWithout({o}) >= order[o].quantity
        /\ sale' = [sale EXCEPT ![x] = [status |-> "DRAFT", order |-> o,
                                        shift |-> tx[t].shift,
                                        units |-> order[o].quantity]]
        /\ held' = [held EXCEPT ![o] = 0, ![x] = order[o].quantity]
        /\ Finish(t)
        /\ UNCHANGED <<order, shift, trip, stock, bin>>

-----------------------------------------------------------------------------
(* SaleService.addItem, updateItemQuantity, removeItem                     *)

LockDraft(t, x, op) ==
    /\ Idle(t)
    /\ SaleFree(x)
    /\ sale[x].status = "DRAFT"
    /\ Start(t, [NoTransaction EXCEPT !.op = op, !.sale = x, !.sales = {x},
                                      !.shift = sale[x].shift,
                                      !.at = CASE op = "edit"   -> "commit"
                                               [] op = "charge" -> "needShift"
                                               [] op = "cancel" -> "needOrder"])
    /\ UNCHANGED <<order, sale, shift, trip, stock, held, bin>>

\* What the order brought and the desk has taken off the sale.
Removed(x, units) == IF units < Ordered(x) THEN Ordered(x) - units ELSE 0

\* syncHoldings: the bin lets go, the sale holds its lines and the bin what is
\* left of the order; each only if the store has it.
CanHold(x, units) == AvailableWithout({x}) >= units + Removed(x, units)

CommitEdit(t, units) ==
    LET x == tx[t].sale
    IN  /\ tx[t].op = "edit" /\ tx[t].at = "commit"
        /\ CanHold(x, units)
        /\ sale' = [sale EXCEPT ![x].units = units]
        /\ held' = [held EXCEPT ![x] = units]
        /\ bin' = [bin EXCEPT ![x] = Removed(x, units)]
        /\ Finish(t)
        /\ UNCHANGED <<order, shift, trip, stock>>

-----------------------------------------------------------------------------
(* The order of a sale that is charged or discarded (markPaid,             *)
(* restoreAfterSaleDiscarded), locked after the sale and the shift.        *)

OrderWanted(t) == sale[tx[t].sale].order

LockOrder(t) ==
    /\ tx[t].at = "needOrder"
    /\ OrderFree(OrderWanted(t))
    /\ LET mine == tx[t].orders \cup {OrderWanted(t)}
       IN  \/ /\ tx[t].todo = {}
              /\ tx' = [tx EXCEPT ![t].orders = mine, ![t].at = "commit"]
           \/ \E x \in tx[t].todo :
                tx' = [tx EXCEPT ![t].orders = mine, ![t].sale = x, ![t].todo = @ \ {x}]
    /\ UNCHANGED <<order, sale, shift, trip, stock, held, bin>>

-----------------------------------------------------------------------------
(* SalePaymentService.complete                                             *)

CommitCharge(t) ==
    LET x == tx[t].sale
        o == OrderWanted(t)
    IN  /\ tx[t].op = "charge" /\ tx[t].at = "commit"
        /\ AvailableWithout({x}) - bin[x] >= sale[x].units
        /\ order[o].status = "PENDING_PAYMENT"
        /\ sale' = [sale EXCEPT ![x].status = "COMPLETED"]
        /\ order' = [order EXCEPT ![o].status = "PAID", ![o].sale = x]
        /\ stock' = stock - sale[x].units
        /\ held' = [held EXCEPT ![x] = 0]
        /\ Finish(t)
        /\ UNCHANGED <<shift, trip, bin>>

-----------------------------------------------------------------------------
(* SaleService.cancel and CashSessionService.close: the drafts in tx.sales *)
(* end and the orders they charged hold their goods again.                 *)

LockDraftsToClose(t, s) ==
    LET drafts == {x \in Sales : sale[x].status = "DRAFT" /\ sale[x].shift = s}
    IN  /\ Idle(t)
        /\ \A x \in drafts : SaleFree(x)     \* NOWAIT: one in use refuses the closing
        /\ Start(t, [NoTransaction EXCEPT !.op = "close", !.at = "needShift", !.shift = s,
                                          !.sales = drafts, !.todo = drafts])
        /\ UNCHANGED <<order, sale, shift, trip, stock, held, bin>>

LockShiftToClose(t) ==
    /\ tx[t].op = "close" /\ tx[t].at = "needShift"
    /\ ShiftFree(tx[t].shift)
    /\ shift[tx[t].shift] = "OPEN"
    /\ LET mine == {tx[t].shift}
       IN  \/ /\ tx[t].todo = {}
              /\ tx' = [tx EXCEPT ![t].shifts = mine, ![t].at = "commit"]
           \/ \E x \in tx[t].todo :
                tx' = [tx EXCEPT ![t].shifts = mine, ![t].at = "needOrder",
                                 ![t].sale = x, ![t].todo = @ \ {x}]
    /\ UNCHANGED <<order, sale, shift, trip, stock, held, bin>>

\* The orders that are still to be charged; any other is left as it is.
Restored(t) ==
    {o \in {sale[x].order : x \in tx[t].sales} : order[o].status = "PENDING_PAYMENT"}

CanRestore(t) ==
    AvailableWithout(tx[t].sales \cup Restored(t))
        >= SumOver([o \in Orders |-> order[o].quantity], Restored(t))

\* Faulty variant: the draft goes and its order is not told.
DiscardOnly(t, status) ==
    /\ sale' = [x \in Sales |-> IF x \in tx[t].sales
                                THEN [sale[x] EXCEPT !.status = status] ELSE sale[x]]
    /\ held' = [d \in Documents |-> IF d \in tx[t].sales THEN 0 ELSE held[d]]
    /\ bin' = [d \in Documents |-> IF d \in tx[t].sales THEN 0 ELSE bin[d]]

Discard(t, status) ==
    /\ CanRestore(t)
    /\ sale' = [x \in Sales |-> IF x \in tx[t].sales
                                THEN [sale[x] EXCEPT !.status = status] ELSE sale[x]]
    /\ held' = [d \in Documents |->
                  CASE d \in tx[t].sales -> 0
                    [] d \in Restored(t) -> order[d].quantity
                    [] OTHER             -> held[d]]
    /\ bin' = [d \in Documents |-> IF d \in tx[t].sales THEN 0 ELSE bin[d]]

CommitCancel(t) ==
    /\ tx[t].op = "cancel" /\ tx[t].at = "commit"
    /\ Discard(t, "CANCELLED")
    /\ Finish(t)
    /\ UNCHANGED <<order, shift, trip, stock>>

CommitClose(t) ==
    /\ tx[t].op = "close" /\ tx[t].at = "commit"
    /\ Discard(t, "DISCARDED")
    /\ shift' = [shift EXCEPT ![tx[t].shift] = "CLOSED"]
    /\ Finish(t)
    /\ UNCHANGED <<order, trip, stock>>

-----------------------------------------------------------------------------
(* The returns bin, emptied by the administrator.  One transaction each,   *)
(* that waits for rows of the bin only.                                    *)

BinRows == {d \in Documents : bin[d] > 0}

\* originWarehouses: what an order or the sale that charged it left goes back
\* to the warehouse that sent it; what a trip brought back names the store.
FromWarehouse(d) == d \in Orders \cup Sales

LockBin == \A u \in Clients : BinLocked(u) \cap BinRows = {}

CreateReturnFromBin(r) ==
    LET rows == {d \in BinRows : FromWarehouse(d)}
    IN  /\ LockBin
        /\ rows # {} /\ trip[r] = "NONE"
        /\ trip' = [trip EXCEPT ![r] = "WAITING_FOR_RUNNER"]
        /\ held' = [held EXCEPT ![r] = SumOver(bin, rows)]
        /\ bin' = [d \in Documents |-> IF d \in rows THEN 0 ELSE bin[d]]
        /\ UNCHANGED <<order, sale, shift, stock, tx>>

KeepBinInStore ==
    /\ LockBin
    /\ BinRows # {}
    /\ bin' = [d \in Documents |-> 0]
    /\ UNCHANGED <<order, sale, shift, trip, stock, held, tx>>

\* PICK_UP: released, and moved to the runner's bag.
PickUpReturn(r) ==
    /\ trip[r] = "WAITING_FOR_RUNNER"
    /\ trip' = [trip EXCEPT ![r] = "IN_TRANSIT"]
    /\ stock' = stock - held[r]
    /\ held' = [held EXCEPT ![r] = 0]
    /\ UNCHANGED <<order, sale, shift, bin, tx>>

\* CANCEL: back into the bin, now left there by the return itself.
CancelReturn(r) ==
    /\ trip[r] = "WAITING_FOR_RUNNER"
    /\ trip' = [trip EXCEPT ![r] = "CANCELLED"]
    /\ bin' = [bin EXCEPT ![r] = held[r]]
    /\ held' = [held EXCEPT ![r] = 0]
    /\ UNCHANGED <<order, sale, shift, stock, tx>>

\* A unit nobody holds is sold over the counter, with no order.
SellFromCounter ==
    /\ Available > 0
    /\ stock' = stock - 1
    /\ UNCHANGED <<order, sale, shift, trip, held, bin, tx>>

-----------------------------------------------------------------------------

\* A check fails, Postgres breaks a deadlock or the connection is lost.
Abort(t) ==
    /\ ~Idle(t)
    /\ Finish(t)
    /\ UNCHANGED <<order, sale, shift, trip, stock, held, bin>>

Begin(t) ==
    \/ \E o \in Orders : LockForStep(t, o)
    \/ \E o \in Orders, s \in Shifts : LockForCheckout(t, o, s)
    \/ \E x \in Sales, op \in {"edit", "charge", "cancel"} : LockDraft(t, x, op)
    \/ \E s \in Shifts : LockDraftsToClose(t, s)

NextLock(t) ==
    \/ TakeOpenDraft(t) \/ FindNoDraft(t)
    \/ LockOpenShift(t) \/ LockShiftToClose(t)
    \/ LockOrder(t)

Commit(t) ==
    \/ CommitToPayment(t) \/ CommitBackToSeller(t) \/ CommitReturnRequest(t)
    \/ \E missing \in Units : CommitIncident(t, missing)
    \/ \E x \in Sales : CommitCheckout(t, x)
    \/ \E units \in Units : CommitEdit(t, units)
    \/ CommitCharge(t) \/ CommitCancel(t) \/ CommitClose(t)

Bin ==
    \/ \E r \in Trips : CreateReturnFromBin(r) \/ PickUpReturn(r) \/ CancelReturn(r)
    \/ KeepBinInStore
    \/ SellFromCounter

Next == Bin \/ \E t \in Clients : Begin(t) \/ NextLock(t) \/ Commit(t) \/ Abort(t)

Spec == Init /\ [][Next]_vars

-----------------------------------------------------------------------------
(* Properties *)

(* However many desks open, discard, close and retry the charge of an order,  *)
(* it never has two sales open or charged, and it is PAID exactly when one of *)
(* them is charged, the one it is linked to (createFromInternalOrder,         *)
(* markPaid).                                                                 *)
ChargedAtMostOnce ==
    \A o \in Orders :
      LET mine == {x \in Sales : sale[x].order = o}
      IN  /\ Cardinality({x \in mine : sale[x].status \in {"DRAFT", "COMPLETED"}}) <= 1
          /\ {x \in mine : sale[x].status = "COMPLETED"}
                = (IF order[o].status = "PAID" THEN {order[o].sale} ELSE {})

(* While the cash desk has the charge of an order open the order waits for it:*)
(* nobody takes it back to the seller or gives it up for returned             *)
(* (assertNoOpenSale reads the sale without locking it).  Only an incident    *)
(* ends it under the desk, when it takes its last line (reportIncident).      *)
OpenChargeFreezesOrder ==
    \A x \in Sales :
      sale[x].status = "DRAFT" =>
        LET o == sale[x].order
        IN  \/ order[o].status = "PENDING_PAYMENT"
            \/ order[o].reported /\ order[o].status = "CANCELLED" /\ order[o].quantity = 0

(* "Lo apartado para el cliente pasa de la orden a la venta, sin soltarlo en  *)
(* el medio a nadie mas" and back when the draft ends: the goods of a live    *)
(* order are held whole by the order, or by its draft as many as its lines,   *)
(* and an order or a sale that ended holds nothing.  An order that lost lines *)
(* to an incident during its charge may hold the rest besides its draft.      *)
GoodsHaveOneHolder ==
    /\ \A o \in {p \in Orders : ~order[p].reported} :
         held[o] = IF /\ order[o].status \in {"RECEIVED_BY_SELLER", "PENDING_PAYMENT"}
                      /\ DraftsOf(o) = {}
                   THEN order[o].quantity ELSE 0
    /\ \A x \in Sales :
         held[x] = IF sale[x].status = "DRAFT" THEN sale[x].units ELSE 0

(* Orders, drafts, the bin and the trips to the warehouse never hold between  *)
(* them more units than the store has, whatever is charged, sent or kept.     *)
NothingHeldTwice == Available >= 0

(* Both: the goods of an order, of its draft and of the bin are accounted for. *)
GoodsAddUp == TypeOK /\ GoodsHaveOneHolder /\ NothingHeldTwice

(* t waits for a row that u holds. *)
WaitsFor(t, u) ==
    \/ tx[t].at = "needDraft" /\ DraftsOf(tx[t].order) \cap tx[u].sales # {}
    \/ tx[t].at = "needShift" /\ tx[t].shift \in tx[u].shifts
    \/ tx[t].at = "needOrder" /\ OrderWanted(t) \in tx[u].orders

(* "si ademas toca una venta, la venta se bloquea ANTES (...), y asi nunca se *)
(* cruzan dos operaciones" (CashSessionService): the opening of a charge and  *)
(* the operations on its draft never wait for each other.                     *)
NeverCross ==
    \A t, u \in Clients : t # u => ~(WaitsFor(t, u) /\ WaitsFor(u, t))

(* "Lo que caja habia quitado de ese cobro sale del cajon de devoluciones:    *)
(* vuelve a ser de la orden" (restoreAfterSaleDiscarded): a draft that is     *)
(* cancelled, or ends with its shift, always gives the order its goods back.  *)
OrderAlwaysRestored ==
    \A t \in Clients :
      tx[t].op \in {"cancel", "close"} /\ tx[t].at = "commit" => CanRestore(t)

=============================================================================
