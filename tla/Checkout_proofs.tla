-------------------------- MODULE Checkout_proofs --------------------------
(***************************************************************************)
(* An order is charged at most once and waits for the desk that charges    *)
(* it, for any number of orders, drafts, shifts and requests: proofs about *)
(* Checkout; and its goods have one holder, whatever is charged, discarded *)
(* or taken back from the bin (GoodsAddUp).                                *)
(*                                                                         *)
(* They follow from what the lock of the order keeps for whoever has it    *)
(* (HolderInv), and from what an order and its live draft know of each     *)
(* other (OrderInv); the goods, besides, from what each commit does to the *)
(* sums of all that is held apart (AvailableNext).                         *)
(***************************************************************************)
EXTENDS Checkout, Sums, FiniteSetTheorems, TLAPS

Rows ==
    /\ order \in [Orders -> OrderRow]
    /\ sale \in [Sales -> SaleRow]
    /\ tx \in [Clients -> Transaction]

Live(x) == sale[x].status \in {"DRAFT", "COMPLETED"}

\* What a transaction relies on until it ends.
HolderInv(t) ==
    /\ \A x \in tx[t].sales : sale[x].status = "DRAFT"
    /\ tx[t].op \in {"step", "checkout"} =>
         /\ tx[t].order \in tx[t].orders
         /\ order[tx[t].order].status \in {"RECEIVED_BY_SELLER", "PENDING_PAYMENT"}
    /\ tx[t].op = "checkout" =>
         /\ order[tx[t].order].status = "PENDING_PAYMENT"
         /\ tx[t].at \in {"needShift", "commit"} => DraftsOf(tx[t].order) = {}
    /\ tx[t].todo \subseteq tx[t].sales
    /\ tx[t].op = "checkout" \/ tx[t].at = "needShift" => tx[t].shift \in Shifts
    /\ tx[t].at = "needOrder" => tx[t].op \in {"charge", "cancel", "close"}
    /\ tx[t].op \in {"edit", "charge", "cancel"} \/ tx[t].at = "needOrder" =>
         tx[t].sale \in tx[t].sales
    /\ tx[t].op = "charge" =>
         tx[t].todo = {} /\ (tx[t].at = "commit" => OrderWanted(t) \in tx[t].orders)

Exclusive ==
    \A t, u \in Clients : t # u =>
        tx[t].orders \cap tx[u].orders = {} /\ tx[t].sales \cap tx[u].sales = {}

\* An order and the sale that charges it.
OrderInv ==
    /\ \A x \in Sales : Live(x) => sale[x].order \in Orders /\ sale[x].shift \in Shifts
    /\ \A x, y \in Sales : Live(x) /\ Live(y) /\ sale[x].order = sale[y].order => x = y
    /\ \A x \in Sales : sale[x].status = "COMPLETED" =>
         order[sale[x].order].status = "PAID" /\ order[sale[x].order].sale = x
    /\ \A o \in Orders : order[o].status = "PAID" =>
         \E x \in Sales : order[o].sale = x /\ sale[x].status = "COMPLETED" /\ sale[x].order = o

CheckoutIInv ==
    /\ Rows /\ Exclusive /\ OrderInv /\ OpenChargeFreezesOrder
    /\ \A t \in Clients : HolderInv(t)

-----------------------------------------------------------------------------
(* Types *)

LEMMA NoTransactionType == NoTransaction \in Transaction
BY DEF NoTransaction, Transaction

LEMMA BeginRows ==
  ASSUME Rows, NEW t \in Clients, Begin(t)
  PROVE  Rows' /\ UNCHANGED <<order, sale, shift, trip, stock, held, bin>>
<1>1. ASSUME NEW row \in Transaction, Start(t, row) PROVE tx' \in [Clients -> Transaction]
  BY <1>1 DEF Rows, Start
<1>2. ASSUME NEW o \in Orders, LockForStep(t, o) PROVE tx' \in [Clients -> Transaction]
  <2>1. [NoTransaction EXCEPT !.op = "step", !.at = "commit", !.order = o, !.orders = {o}]
           \in Transaction
    BY DEF NoTransaction, Transaction
  <2> QED
    BY <1>1, <1>2, <2>1 DEF LockForStep
<1>3. ASSUME NEW o \in Orders, NEW s \in Shifts, LockForCheckout(t, o, s)
      PROVE  tx' \in [Clients -> Transaction]
  <2>1. [NoTransaction EXCEPT !.op = "checkout", !.at = "needDraft",
                              !.order = o, !.shift = s, !.orders = {o}] \in Transaction
    BY DEF NoTransaction, Transaction
  <2> QED
    BY <1>1, <1>3, <2>1 DEF LockForCheckout
<1>4. ASSUME NEW x \in Sales, NEW op \in {"edit", "charge", "cancel"}, LockDraft(t, x, op)
      PROVE  tx' \in [Clients -> Transaction]
  <2> DEFINE at == CASE op = "edit"   -> "commit"
                     [] op = "charge" -> "needShift"
                     [] op = "cancel" -> "needOrder"
  <2>1. at \in {"needShift", "needOrder", "commit"} /\ sale[x].shift \in Shifts \cup {None}
    BY DEF Rows, SaleRow
  <2> HIDE DEF at
  <2>2. [NoTransaction EXCEPT !.op = op, !.sale = x, !.sales = {x}, !.shift = sale[x].shift,
                              !.at = at] \in Transaction
    BY <2>1 DEF NoTransaction, Transaction
  <2> QED
    BY <1>1, <1>4, <2>2 DEF LockDraft, at
<1>5. ASSUME NEW s \in Shifts, LockDraftsToClose(t, s) PROVE tx' \in [Clients -> Transaction]
  <2> DEFINE drafts == {x \in Sales : sale[x].status = "DRAFT" /\ sale[x].shift = s}
  <2>1. drafts \in SUBSET Sales
    OBVIOUS
  <2> HIDE DEF drafts
  <2>2. [NoTransaction EXCEPT !.op = "close", !.at = "needShift", !.shift = s,
                              !.sales = drafts, !.todo = drafts] \in Transaction
    BY <2>1 DEF NoTransaction, Transaction
  <2> QED
    BY <1>1, <1>5, <2>2 DEF LockDraftsToClose, drafts
<1>6. UNCHANGED <<order, sale, shift, trip, stock, held, bin>>
  BY DEF Begin, LockForStep, LockForCheckout, LockDraft, LockDraftsToClose
<1> QED
  BY <1>2, <1>3, <1>4, <1>5, <1>6 DEF Begin, Rows

LEMMA LockRows ==
  ASSUME CheckoutIInv, NEW t \in Clients, NextLock(t) \/ Abort(t)
  PROVE  Rows' /\ UNCHANGED <<order, sale, shift, trip, stock, held, bin>>
<1>0. tx \in [Clients -> Transaction] /\ tx[t] \in Transaction
  BY DEF CheckoutIInv, Rows
<1>1. UNCHANGED <<order, sale, shift, trip, stock, held, bin>>
  BY DEF NextLock, TakeOpenDraft, FindNoDraft, LockOpenShift, LockShiftToClose, LockOrder, Abort
<1>2. CASE TakeOpenDraft(t) \/ Abort(t)
  BY <1>0, <1>1, <1>2, NoTransactionType
     DEF TakeOpenDraft, Abort, Finish, Start, CheckoutIInv, Rows
<1>3. CASE FindNoDraft(t)
  BY <1>0, <1>1, <1>3 DEF FindNoDraft, CheckoutIInv, Rows, Transaction
<1>4. CASE LockOpenShift(t)
  <2>1. {tx[t].shift} \in SUBSET Shifts
    BY <1>4 DEF LockOpenShift, CheckoutIInv, HolderInv
  <2> DEFINE at == IF tx[t].op = "charge" THEN "needOrder" ELSE "commit"
             new == [tx[t] EXCEPT !.shifts = {tx[t].shift}, !.at = at]
  <2>2. new \in Transaction
    BY <1>0, <2>1 DEF Transaction
  <2>3. tx' = [tx EXCEPT ![t] = new]
    BY <1>0, <1>4 DEF LockOpenShift
  <2> HIDE DEF new
  <2> QED
    BY <1>0, <1>1, <2>2, <2>3 DEF CheckoutIInv, Rows
<1>5. CASE LockShiftToClose(t)
  <2>1. {tx[t].shift} \in SUBSET Shifts
    BY <1>5 DEF LockShiftToClose, CheckoutIInv, HolderInv
  <2>2. \E new \in Transaction : tx' = [tx EXCEPT ![t] = new]
    <3>1. CASE tx' = [tx EXCEPT ![t].shifts = {tx[t].shift}, ![t].at = "commit"]
      <4>1. [tx[t] EXCEPT !.shifts = {tx[t].shift}, !.at = "commit"] \in Transaction
        BY <1>0, <2>1 DEF Transaction
      <4> QED
        BY <1>0, <3>1, <4>1
    <3>2. ASSUME NEW x \in tx[t].todo,
                 tx' = [tx EXCEPT ![t].shifts = {tx[t].shift}, ![t].at = "needOrder",
                                  ![t].sale = x, ![t].todo = @ \ {x}]
          PROVE  \E new \in Transaction : tx' = [tx EXCEPT ![t] = new]
      <4>1. [tx[t] EXCEPT !.shifts = {tx[t].shift}, !.at = "needOrder",
                          !.sale = x, !.todo = @ \ {x}] \in Transaction
        BY <1>0, <2>1 DEF Transaction
      <4> QED
        BY <1>0, <3>2, <4>1
    <3> QED
      BY <1>5, <3>1, <3>2 DEF LockShiftToClose
  <2> QED
    BY <1>0, <1>1, <2>2 DEF CheckoutIInv, Rows
<1>6. CASE LockOrder(t)
  <2>0. tx[t].sale \in Sales /\ OrderWanted(t) \in Orders
    BY <1>0, <1>6 DEF LockOrder, CheckoutIInv, HolderInv, OrderInv, Live, OrderWanted, Transaction
  <2> DEFINE mine == tx[t].orders \cup {OrderWanted(t)}
  <2>1. mine \in SUBSET Orders
    BY <1>0, <2>0 DEF Transaction
  <2>2. \/ tx' = [tx EXCEPT ![t].orders = mine, ![t].at = "commit"]
        \/ \E x \in tx[t].todo :
             tx' = [tx EXCEPT ![t].orders = mine, ![t].sale = x, ![t].todo = @ \ {x}]
    BY <1>6 DEF LockOrder
  <2> HIDE DEF mine
  <2>3. \E new \in Transaction : tx' = [tx EXCEPT ![t] = new]
    <3>1. CASE tx' = [tx EXCEPT ![t].orders = mine, ![t].at = "commit"]
      <4>1. [tx[t] EXCEPT !.orders = mine, !.at = "commit"] \in Transaction
        BY <1>0, <2>1 DEF Transaction
      <4> QED
        BY <1>0, <3>1, <4>1
    <3>2. ASSUME NEW x \in tx[t].todo,
                 tx' = [tx EXCEPT ![t].orders = mine, ![t].sale = x, ![t].todo = @ \ {x}]
          PROVE  \E new \in Transaction : tx' = [tx EXCEPT ![t] = new]
      <4>1. [tx[t] EXCEPT !.orders = mine, !.sale = x, !.todo = @ \ {x}] \in Transaction
        BY <1>0, <2>1 DEF Transaction
      <4> QED
        BY <1>0, <3>2, <4>1
    <3> QED
      BY <2>2, <3>1, <3>2
  <2> QED
    BY <1>0, <1>1, <2>3 DEF CheckoutIInv, Rows
<1> QED
  BY <1>2, <1>3, <1>4, <1>5, <1>6 DEF NextLock

-----------------------------------------------------------------------------
(* Locks are taken *)

\* A transaction takes rows that nobody else has, and relies on what it read.
LEMMA TakeStep ==
  ASSUME CheckoutIInv, Rows', NEW t \in Clients, UNCHANGED <<order, sale>>, HolderInv(t)',
         \A u \in Clients \ {t} :
             /\ tx'[u] = tx[u]
             /\ tx'[t].orders \cap tx[u].orders = {} /\ tx'[t].sales \cap tx[u].sales = {}
  PROVE  CheckoutIInv'
<1>1. Exclusive'
  BY DEF CheckoutIInv, Exclusive
<1>2. OrderInv' /\ OpenChargeFreezesOrder'
  BY DEF CheckoutIInv, OrderInv, Live, OpenChargeFreezesOrder
<1>3. ASSUME NEW u \in Clients PROVE HolderInv(u)'
  BY DEF CheckoutIInv, HolderInv, DraftsOf, OrderWanted
<1> QED
  BY <1>1, <1>2, <1>3 DEF CheckoutIInv

LEMMA BeginStep ==
  ASSUME CheckoutIInv, NEW t \in Clients, Begin(t)
  PROVE  CheckoutIInv'
<1>0. Rows' /\ UNCHANGED <<order, sale>>
  BY BeginRows DEF CheckoutIInv
<1>1. PICK row : Start(t, row)
  BY DEF Begin, LockForStep, LockForCheckout, LockDraft, LockDraftsToClose
<1>2. tx'[t] = row /\ \A u \in Clients \ {t} : tx'[u] = tx[u]
  BY <1>1 DEF Start, CheckoutIInv, Rows
<1>3. ASSUME NEW o \in Orders, LockForStep(t, o) \/ \E s \in Shifts : LockForCheckout(t, o, s)
      PROVE  CheckoutIInv'
  <2>1. /\ tx'[t].orders = {o} /\ tx'[t].sales = {} /\ tx'[t].order = o /\ tx'[t].todo = {}
        /\ tx'[t].op \in {"step", "checkout"} /\ tx'[t].at \in {"commit", "needDraft"}
        /\ tx'[t].op = "checkout" => tx'[t].at = "needDraft" /\ order[o].status = "PENDING_PAYMENT"
        /\ tx'[t].op = "checkout" => tx'[t].shift \in Shifts
        /\ order[o].status \in {"RECEIVED_BY_SELLER", "PENDING_PAYMENT"} /\ OrderFree(o)
    <3>1. CASE LockForStep(t, o)
      BY <3>1 DEF LockForStep, Start, NoTransaction, CheckoutIInv, Rows
    <3>2. ASSUME NEW s \in Shifts, LockForCheckout(t, o, s)
          PROVE  /\ tx'[t].orders = {o} /\ tx'[t].sales = {} /\ tx'[t].order = o
                 /\ tx'[t].todo = {} /\ tx'[t].op = "checkout" /\ tx'[t].at = "needDraft"
                 /\ tx'[t].shift = s /\ order[o].status = "PENDING_PAYMENT" /\ OrderFree(o)
      BY <3>2 DEF LockForCheckout, Start, NoTransaction, CheckoutIInv, Rows
    <3> QED
      BY <1>3, <3>1, <3>2
  <2>2. HolderInv(t)'
    BY <1>0, <2>1 DEF HolderInv
  <2> QED
    BY <1>0, <1>2, <2>1, <2>2, TakeStep DEF OrderFree
<1>4. ASSUME NEW x \in Sales, NEW op \in {"edit", "charge", "cancel"}, LockDraft(t, x, op)
      PROVE  CheckoutIInv'
  <2>1. /\ tx'[t].orders = {} /\ tx'[t].sales = {x} /\ tx'[t].sale = x /\ tx'[t].todo = {}
        /\ tx'[t].op = op /\ tx'[t].at = (CASE op = "edit"   -> "commit"
                                            [] op = "charge" -> "needShift"
                                            [] op = "cancel" -> "needOrder")
        /\ sale[x].status = "DRAFT" /\ SaleFree(x) /\ tx'[t].shift = sale[x].shift
    BY <1>4 DEF LockDraft, Start, NoTransaction, CheckoutIInv, Rows
  <2>2. sale[x].shift \in Shifts
    BY <2>1 DEF CheckoutIInv, OrderInv, Live
  <2>3. HolderInv(t)'
    BY <1>0, <2>1, <2>2 DEF HolderInv
  <2> QED
    BY <1>0, <1>2, <2>1, <2>3, TakeStep DEF SaleFree
<1>5. ASSUME NEW s \in Shifts, LockDraftsToClose(t, s) PROVE CheckoutIInv'
  <2> DEFINE drafts == {x \in Sales : sale[x].status = "DRAFT" /\ sale[x].shift = s}
  <2>1. /\ tx'[t].orders = {} /\ tx'[t].sales = drafts /\ tx'[t].todo = drafts
        /\ tx'[t].op = "close" /\ tx'[t].at = "needShift" /\ tx'[t].shift \in Shifts
        /\ \A x \in drafts : SaleFree(x)
    BY <1>5 DEF LockDraftsToClose, Start, NoTransaction, CheckoutIInv, Rows
  <2>2. HolderInv(t)'
    BY <1>0, <2>1 DEF HolderInv
  <2> QED
    BY <1>0, <1>2, <2>1, <2>2, TakeStep DEF SaleFree
<1> QED
  BY <1>3, <1>4, <1>5 DEF Begin, LockForStep

LEMMA LockStep ==
  ASSUME CheckoutIInv, NEW t \in Clients, NextLock(t) \/ Abort(t)
  PROVE  CheckoutIInv'
<1>0. /\ Rows' /\ UNCHANGED <<order, sale>>
      /\ tx \in [Clients -> Transaction] /\ tx[t] \in Transaction /\ HolderInv(t)
  BY LockRows DEF CheckoutIInv, Rows
<1>1. \A u \in Clients \ {t} : tx'[u] = tx[u]
  <2>1. ASSUME NEW row, tx' = [tx EXCEPT ![t] = row]
        PROVE  \A u \in Clients \ {t} : tx'[u] = tx[u]
    BY <1>0, <2>1
  <2>2. CASE TakeOpenDraft(t) \/ Abort(t)
    BY <2>1, <2>2 DEF TakeOpenDraft, Abort, Finish, Start
  <2>3. CASE FindNoDraft(t) \/ LockOpenShift(t)
    BY <1>0, <2>3 DEF FindNoDraft, LockOpenShift
  <2>4. CASE LockShiftToClose(t)
    BY <1>0, <2>4 DEF LockShiftToClose
  <2>5. CASE LockOrder(t)
    BY <1>0, <2>5 DEF LockOrder
  <2> QED
    BY <2>2, <2>3, <2>4, <2>5 DEF NextLock
<1>2. CASE TakeOpenDraft(t) \/ Abort(t)
  <2>1. tx'[t] = NoTransaction
    BY <1>0, <1>2 DEF TakeOpenDraft, Abort, Finish, Start
  <2>2. HolderInv(t)'
    BY <2>1 DEF HolderInv, NoTransaction
  <2> QED
    BY <1>0, <1>1, <2>1, <2>2, TakeStep DEF NoTransaction
\* The same rows, and the same documents to end.
<1>3. ASSUME tx'[t].orders = tx[t].orders, tx'[t].sales = tx[t].sales, HolderInv(t)'
      PROVE  CheckoutIInv'
  BY <1>0, <1>1, <1>3, TakeStep DEF CheckoutIInv, Exclusive
<1>4. CASE FindNoDraft(t)
  <2>1. /\ tx'[t] = [tx[t] EXCEPT !.at = "needShift"] /\ tx[t].op = "checkout"
        /\ tx[t].at = "needDraft"
        /\ DraftsOf(tx[t].order) = {}
    BY <1>0, <1>4 DEF FindNoDraft
  <2>2. /\ tx'[t].orders = tx[t].orders /\ tx'[t].sales = tx[t].sales /\ tx'[t].op = "checkout"
        /\ tx'[t].order = tx[t].order /\ tx'[t].todo = tx[t].todo /\ tx'[t].at = "needShift"
        /\ tx'[t].shift = tx[t].shift
    BY <1>0, <2>1 DEF Transaction
  <2>3. HolderInv(t)'
    BY <1>0, <2>1, <2>2 DEF HolderInv, DraftsOf
  <2> QED
    BY <1>3, <2>2, <2>3
<1>5. CASE LockOpenShift(t)
  <2>1. /\ tx[t].op \in {"checkout", "charge"} /\ tx[t].at = "needShift"
        /\ tx'[t].at = IF tx[t].op = "charge" THEN "needOrder" ELSE "commit"
        /\ tx'[t].orders = tx[t].orders /\ tx'[t].sales = tx[t].sales /\ tx'[t].op = tx[t].op
        /\ tx'[t].order = tx[t].order /\ tx'[t].sale = tx[t].sale /\ tx'[t].todo = tx[t].todo
        /\ tx'[t].shift = tx[t].shift
    BY <1>0, <1>5 DEF LockOpenShift, Transaction
  <2>2. HolderInv(t)'
    BY <1>0, <2>1 DEF HolderInv, DraftsOf
  <2> QED
    BY <1>3, <2>1, <2>2
<1>6. CASE LockShiftToClose(t)
  <2>1. /\ tx[t].op = "close" /\ tx'[t].op = "close"
        /\ tx'[t].orders = tx[t].orders /\ tx'[t].sales = tx[t].sales
        /\ tx'[t].todo \subseteq tx[t].todo
        /\ \/ tx'[t].at = "commit"
           \/ tx'[t].at = "needOrder" /\ tx'[t].sale \in tx[t].todo
    <3>1. CASE tx' = [tx EXCEPT ![t].shifts = {tx[t].shift}, ![t].at = "commit"]
      BY <1>0, <1>6, <3>1 DEF LockShiftToClose, Transaction
    <3>2. ASSUME NEW x \in tx[t].todo,
                 tx' = [tx EXCEPT ![t].shifts = {tx[t].shift}, ![t].at = "needOrder",
                                  ![t].sale = x, ![t].todo = @ \ {x}]
          PROVE  /\ tx[t].op = "close" /\ tx'[t].op = "close"
                 /\ tx'[t].orders = tx[t].orders /\ tx'[t].sales = tx[t].sales
                 /\ tx'[t].todo \subseteq tx[t].todo
                 /\ tx'[t].at = "needOrder" /\ tx'[t].sale \in tx[t].todo
      BY <1>0, <1>6, <3>2 DEF LockShiftToClose, Transaction
    <3> QED
      BY <1>6, <3>1, <3>2 DEF LockShiftToClose
  <2>2. HolderInv(t)'
    BY <1>0, <2>1 DEF HolderInv
  <2> QED
    BY <1>3, <2>1, <2>2
<1>7. CASE LockOrder(t)
  <2> DEFINE o == OrderWanted(t)
  <2>0. tx[t].at = "needOrder" /\ OrderFree(o)
    BY <1>7 DEF LockOrder
  <2>1. /\ tx'[t].op = tx[t].op /\ tx'[t].order = tx[t].order
        /\ tx'[t].orders = tx[t].orders \cup {o} /\ tx'[t].sales = tx[t].sales
        /\ tx'[t].todo \subseteq tx[t].todo
        /\ \/ tx'[t].at = "commit" /\ tx'[t].sale = tx[t].sale
           \/ tx'[t].at = "needOrder" /\ tx'[t].sale \in tx[t].todo /\ tx[t].todo # {}
    <3>1. CASE tx' = [tx EXCEPT ![t].orders = tx[t].orders \cup {o}, ![t].at = "commit"]
      BY <1>0, <3>1 DEF Transaction
    <3>2. ASSUME NEW x \in tx[t].todo,
                 tx' = [tx EXCEPT ![t].orders = tx[t].orders \cup {o}, ![t].sale = x,
                                  ![t].todo = @ \ {x}]
          PROVE  /\ tx'[t].op = tx[t].op /\ tx'[t].order = tx[t].order
                 /\ tx'[t].orders = tx[t].orders \cup {o} /\ tx'[t].sales = tx[t].sales
                 /\ tx'[t].todo \subseteq tx[t].todo
                 /\ tx'[t].at = "needOrder" /\ tx'[t].sale \in tx[t].todo
      BY <1>0, <2>0, <3>2 DEF Transaction
    <3> QED
      BY <1>7, <3>1, <3>2 DEF LockOrder
  <2>2. tx[t].op \in {"charge", "cancel", "close"}
    BY <1>0, <2>0 DEF HolderInv
  <2>3. HolderInv(t)'
    BY <1>0, <2>1, <2>2 DEF HolderInv, OrderWanted
  <2> QED
    BY <1>0, <1>1, <2>0, <2>1, <2>3, TakeStep DEF CheckoutIInv, Exclusive, OrderFree
<1> QED
  BY <1>2, <1>4, <1>5, <1>6, <1>7 DEF NextLock

-----------------------------------------------------------------------------
(* A transaction commits *)

\* Whoever else holds an order or a draft still finds what it relies on: the
\* commit writes rows of its own and drafts that nobody knew.
LEMMA OthersKeep ==
  ASSUME CheckoutIInv, NEW t \in Clients, Finish(t),
         \A x \in Sales : sale'[x] = sale[x] \/ x \in tx[t].sales \/ sale[x].status = "NONE",
         \A o \in Orders : order'[o] = order[o] \/ o \in tx[t].orders,
         \A x \in Sales : sale'[x].status = "DRAFT" =>
             \/ sale[x].status = "DRAFT" /\ sale'[x].order = sale[x].order
             \/ sale'[x].order \in tx[t].orders
  PROVE  /\ Exclusive' /\ \A u \in Clients : HolderInv(u)'
         /\ tx' \in [Clients -> Transaction]
<1>0. /\ tx \in [Clients -> Transaction] /\ tx'[t] = NoTransaction
      /\ \A u \in Clients \ {t} : tx'[u] = tx[u]
      /\ tx' \in [Clients -> Transaction]
  BY NoTransactionType DEF CheckoutIInv, Rows, Finish, Start
<1>1. Exclusive'
  BY <1>0 DEF CheckoutIInv, Exclusive, NoTransaction
<1>2. HolderInv(t)'
  BY <1>0 DEF HolderInv, NoTransaction
<1>3. ASSUME NEW u \in Clients, u # t PROVE HolderInv(u)'
  <2>0. /\ tx'[u] = tx[u] /\ HolderInv(u)
        /\ tx[u].orders \subseteq Orders /\ tx[u].sales \subseteq Sales
        /\ tx[u].orders \cap tx[t].orders = {} /\ tx[u].sales \cap tx[t].sales = {}
    BY <1>0, <1>3 DEF CheckoutIInv, Exclusive, Transaction
  <2>1. /\ \A x \in tx[u].sales : sale'[x] = sale[x]
        /\ \A o \in tx[u].orders : order'[o] = order[o]
    BY <2>0 DEF HolderInv
  <2>2. \A o \in tx[u].orders : DraftsOf(o) = {} => DraftsOf(o)' = {}
    BY <2>0 DEF DraftsOf
  <2>3. tx[u].op = "checkout" /\ tx[u].at \in {"needShift", "commit"} =>
            DraftsOf(tx[u].order)' = {}
    <3>1. tx[u].op = "checkout" /\ tx[u].at \in {"needShift", "commit"} =>
            tx[u].order \in tx[u].orders /\ DraftsOf(tx[u].order) = {}
      BY <2>0 DEF HolderInv
    <3>2. ASSUME NEW o \in tx[u].orders, DraftsOf(o) = {}
          PROVE  \A x \in Sales : ~(sale'[x].status = "DRAFT" /\ sale'[x].order = o)
      BY <2>2, <3>2 DEF DraftsOf
    <3> QED
      BY <1>0, <1>3, <3>1, <3>2 DEF DraftsOf
  <2> QED
    BY <2>0, <2>1, <2>3 DEF HolderInv, OrderWanted, DraftsOf
<1> QED
  BY <1>0, <1>1, <1>2, <1>3

\* What a step of the order does to it while its drafts look on.
Moved(o) ==
    /\ \A p \in Orders \ {o} : order'[p] = order[p]
    /\ order'[o] \in OrderRow /\ order' \in [Orders -> OrderRow]
    /\ order'[o].sale = order[o].sale /\ order'[o].status # "PAID"
    /\ DraftsOf(o) # {} =>
         \/ order'[o].status = "PENDING_PAYMENT"
         \/ order[o].status = "RECEIVED_BY_SELLER"
         \/ order'[o].reported /\ order'[o].status = "CANCELLED" /\ order'[o].quantity = 0

\* The order moves, loses lines or is given up: no sale of it is open, or it stays
\* pending of payment, or an incident took its last line.
LEMMA OrderStep ==
  ASSUME CheckoutIInv, NEW t \in Clients,
         \/ CommitToPayment(t) \/ CommitBackToSeller(t) \/ CommitReturnRequest(t)
         \/ \E missing \in Units : CommitIncident(t, missing)
  PROVE  CheckoutIInv'
<1> DEFINE o == tx[t].order
<1>0. /\ tx[t].op = "step" /\ tx[t].at = "commit" /\ Finish(t) /\ UNCHANGED sale
      /\ o \in tx[t].orders /\ o \in Orders /\ tx[t] \in Transaction
      /\ order[o].status \in {"RECEIVED_BY_SELLER", "PENDING_PAYMENT"}
  BY DEF CommitToPayment, CommitBackToSeller, CommitReturnRequest, CommitIncident, CanStep,
         CheckoutIInv, HolderInv, Rows, Transaction
<1>1. Moved(o)
  <2>0. order \in [Orders -> OrderRow]
    BY DEF CheckoutIInv, Rows
  <2>1. CASE CommitToPayment(t)
    BY <1>0, <2>0, <2>1 DEF CommitToPayment, SetStatus, OrderRow, Moved
  <2>2. CASE CommitBackToSeller(t)
    BY <1>0, <2>0, <2>2 DEF CommitBackToSeller, SetStatus, OrderRow, NoOpenSale, Moved
  <2>3. CASE CommitReturnRequest(t)
    BY <1>0, <2>0, <2>3 DEF CommitReturnRequest, SetStatus, OrderRow, NoOpenSale, Moved
  <2>4. ASSUME NEW missing \in Units, CommitIncident(t, missing)
        PROVE  Moved(o)
    <3> DEFINE rest == order[o].quantity - missing
               reported == order[o].reported \/ ~NoOpenSale(o)
               status == IF rest = 0 THEN "CANCELLED" ELSE order[o].status
               new == [order[o] EXCEPT !.quantity = rest, !.reported = reported,
                                       !.status = status]
    <3>1. order[o].quantity \in Units /\ missing \in 1 .. order[o].quantity
      BY <1>0, <2>0, <2>4 DEF CommitIncident, OrderRow
    <3>2. rest \in Units
      BY <3>1, ConstantsAssumption DEF Units
    <3>3. reported \in BOOLEAN /\ (DraftsOf(o) # {} => reported)
      BY <1>0, <2>0 DEF NoOpenSale, OrderRow
    <3>4. order' = [order EXCEPT ![o] = new]
      BY <1>0, <2>0, <2>4 DEF CommitIncident
    <3> HIDE DEF rest, reported
    <3>5. /\ new \in OrderRow /\ new.sale = order[o].sale /\ new.status # "PAID"
          /\ new.reported = reported /\ new.quantity = rest
          /\ new.status = IF rest = 0 THEN "CANCELLED" ELSE order[o].status
      BY <1>0, <2>0, <3>2, <3>3 DEF OrderRow
    <3> HIDE DEF new
    <3> QED
      BY <1>0, <2>0, <3>3, <3>4, <3>5 DEF Moved
  <2> QED
    BY <2>1, <2>2, <2>3, <2>4
<1> HIDE DEF o
<1>2. Exclusive' /\ (\A u \in Clients : HolderInv(u)') /\ tx' \in [Clients -> Transaction]
  BY <1>0, <1>1, OthersKeep DEF Moved
<1>3. Rows'
  BY <1>0, <1>1, <1>2 DEF CheckoutIInv, Rows, Moved
<1>4. OrderInv'
  BY <1>0, <1>1 DEF CheckoutIInv, OrderInv, Live, Moved
<1>5. OpenChargeFreezesOrder'
  <2> SUFFICES ASSUME NEW x \in Sales, sale[x].status = "DRAFT"
               PROVE  \/ order'[sale[x].order].status = "PENDING_PAYMENT"
                      \/ /\ order'[sale[x].order].reported
                         /\ order'[sale[x].order].status = "CANCELLED"
                         /\ order'[sale[x].order].quantity = 0
    BY <1>0 DEF OpenChargeFreezesOrder
  <2>1. /\ sale[x].order \in Orders
        /\ \/ order[sale[x].order].status = "PENDING_PAYMENT"
           \/ /\ order[sale[x].order].reported
              /\ order[sale[x].order].status = "CANCELLED"
              /\ order[sale[x].order].quantity = 0
    BY DEF CheckoutIInv, OrderInv, Live, OpenChargeFreezesOrder
  <2>2. CASE sale[x].order = o
    <3>1. x \in DraftsOf(o)
      BY <2>2 DEF DraftsOf
    <3> QED
      BY <1>0, <1>1, <2>1, <2>2, <3>1 DEF Moved
  <2>3. CASE sale[x].order # o
    BY <1>1, <2>1, <2>3 DEF Moved
  <2> QED
    BY <2>2, <2>3
<1> QED
  BY <1>2, <1>3, <1>4, <1>5 DEF CheckoutIInv

\* The order is pending of payment and has no draft: its lock has kept it so since
\* they were looked for.
LEMMA CheckoutStep ==
  ASSUME CheckoutIInv, NEW t \in Clients, NEW x \in Sales, CommitCheckout(t, x)
  PROVE  CheckoutIInv'
<1> DEFINE o == tx[t].order
           new == [status |-> "DRAFT", order |-> o, shift |-> tx[t].shift,
                   units |-> order[o].quantity]
<1>0. /\ Finish(t) /\ UNCHANGED order /\ sale[x].status = "NONE"
      /\ sale \in [Sales -> SaleRow] /\ sale' = [sale EXCEPT ![x] = new]
      /\ o \in tx[t].orders /\ o \in Orders /\ tx[t].shift \in Shifts
      /\ order[o].status = "PENDING_PAYMENT" /\ DraftsOf(o) = {}
  BY DEF CommitCheckout, CheckoutIInv, HolderInv, Rows, Transaction
<1>1. new \in SaleRow
  BY <1>0 DEF CheckoutIInv, Rows, OrderRow, SaleRow
<1>2. /\ sale'[x] = new /\ \A y \in Sales \ {x} : sale'[y] = sale[y]
      /\ sale' \in [Sales -> SaleRow]
      /\ new.status = "DRAFT" /\ new.order = o /\ new.shift \in Shifts
  BY <1>0, <1>1
<1> HIDE DEF o, new
<1>3. Exclusive' /\ (\A u \in Clients : HolderInv(u)') /\ tx' \in [Clients -> Transaction]
  BY <1>0, <1>2, OthersKeep
<1>4. \A y \in Sales : Live(y) => sale[y].order # o
  BY <1>0 DEF Live, DraftsOf, CheckoutIInv, OrderInv
<1>5. OrderInv'
  BY <1>0, <1>2, <1>4 DEF CheckoutIInv, OrderInv, Live
<1>6. OpenChargeFreezesOrder'
  BY <1>0, <1>2 DEF CheckoutIInv, OpenChargeFreezesOrder
<1> QED
  BY <1>0, <1>2, <1>3, <1>5, <1>6 DEF CheckoutIInv, Rows

LEMMA EditStep ==
  ASSUME CheckoutIInv, NEW t \in Clients, NEW units \in Units, CommitEdit(t, units)
  PROVE  CheckoutIInv'
<1> DEFINE x == tx[t].sale
<1>0. /\ Finish(t) /\ UNCHANGED order /\ sale \in [Sales -> SaleRow]
      /\ sale' = [sale EXCEPT ![x].units = units]
      /\ x \in tx[t].sales /\ x \in Sales
  BY DEF CommitEdit, CheckoutIInv, HolderInv, Rows, Transaction
<1> HIDE DEF x
<1>1. /\ sale' \in [Sales -> SaleRow] /\ \A y \in Sales \ {x} : sale'[y] = sale[y]
      /\ \A y \in Sales : /\ sale'[y].status = sale[y].status /\ sale'[y].order = sale[y].order
                          /\ sale'[y].shift = sale[y].shift
  BY <1>0 DEF SaleRow
<1>2. Exclusive' /\ (\A u \in Clients : HolderInv(u)') /\ tx' \in [Clients -> Transaction]
  BY <1>0, <1>1, OthersKeep
<1>3. OrderInv' /\ OpenChargeFreezesOrder'
  BY <1>0, <1>1 DEF CheckoutIInv, OrderInv, Live, OpenChargeFreezesOrder
<1> QED
  BY <1>0, <1>1, <1>2, <1>3 DEF CheckoutIInv, Rows

\* The draft and its order are both locked: the one is completed, the other paid.
LEMMA ChargeStep ==
  ASSUME CheckoutIInv, NEW t \in Clients, CommitCharge(t)
  PROVE  CheckoutIInv'
<1> DEFINE x == tx[t].sale
           o == sale[x].order
<1>0. /\ Finish(t) /\ x \in tx[t].sales /\ x \in Sales /\ sale[x].status = "DRAFT"
      /\ sale \in [Sales -> SaleRow] /\ order \in [Orders -> OrderRow]
      /\ sale' = [sale EXCEPT ![x].status = "COMPLETED"]
      /\ order' = [order EXCEPT ![o].status = "PAID", ![o].sale = x]
      /\ o \in tx[t].orders /\ o \in Orders /\ order[o].status = "PENDING_PAYMENT"
  BY DEF CommitCharge, CheckoutIInv, HolderInv, Rows, Transaction, OrderWanted
<1> HIDE DEF x, o
<1>1. /\ sale' \in [Sales -> SaleRow] /\ \A y \in Sales \ {x} : sale'[y] = sale[y]
      /\ sale'[x].status = "COMPLETED" /\ sale'[x].order = sale[x].order
      /\ sale'[x].shift = sale[x].shift
  BY <1>0 DEF SaleRow
<1>2. /\ order' \in [Orders -> OrderRow] /\ \A p \in Orders \ {o} : order'[p] = order[p]
      /\ order'[o].status = "PAID" /\ order'[o].sale = x
  <2>1. [order[o] EXCEPT !.status = "PAID", !.sale = x] \in OrderRow
    BY <1>0 DEF OrderRow
  <2>2. order' = [order EXCEPT ![o] = [order[o] EXCEPT !.status = "PAID", !.sale = x]]
    BY <1>0
  <2>3. order[o] \in OrderRow
    BY <1>0
  <2>4. /\ [order[o] EXCEPT !.status = "PAID", !.sale = x].status = "PAID"
        /\ [order[o] EXCEPT !.status = "PAID", !.sale = x].sale = x
    BY <2>3 DEF OrderRow
  <2> QED
    BY <1>0, <2>1, <2>2, <2>4
<1>3. Exclusive' /\ (\A u \in Clients : HolderInv(u)') /\ tx' \in [Clients -> Transaction]
  BY <1>0, <1>1, <1>2, OthersKeep
<1>4. \A y \in Sales \ {x} : Live(y) => sale[y].order # o
  BY <1>0 DEF o, Live, CheckoutIInv, OrderInv
<1>5. \A y \in Sales : Live(y)' <=> Live(y)
  BY <1>0, <1>1 DEF Live
<1>6. OrderInv'
  <2>1. /\ \A y \in Sales : Live(y)' => sale'[y].order \in Orders /\ sale'[y].shift \in Shifts
        /\ \A y, z \in Sales :
              Live(y)' /\ Live(z)' /\ sale'[y].order = sale'[z].order => y = z
    BY <1>1, <1>5 DEF CheckoutIInv, OrderInv
  <2>2. \A y \in Sales : sale'[y].status = "COMPLETED" =>
          order'[sale'[y].order].status = "PAID" /\ order'[sale'[y].order].sale = y
    BY <1>0, <1>1, <1>2, <1>4 DEF o, CheckoutIInv, OrderInv, Live
  <2>3. \A p \in Orders : order'[p].status = "PAID" =>
          \E y \in Sales : order'[p].sale = y /\ sale'[y].status = "COMPLETED" /\ sale'[y].order = p
    <3>1. ASSUME NEW p \in Orders, p # o, order'[p].status = "PAID"
          PROVE  \E y \in Sales : order'[p].sale = y /\ sale'[y].status = "COMPLETED"
                                  /\ sale'[y].order = p
      <4>1. PICK y \in Sales : order[p].sale = y /\ sale[y].status = "COMPLETED" /\ sale[y].order = p
        BY <1>2, <3>1 DEF CheckoutIInv, OrderInv
      <4>2. y # x
        BY <1>0, <4>1
      <4> QED
        BY <1>1, <1>2, <3>1, <4>1, <4>2
    <3>2. order'[o].sale = x /\ sale'[x].status = "COMPLETED" /\ sale'[x].order = o
      BY <1>1, <1>2 DEF o
    <3> QED
      BY <1>0, <3>1, <3>2
  <2> QED
    BY <2>1, <2>2, <2>3 DEF OrderInv
<1>7. OpenChargeFreezesOrder'
  <2> SUFFICES ASSUME NEW y \in Sales, sale'[y].status = "DRAFT"
               PROVE  /\ sale'[y].order = sale[y].order
                      /\ order'[sale[y].order] = order[sale[y].order]
                      /\ sale[y].status = "DRAFT"
    BY DEF CheckoutIInv, OpenChargeFreezesOrder
  <2>1. y # x
    BY <1>1
  <2>2. sale[y].status = "DRAFT" /\ sale[y].order \in Orders \ {o}
    BY <1>1, <1>4, <2>1 DEF CheckoutIInv, OrderInv, Live
  <2> QED
    BY <1>1, <1>2, <2>1, <2>2
<1> QED
  BY <1>1, <1>2, <1>3, <1>6, <1>7 DEF CheckoutIInv, Rows

\* The drafts of the transaction end and no order moves.
LEMMA DiscardStep ==
  ASSUME CheckoutIInv, NEW t \in Clients, CommitCancel(t) \/ CommitClose(t)
  PROVE  CheckoutIInv'
<1>0. PICK status \in {"CANCELLED", "DISCARDED"} :
        /\ Finish(t) /\ UNCHANGED order
        /\ sale' = [x \in Sales |-> IF x \in tx[t].sales
                                    THEN [sale[x] EXCEPT !.status = status] ELSE sale[x]]
  BY DEF CommitCancel, CommitClose, Discard
<1>1. ASSUME NEW x \in Sales
      PROVE  /\ sale'[x] \in SaleRow /\ sale'[x].order = sale[x].order
             /\ sale'[x].shift = sale[x].shift
             /\ IF x \in tx[t].sales THEN sale'[x].status = status ELSE sale'[x] = sale[x]
  BY <1>0 DEF CheckoutIInv, Rows, SaleRow
<1>2. sale' \in [Sales -> SaleRow]
  BY <1>0, <1>1
<1>3. Exclusive' /\ (\A u \in Clients : HolderInv(u)') /\ tx' \in [Clients -> Transaction]
  BY <1>0, <1>1, OthersKeep
<1>4. \A x \in Sales : /\ sale'[x].status \in {"DRAFT", "COMPLETED"} => sale'[x].status = sale[x].status
                       /\ sale[x].status = "COMPLETED" => sale'[x].status = "COMPLETED"
  BY <1>1 DEF CheckoutIInv, HolderInv
<1>5. OrderInv'
  BY <1>0, <1>1, <1>4 DEF CheckoutIInv, OrderInv, Live
<1>6. OpenChargeFreezesOrder'
  BY <1>0, <1>1, <1>4 DEF CheckoutIInv, OpenChargeFreezesOrder
<1> QED
  BY <1>0, <1>2, <1>3, <1>5, <1>6 DEF CheckoutIInv, Rows

LEMMA CheckoutInductive == CheckoutIInv /\ [Next]_vars => CheckoutIInv'
<1> SUFFICES ASSUME CheckoutIInv, [Next]_vars PROVE CheckoutIInv'
  OBVIOUS
<1>1. CASE Bin \/ UNCHANGED vars
  <2>1. UNCHANGED <<order, sale, tx>>
    BY <1>1 DEF Bin, CreateReturnFromBin, KeepBinInStore, PickUpReturn, CancelReturn,
                SellFromCounter, vars
  <2> QED
    BY <2>1 DEF CheckoutIInv, Rows, Exclusive, OrderInv, Live, OpenChargeFreezesOrder, HolderInv,
                DraftsOf, OrderWanted
<1>2. ASSUME NEW t \in Clients, Commit(t) PROVE CheckoutIInv'
  BY <1>2, OrderStep, CheckoutStep, EditStep, ChargeStep, DiscardStep DEF Commit
<1> QED
  BY <1>1, <1>2, BeginStep, LockStep DEF Next

LEMMA CheckoutStart == Init => CheckoutIInv
<1> SUFFICES ASSUME Init PROVE CheckoutIInv
  OBVIOUS
<1>1. order \in [Orders -> OrderRow] /\ \A o \in Orders : order[o].status = "RECEIVED_BY_SELLER"
  <2>1. \A q \in Units \ {0} :
          [status |-> "RECEIVED_BY_SELLER", quantity |-> q, sale |-> None, reported |-> FALSE]
             \in OrderRow
    BY DEF OrderRow
  <2> QED
    BY <2>1 DEF Init
<1>2. sale \in [Sales -> SaleRow] /\ \A x \in Sales : sale[x].status = "NONE"
  <2>1. 0 \in Units
    BY ConstantsAssumption DEF Units
  <2> QED
    BY <2>1 DEF Init, SaleRow
<1>3. tx \in [Clients -> Transaction] /\ \A t \in Clients : tx[t] = NoTransaction
  BY NoTransactionType DEF Init
<1>4. \A t \in Clients : HolderInv(t)
  BY <1>3 DEF HolderInv, NoTransaction
<1>5. Exclusive
  BY <1>3 DEF Exclusive, NoTransaction
<1> QED
  BY <1>1, <1>2, <1>3, <1>4, <1>5
     DEF CheckoutIInv, Rows, OrderInv, Live, OpenChargeFreezesOrder

-----------------------------------------------------------------------------
(* Theorems *)

LEMMA OneLiveSale ==
  ASSUME CheckoutIInv
  PROVE  ChargedAtMostOnce
<1> SUFFICES ASSUME NEW o \in Orders
             PROVE  LET mine == {x \in Sales : sale[x].order = o}
                    IN  /\ Cardinality({x \in mine : sale[x].status \in {"DRAFT", "COMPLETED"}}) <= 1
                        /\ {x \in mine : sale[x].status = "COMPLETED"}
                             = (IF order[o].status = "PAID" THEN {order[o].sale} ELSE {})
  BY DEF ChargedAtMostOnce
<1> DEFINE mine == {x \in Sales : sale[x].order = o}
           live == {x \in mine : sale[x].status \in {"DRAFT", "COMPLETED"}}
<1>1. Cardinality(live) <= 1
  <2>1. \A x, y \in live : x = y
    BY DEF CheckoutIInv, OrderInv, Live
  <2>2. CASE live = {}
    <3>1. Cardinality(live) = 0
      BY <2>2, FS_EmptySet
    <3> QED
      BY <3>1
  <2>3. CASE live # {}
    <3>1. PICK x \in live : TRUE
      BY <2>3
    <3>2. live = {x}
      BY <2>1, <3>1
    <3> HIDE DEF live
    <3>3. Cardinality(live) = 1
      BY <3>2, FS_Singleton
    <3> QED
      BY <3>3
  <2> QED
    BY <2>2, <2>3
<1>2. {x \in mine : sale[x].status = "COMPLETED"}
        = (IF order[o].status = "PAID" THEN {order[o].sale} ELSE {})
  <2>1. CASE order[o].status = "PAID"
    BY <2>1 DEF CheckoutIInv, OrderInv
  <2>2. CASE order[o].status # "PAID"
    BY <2>2 DEF CheckoutIInv, OrderInv
  <2> QED
    BY <2>1, <2>2
<1> QED
  BY <1>1, <1>2

\* What the locks of orders and drafts keep holds of every behaviour.
THEOREM Kept == Spec => []CheckoutIInv
BY CheckoutStart, CheckoutInductive, PTL DEF Spec

\* However many desks open, discard, close and retry the charge of an order, one
\* sale at most is open or charged for it, and it is PAID by the sale it is linked
\* to (createFromInternalOrder, markPaid).
THEOREM ChargedOnce == Spec => []ChargedAtMostOnce
BY OneLiveSale, Kept, PTL

\* Nobody takes an order away from the desk that is charging it (assertNoOpenSale),
\* but the incident that takes its last line.
THEOREM Frozen == Spec => []OpenChargeFreezesOrder
<1>1. CheckoutIInv => OpenChargeFreezesOrder
  BY DEF CheckoutIInv
<1> QED
  BY <1>1, Kept, PTL

-----------------------------------------------------------------------------
(* What is held apart *)

\* What the goods of an order are held by, while nothing was reported of it.
OrderGoods(o) ==
    IF /\ order[o].status \in {"RECEIVED_BY_SELLER", "PENDING_PAYMENT"}
       /\ DraftsOf(o) = {}
    THEN order[o].quantity ELSE 0

SaleGoods(x) == IF sale[x].status = "DRAFT" THEN sale[x].units ELSE 0

GoodsIInv == CheckoutIInv /\ GoodsAddUp

LEMMA FiniteDocuments == IsFiniteSet(Documents)
BY ConstantsAssumption, FS_Union DEF Documents

\* The sums over some documents are units.
LEMMA SumOfDocuments ==
  ASSUME NEW f, NEW S \in SUBSET Documents, \A d \in S : f[d] \in Nat
  PROVE  SumOver(f, S) \in Nat
<1>1. IsFiniteSet(S)
  BY FiniteDocuments, FS_Subset
<1> QED
  BY <1>1, SumNat DEF SumOver

LEMMA SumOfOne ==
  ASSUME NEW f, NEW d, f[d] \in Nat
  PROVE  SumOver(f, {d}) = f[d]
BY SumOne DEF SumOver

LEMMA SumOfTwo ==
  ASSUME NEW f, NEW d, NEW e, d # e, f[d] \in Nat, f[e] \in Nat
  PROVE  SumOver(f, {d, e}) = f[d] + f[e]
<1>1. IsFiniteSet({d}) /\ e \notin {d} /\ {d} \cup {e} = {d, e}
  BY FS_Singleton
<1>2. \A x \in {d} : f[x] \in Int
  OBVIOUS
<1>3. SumFunctionOnSet(f, {d} \cup {e}) = SumFunctionOnSet(f, {d}) + f[e]
  BY <1>1, <1>2, SumAdded
<1>4. SumFunctionOnSet(f, {d}) = f[d]
  BY SumOne
<1> QED
  BY <1>1, <1>3, <1>4 DEF SumOver

LEMMA SumOfNone == \A f : SumOver(f, {}) = 0
BY SumEmpty DEF SumOver

\* What one document lets go of is available to it: what it held, and its entry of
\* the bin if it is a sale.
LEMMA WithoutOne ==
  ASSUME GoodsAddUp, NEW d \in Documents
  PROVE  /\ d \in Sales => AvailableWithout({d}) = Available + held[d] + bin[d]
         /\ d \notin Sales => AvailableWithout({d}) = Available + held[d]
         /\ Available \in Int /\ held[d] \in Nat /\ bin[d] \in Nat
<1>1. held \in [Documents -> Nat] /\ bin \in [Documents -> Nat] /\ stock \in Nat
  BY DEF GoodsAddUp, TypeOK
<1>2. SumOver(held, {d}) = held[d] /\ SumOver(bin, {d}) = bin[d] /\ SumOver(bin, {}) = 0
  BY <1>1, SumOfOne, SumOfNone
<1>3. SumOver(held, Documents) \in Nat /\ SumOver(bin, Documents) \in Nat
  BY <1>1, SumOfDocuments
<1>4. Available \in Int
  BY <1>1, <1>3 DEF Available
<1>5. CASE d \in Sales
  <2>1. {d} \cap Sales = {d}
    BY <1>5
  <2> QED
    BY <1>1, <1>2, <1>4, <1>5, <2>1 DEF AvailableWithout
<1>6. CASE d \notin Sales
  <2>1. {d} \cap Sales = {}
    BY <1>6
  <2>2. SumOver(bin, {d} \cap Sales) = 0
    BY <1>2, <2>1, Zenon
  <2> QED
    BY <1>1, <1>2, <1>4, <1>6, <2>2 DEF AvailableWithout
<1> QED
  BY <1>5, <1>6

\* What is available changes by the units that leave the store and by what the
\* documents of H, and the entries of B in the bin, hold more or less.
LEMMA AvailableNext ==
  ASSUME GoodsAddUp, stock' \in Int,
         held' \in [Documents -> Nat], bin' \in [Documents -> Nat],
         NEW H \in SUBSET Documents, \A d \in Documents \ H : held'[d] = held[d],
         NEW B \in SUBSET Documents, \A d \in Documents \ B : bin'[d] = bin[d]
  PROVE  /\ Available' = Available + (stock' - stock)
                           + SumOver(held, H) - SumOver(held', H)
                           + SumOver(bin, B) - SumOver(bin', B)
         /\ Available \in Nat
         /\ SumOver(held, H) \in Nat /\ SumOver(held', H) \in Nat
         /\ SumOver(bin, B) \in Nat /\ SumOver(bin', B) \in Nat
<1>1. held \in [Documents -> Nat] /\ bin \in [Documents -> Nat] /\ stock \in Nat
  BY DEF GoodsAddUp, TypeOK
<1>2. ASSUME NEW f \in [Documents -> Nat], NEW g \in [Documents -> Nat],
             NEW T \in SUBSET Documents, \A d \in Documents \ T : g[d] = f[d]
      PROVE  /\ SumOver(g, Documents) = SumOver(f, Documents) - SumOver(f, T) + SumOver(g, T)
             /\ SumOver(f, Documents) \in Nat /\ SumOver(f, T) \in Nat /\ SumOver(g, T) \in Nat
  <2>1. SumOver(f, Documents) \in Nat /\ SumOver(f, T) \in Nat /\ SumOver(g, T) \in Nat
    BY SumOfDocuments
  <2>2. SumOver(g, Documents) = SumOver(f, Documents) - SumOver(f, T) + SumOver(g, T)
    BY <1>2, FiniteDocuments, SumUpdate DEF SumOver
  <2> QED
    BY <2>1, <2>2
<1>3. /\ SumOver(held', Documents)
           = SumOver(held, Documents) - SumOver(held, H) + SumOver(held', H)
      /\ SumOver(held, Documents) \in Nat /\ SumOver(held, H) \in Nat
      /\ SumOver(held', H) \in Nat
  BY <1>1, <1>2
<1>4. /\ SumOver(bin', Documents)
           = SumOver(bin, Documents) - SumOver(bin, B) + SumOver(bin', B)
      /\ SumOver(bin, Documents) \in Nat /\ SumOver(bin, B) \in Nat
      /\ SumOver(bin', B) \in Nat
  BY <1>1, <1>2
<1>5. /\ Available' = stock' - SumOver(held', Documents) - SumOver(bin', Documents)
      /\ Available = stock - SumOver(held, Documents) - SumOver(bin, Documents)
  BY DEF Available, SumOver
<1>6. Available \in Nat
  BY <1>1, <1>3, <1>4, <1>5 DEF GoodsAddUp, NothingHeldTwice
<1> QED
  BY <1>1, <1>3, <1>4, <1>5, <1>6

\* The same, when the bin is left alone.
LEMMA AvailableHeld ==
  ASSUME GoodsAddUp, stock' \in Int, bin' = bin, held' \in [Documents -> Nat],
         NEW H \in SUBSET Documents, \A d \in Documents \ H : held'[d] = held[d]
  PROVE  /\ Available' = Available + (stock' - stock) + SumOver(held, H) - SumOver(held', H)
         /\ Available \in Nat
         /\ SumOver(held, H) \in Nat /\ SumOver(held', H) \in Nat
<1>1. bin' \in [Documents -> Nat] /\ stock \in Nat
  BY DEF GoodsAddUp, TypeOK
<1>2. {} \in SUBSET Documents /\ \A d \in Documents \ {} : bin'[d] = bin[d]
  OBVIOUS
<1> DEFINE none == {}
<1>3. SumOver(bin, none) = 0 /\ SumOver(bin', none) = 0
  BY SumOfNone
<1> HIDE DEF none
<1>4. /\ Available' = Available + (stock' - stock) + SumOver(held, H) - SumOver(held', H)
                                  + SumOver(bin, none) - SumOver(bin', none)
      /\ Available \in Nat
      /\ SumOver(held, H) \in Nat /\ SumOver(held', H) \in Nat
  BY <1>1, <1>2, AvailableNext DEF none
<1> QED
  BY <1>1, <1>3, <1>4

\* GoodsHaveOneHolder, a document at a time.
LEMMA HolderOfEach ==
  GoodsHaveOneHolder <=>
    /\ \A o \in Orders : ~order[o].reported => held[o] = OrderGoods(o)
    /\ \A x \in Sales : held[x] = SaleGoods(x)
BY DEF GoodsHaveOneHolder, OrderGoods, SaleGoods

LEMMA HolderOfEachNext ==
  ASSUME \A o \in Orders : ~order'[o].reported => held'[o] = OrderGoods(o)',
         \A x \in Sales : held'[x] = SaleGoods(x)'
  PROVE  GoodsHaveOneHolder'
BY DEF GoodsHaveOneHolder, OrderGoods, SaleGoods

-----------------------------------------------------------------------------
(* Every commit leaves the goods with one holder and none held twice *)

GoodsRows ==
    /\ trip \in [Trips -> {"NONE", "WAITING_FOR_RUNNER", "IN_TRANSIT", "CANCELLED"}]
    /\ shift \in [Shifts -> {"OPEN", "CLOSED"}]
    /\ stock \in Nat
    /\ held \in [Documents -> Nat]
    /\ bin \in [Documents -> Nat]

LEMMA GoodsNow ==
  ASSUME GoodsIInv
  PROVE  /\ GoodsAddUp /\ GoodsRows /\ Rows
         /\ \A o \in Orders : ~order[o].reported => held[o] = OrderGoods(o)
         /\ \A x \in Sales : held[x] = SaleGoods(x)
         /\ Orders \subseteq Documents /\ Sales \subseteq Documents /\ Trips \subseteq Documents
         /\ \A o \in Orders : o \notin Sales /\ o \notin Trips
         /\ \A x \in Sales : x \notin Trips
         /\ \A o \in Orders : order[o].quantity \in Nat
BY HolderOfEach, ConstantsAssumption
   DEF GoodsIInv, GoodsAddUp, TypeOK, GoodsRows, Rows, Documents, OrderRow, Units

LEMMA GoodsNext ==
  ASSUME CheckoutIInv', GoodsRows', Available' >= 0,
         \A o \in Orders : ~order'[o].reported => held'[o] = OrderGoods(o)',
         \A x \in Sales : held'[x] = SaleGoods(x)'
  PROVE  GoodsAddUp'
BY HolderOfEachNext DEF GoodsAddUp, GoodsRows, TypeOK, NothingHeldTwice, CheckoutIInv, Rows

LEMMA ToPaymentGoods ==
  ASSUME GoodsIInv, CheckoutIInv', NEW t \in Clients, CommitToPayment(t) \/ CommitBackToSeller(t)
  PROVE  GoodsAddUp'
<1> DEFINE o == tx[t].order
<1>0. /\ o \in Orders /\ order[o].status \in {"RECEIVED_BY_SELLER", "PENDING_PAYMENT"}
      /\ order \in [Orders -> OrderRow]
      /\ UNCHANGED <<sale, shift, trip, stock, held, bin>>
      /\ \E status \in {"RECEIVED_BY_SELLER", "PENDING_PAYMENT"} :
           order' = [order EXCEPT ![o].status = status]
  BY DEF CommitToPayment, CommitBackToSeller, CanStep, SetStatus, GoodsIInv,
         CheckoutIInv, HolderInv, Rows, Transaction
<1> HIDE DEF o
<1>1. \A p \in Orders : OrderGoods(p)' = OrderGoods(p) /\ order'[p].reported = order[p].reported
  <2> SUFFICES ASSUME NEW p \in Orders
               PROVE  OrderGoods(p)' = OrderGoods(p) /\ order'[p].reported = order[p].reported
    OBVIOUS
  <2>1. DraftsOf(p)' = DraftsOf(p)
    BY <1>0 DEF DraftsOf
  <2>2. /\ order'[p].quantity = order[p].quantity /\ order'[p].reported = order[p].reported
        /\ order'[p].status \in {"RECEIVED_BY_SELLER", "PENDING_PAYMENT"}
             <=> order[p].status \in {"RECEIVED_BY_SELLER", "PENDING_PAYMENT"}
    BY <1>0 DEF OrderRow
  <2> QED
    BY <2>1, <2>2 DEF OrderGoods
<1>2. \A x \in Sales : SaleGoods(x)' = SaleGoods(x)
  BY <1>0 DEF SaleGoods
<1>3. Available' >= 0
  BY <1>0 DEF Available, GoodsIInv, GoodsAddUp, NothingHeldTwice
<1> QED
  BY <1>0, <1>1, <1>2, <1>3, GoodsNext, GoodsNow DEF GoodsRows

\* What the order held goes to the store's bin, as much as the order said.
LEMMA ReturnRequestGoods ==
  ASSUME GoodsIInv, CheckoutIInv', NEW t \in Clients, CommitReturnRequest(t)
  PROVE  GoodsAddUp'
<1> DEFINE o == tx[t].order
<1>0. /\ o \in Orders /\ order \in [Orders -> OrderRow]
      /\ UNCHANGED <<sale, shift, trip, stock>>
      /\ AvailableWithout({o}) >= order[o].quantity
      /\ held' = [held EXCEPT ![o] = 0]
      /\ bin' = [bin EXCEPT ![o] = bin[o] + order[o].quantity]
      /\ order' = [order EXCEPT ![o].status = "RETURNED"]
  BY DEF CommitReturnRequest, CanStep, SetStatus, GoodsIInv, CheckoutIInv, HolderInv, Rows,
         Transaction
<1> HIDE DEF o
<1>1. /\ o \in Documents /\ o \notin Sales /\ order[o].quantity \in Nat /\ GoodsRows
      /\ GoodsAddUp /\ {o} \in SUBSET Documents
  BY <1>0, GoodsNow
<1>2. /\ GoodsRows' /\ held'[o] = 0 /\ bin'[o] = bin[o] + order[o].quantity
      /\ \A d \in Documents \ {o} : held'[d] = held[d] /\ bin'[d] = bin[d]
  BY <1>0, <1>1 DEF GoodsRows
<1>3. Available' >= 0
  <2>1. /\ SumOver(held, {o}) = held[o] /\ SumOver(held', {o}) = 0
        /\ SumOver(bin, {o}) = bin[o] /\ SumOver(bin', {o}) = bin[o] + order[o].quantity
    BY <1>1, <1>2, SumOfOne DEF GoodsRows
  <2>2. Available' = Available + (stock' - stock)
                       + SumOver(held, {o}) - SumOver(held', {o})
                       + SumOver(bin, {o}) - SumOver(bin', {o})
    BY <1>1, <1>2, AvailableNext DEF GoodsRows
  <2>3. /\ AvailableWithout({o}) = Available + held[o]
        /\ Available \in Int /\ held[o] \in Nat /\ bin[o] \in Nat
    BY <1>1, WithoutOne
  <2>4. stock' = stock /\ stock \in Nat
    BY <1>0, <1>1 DEF GoodsRows
  <2> QED
    BY <1>0, <1>1, <2>1, <2>2, <2>3, <2>4
<1>4. ASSUME NEW p \in Orders, ~order'[p].reported PROVE held'[p] = OrderGoods(p)'
  <2>1. /\ order'[p].quantity = order[p].quantity /\ order'[p].reported = order[p].reported
        /\ order'[p].status = IF p = o THEN "RETURNED" ELSE order[p].status
    BY <1>0 DEF OrderRow
  <2>2. DraftsOf(p)' = DraftsOf(p)
    BY <1>0 DEF DraftsOf
  <2> QED
    BY <1>2, <1>4, <2>1, <2>2, GoodsNow DEF OrderGoods
<1>5. \A x \in Sales : held'[x] = SaleGoods(x)'
  BY <1>0, <1>1, <1>2, GoodsNow DEF SaleGoods
<1> QED
  BY <1>2, <1>3, <1>4, <1>5, GoodsNext

\* The order holds what is left of it; if a draft of it looks on, that is reported.
LEMMA IncidentGoods ==
  ASSUME GoodsIInv, CheckoutIInv', NEW t \in Clients, NEW missing \in Units,
         CommitIncident(t, missing)
  PROVE  GoodsAddUp'
<1>o. PICK o : o = tx[t].order
  OBVIOUS
<1> DEFINE rest == order[o].quantity - missing
           status == IF rest = 0 THEN "CANCELLED" ELSE order[o].status
           reported == order[o].reported \/ ~NoOpenSale(o)
<1>0. /\ o \in Orders /\ order \in [Orders -> OrderRow]
      /\ UNCHANGED <<sale, shift, trip, stock, bin>>
      /\ missing \in 1 .. order[o].quantity
      /\ AvailableWithout({o}) >= rest
      /\ held' = [held EXCEPT ![o] = rest]
      /\ order[o].status \in {"RECEIVED_BY_SELLER", "PENDING_PAYMENT"}
      /\ order' = [order EXCEPT ![o].quantity = rest, ![o].reported = reported,
                                ![o].status = status]
  BY <1>o DEF CommitIncident, GoodsIInv, CheckoutIInv, HolderInv, Rows, Transaction
<1>1. /\ order'[o].quantity = rest /\ order'[o].status = status
      /\ order'[o].reported = reported
      /\ \A p \in Orders \ {o} : order'[p] = order[p]
  BY <1>0 DEF OrderRow
<1>2. (~reported => DraftsOf(o) = {})
  BY DEF NoOpenSale
<1>3. /\ o \in Documents /\ o \notin Sales /\ order[o].quantity \in Nat /\ GoodsRows
      /\ GoodsAddUp /\ {o} \in SUBSET Documents
  BY <1>0, GoodsNow
<1>4. rest \in Nat
  BY <1>0, <1>3
<1> HIDE DEF rest, reported, status
<1>5. /\ GoodsRows' /\ held'[o] = rest
      /\ \A d \in Documents \ {o} : held'[d] = held[d]
  BY <1>0, <1>3, <1>4 DEF GoodsRows
<1>6. Available' >= 0
  <2>1. SumOver(held, {o}) = held[o] /\ SumOver(held', {o}) = rest
    BY <1>3, <1>4, <1>5, SumOfOne DEF GoodsRows
  <2>2. Available' = Available + (stock' - stock) + SumOver(held, {o}) - SumOver(held', {o})
    <3>1. stock' \in Int /\ bin' = bin /\ held' \in [Documents -> Nat]
      BY <1>0, <1>5 DEF GoodsRows
    <3> QED
      BY <1>3, <1>5, <3>1, AvailableHeld
  <2>3. AvailableWithout({o}) = Available + held[o] /\ Available \in Int /\ held[o] \in Nat
    BY <1>3, WithoutOne
  <2>4. stock' = stock /\ stock \in Nat
    BY <1>0, <1>3 DEF GoodsRows
  <2> QED
    BY <1>0, <1>4, <2>1, <2>2, <2>3, <2>4
<1>7. ASSUME NEW p \in Orders, ~order'[p].reported PROVE held'[p] = OrderGoods(p)'
  <2>1. DraftsOf(p)' = DraftsOf(p)
    BY <1>0 DEF DraftsOf
  <2>2. CASE p = o
    <3>1. DraftsOf(o) = {} /\ order'[o].status = status /\ order'[o].quantity = rest
      BY <1>1, <1>2, <1>7, <2>2
    <3>2. OrderGoods(o)' = rest
      BY <1>0, <2>1, <2>2, <3>1 DEF OrderGoods, status
    <3> QED
      BY <1>5, <2>2, <3>2
  <2>3. CASE p # o
    BY <1>1, <1>3, <1>5, <1>7, <2>1, <2>3, GoodsNow DEF OrderGoods
  <2> QED
    BY <2>2, <2>3
<1>8. \A x \in Sales : held'[x] = SaleGoods(x)'
  BY <1>0, <1>3, <1>5, GoodsNow DEF SaleGoods
<1> QED
  BY <1>5, <1>6, <1>7, <1>8, GoodsNext

\* The order lets go and its draft holds the same units.
LEMMA CheckoutGoods ==
  ASSUME GoodsIInv, CheckoutIInv', NEW t \in Clients, NEW x \in Sales, CommitCheckout(t, x)
  PROVE  GoodsAddUp'
<1>o. PICK o, q : o = tx[t].order /\ q = order[o].quantity
  OBVIOUS
<1>0. /\ o \in Orders /\ order \in [Orders -> OrderRow] /\ sale \in [Sales -> SaleRow]
      /\ UNCHANGED <<order, shift, trip, stock, bin>>
      /\ AvailableWithout({o}) >= q /\ sale[x].status = "NONE"
      /\ sale' = [sale EXCEPT ![x] = [status |-> "DRAFT", order |-> o,
                                      shift |-> tx[t].shift, units |-> q]]
      /\ held' = [held EXCEPT ![o] = 0, ![x] = q]
  BY <1>o DEF CommitCheckout, GoodsIInv, CheckoutIInv, HolderInv, Rows, Transaction
<1>1. /\ o \in Documents /\ x \in Documents /\ o \notin Sales /\ q \in Nat /\ GoodsRows
      /\ GoodsAddUp /\ {o, x} \in SUBSET Documents
  BY <1>0, <1>o, GoodsNow
<1>2. /\ sale'[x].status = "DRAFT" /\ sale'[x].order = o /\ sale'[x].units = q
      /\ \A y \in Sales \ {x} : sale'[y] = sale[y]
  BY <1>0
<1>3. /\ GoodsRows' /\ held'[o] = 0 /\ held'[x] = q
      /\ \A d \in Documents \ {o, x} : held'[d] = held[d]
  BY <1>0, <1>1 DEF GoodsRows
<1>4. Available' >= 0
  <2>0. o # x /\ held[o] \in Nat /\ held[x] \in Nat
    BY <1>1 DEF GoodsRows
  <2>1. SumOver(held, {o, x}) = held[o] + held[x]
    BY <2>0, SumOfTwo
  <2>2. SumOver(held', {o, x}) = q
    <3>1. SumOver(held', {o, x}) = held'[o] + held'[x]
      BY <1>1, <1>3, <2>0, SumOfTwo
    <3> QED
      BY <1>1, <1>3, <3>1
  <2>3. Available' = Available + (stock' - stock)
                       + SumOver(held, {o, x}) - SumOver(held', {o, x})
    <3>1. stock' \in Int /\ bin' = bin /\ held' \in [Documents -> Nat]
      BY <1>0, <1>3 DEF GoodsRows
    <3> QED
      BY <1>1, <1>3, <3>1, AvailableHeld
  <2>4. AvailableWithout({o}) = Available + held[o] /\ Available \in Int
    BY <1>1, WithoutOne
  <2>5. stock' = stock /\ stock \in Nat
    BY <1>0, <1>1 DEF GoodsRows
  <2> QED
    BY <1>0, <1>1, <2>0, <2>1, <2>2, <2>3, <2>4, <2>5
<1>5. ASSUME NEW p \in Orders, ~order'[p].reported PROVE held'[p] = OrderGoods(p)'
  <2>1. CASE p = o
    <3>1. x \in DraftsOf(o)'
      BY <1>2 DEF DraftsOf
    <3> QED
      BY <1>3, <2>1, <3>1 DEF OrderGoods
  <2>2. CASE p # o
    <3>1. DraftsOf(p)' = DraftsOf(p)
      BY <1>0, <1>2, <2>2 DEF DraftsOf
    <3>2. p \in Documents \ {o, x}
      BY <2>2, GoodsNow
    <3> QED
      BY <1>0, <1>3, <1>5, <3>1, <3>2, GoodsNow DEF OrderGoods
  <2> QED
    BY <2>1, <2>2
<1>6. ASSUME NEW y \in Sales PROVE held'[y] = SaleGoods(y)'
  BY <1>1, <1>2, <1>3, GoodsNow DEF SaleGoods
<1> QED
  BY <1>3, <1>4, <1>5, <1>6, GoodsNext

\* The draft holds its new lines and the bin what they leave of the order.
LEMMA EditGoods ==
  ASSUME GoodsIInv, CheckoutIInv', NEW t \in Clients, NEW units \in Units, CommitEdit(t, units)
  PROVE  GoodsAddUp'
<1>o. PICK x, left : x = tx[t].sale /\ left = Removed(x, units)
  OBVIOUS
<1>0. /\ x \in Sales /\ sale[x].status = "DRAFT" /\ sale \in [Sales -> SaleRow]
      /\ UNCHANGED <<order, shift, trip, stock>>
      /\ AvailableWithout({x}) >= units + left
      /\ sale' = [sale EXCEPT ![x].units = units]
      /\ held' = [held EXCEPT ![x] = units]
      /\ bin' = [bin EXCEPT ![x] = left]
  BY <1>o DEF CommitEdit, CanHold, GoodsIInv, CheckoutIInv, HolderInv, Rows, Transaction
<1>1. /\ x \in Documents /\ GoodsRows /\ GoodsAddUp /\ {x} \in SUBSET Documents
      /\ units \in Nat
  BY <1>0, GoodsNow DEF Units
<1>2. left \in Nat
  <2>1. sale[x].order \in Orders
    BY <1>0 DEF GoodsIInv, CheckoutIInv, OrderInv, Live
  <2>2. Ordered(x) \in Nat
    BY <2>1, GoodsNow DEF Ordered
  <2> QED
    BY <1>o, <1>1, <2>2 DEF Removed
<1>3. /\ GoodsRows' /\ held'[x] = units /\ bin'[x] = left
      /\ \A d \in Documents \ {x} : held'[d] = held[d] /\ bin'[d] = bin[d]
  BY <1>0, <1>1, <1>2 DEF GoodsRows
<1>4. Available' >= 0
  <2>1. /\ SumOver(held, {x}) = held[x] /\ SumOver(held', {x}) = units
        /\ SumOver(bin, {x}) = bin[x] /\ SumOver(bin', {x}) = left
    BY <1>1, <1>2, <1>3, SumOfOne DEF GoodsRows
  <2>2. Available' = Available + (stock' - stock)
                       + SumOver(held, {x}) - SumOver(held', {x})
                       + SumOver(bin, {x}) - SumOver(bin', {x})
    BY <1>1, <1>3, AvailableNext DEF GoodsRows
  <2>3. /\ AvailableWithout({x}) = Available + held[x] + bin[x]
        /\ Available \in Int /\ held[x] \in Nat /\ bin[x] \in Nat
    BY <1>0, <1>1, WithoutOne
  <2>4. stock' = stock /\ stock \in Nat
    BY <1>0, <1>1 DEF GoodsRows
  <2> QED
    BY <1>0, <1>1, <1>2, <2>1, <2>2, <2>3, <2>4
<1>5. /\ \A y \in Sales \ {x} : sale'[y] = sale[y]
      /\ \A y \in Sales : sale'[y].status = sale[y].status /\ sale'[y].order = sale[y].order
      /\ sale'[x].units = units
  BY <1>0 DEF SaleRow
<1>6. ASSUME NEW p \in Orders, ~order'[p].reported PROVE held'[p] = OrderGoods(p)'
  <2>1. DraftsOf(p)' = DraftsOf(p)
    BY <1>5 DEF DraftsOf
  <2>2. p \in Documents \ {x}
    BY <1>0, GoodsNow
  <2> QED
    BY <1>0, <1>3, <1>6, <2>1, <2>2, GoodsNow DEF OrderGoods
<1>7. ASSUME NEW y \in Sales PROVE held'[y] = SaleGoods(y)'
  BY <1>0, <1>1, <1>3, <1>5, GoodsNow DEF SaleGoods
<1> QED
  BY <1>3, <1>4, <1>6, <1>7, GoodsNext

\* The units leave the store and the draft lets go of them; its order held nothing
\* since it has a draft.
LEMMA ChargeGoods ==
  ASSUME GoodsIInv, CheckoutIInv', NEW t \in Clients, CommitCharge(t)
  PROVE  GoodsAddUp'
<1>o. PICK x, o, q : x = tx[t].sale /\ o = sale[x].order /\ q = sale[x].units
  OBVIOUS
<1>a. /\ sale \in [Sales -> SaleRow] /\ order \in [Orders -> OrderRow]
      /\ HolderInv(t) /\ tx[t] \in Transaction
  BY DEF GoodsIInv, CheckoutIInv, Rows
<1>b. x \in Sales /\ sale[x].status = "DRAFT"
  BY <1>o, <1>a DEF CommitCharge, HolderInv, Transaction
<1>c. o \in Orders
  BY <1>o, <1>b DEF GoodsIInv, CheckoutIInv, OrderInv, Live
<1>0. /\ UNCHANGED <<shift, trip, bin>>
      /\ AvailableWithout({x}) - bin[x] >= q
      /\ sale' = [sale EXCEPT ![x].status = "COMPLETED"]
      /\ order' = [order EXCEPT ![o].status = "PAID", ![o].sale = x]
      /\ stock' = stock - q
      /\ held' = [held EXCEPT ![x] = 0]
  BY <1>o DEF CommitCharge, OrderWanted
<1>1. /\ x \in Documents /\ GoodsRows /\ GoodsAddUp /\ {x} \in SUBSET Documents
  BY <1>b, GoodsNow
<1>2. q \in Nat
  <2>1. sale[x].units \in Units
    BY <1>a, <1>b DEF SaleRow
  <2> QED
    BY <1>o, <2>1 DEF Units
<1>3. /\ AvailableWithout({x}) = Available + held[x] + bin[x]
      /\ Available \in Int /\ held[x] \in Nat /\ bin[x] \in Nat
  BY <1>b, <1>1, WithoutOne
<1>4. stock' \in Nat
  <2>1. /\ SumOver(held, Documents) \in Nat /\ SumOver(bin, Documents) \in Nat
        /\ held[x] <= SumOver(held, Documents)
    BY <1>1, SumOfDocuments, FiniteDocuments, SumPart DEF GoodsRows, SumOver
  <2>2. Available = stock - SumOver(held, Documents) - SumOver(bin, Documents) /\ stock \in Nat
    BY <1>1 DEF Available, GoodsRows
  <2> QED
    BY <1>0, <1>2, <1>3, <2>1, <2>2
<1>5. /\ GoodsRows' /\ held'[x] = 0 /\ \A d \in Documents \ {x} : held'[d] = held[d]
  BY <1>0, <1>1, <1>4 DEF GoodsRows
<1>6. Available' >= 0
  <2>1. SumOver(held, {x}) = held[x] /\ SumOver(held', {x}) = 0
    <3>1. held'[x] \in Nat
      BY <1>5
    <3>2. SumOver(held', {x}) = held'[x]
      BY <3>1, SumOfOne
    <3> QED
      BY <1>3, <1>5, <3>2, SumOfOne
  <2>2. Available' = Available + (stock' - stock) + SumOver(held, {x}) - SumOver(held', {x})
    <3>1. stock' \in Int /\ bin' = bin /\ held' \in [Documents -> Nat]
      BY <1>0, <1>5 DEF GoodsRows
    <3> QED
      BY <1>1, <1>5, <3>1, AvailableHeld
  <2>3. stock \in Nat
    BY <1>1 DEF GoodsRows
  <2> QED
    BY <1>0, <1>2, <1>3, <2>1, <2>2, <2>3
<1>7. /\ \A y \in Sales \ {x} : sale'[y] = sale[y]
      /\ sale'[x].status = "COMPLETED" /\ sale'[x].order = o
  BY <1>o, <1>0, <1>a, <1>b DEF SaleRow
<1>8. /\ \A p \in Orders \ {o} : order'[p] = order[p]
      /\ order'[o].status = "PAID" /\ order'[o].reported = order[o].reported
  <2>1. order[o] \in OrderRow
    BY <1>a, <1>c
  <2>2. order' = [order EXCEPT ![o] = [order[o] EXCEPT !.status = "PAID", !.sale = x]]
    BY <1>0, <1>a
  <2>3. order'[o] = [order[o] EXCEPT !.status = "PAID", !.sale = x]
    BY <1>a, <1>c, <2>2
  <2> QED
    BY <1>a, <1>c, <2>1, <2>2, <2>3 DEF OrderRow
<1>9. ASSUME NEW p \in Orders, ~order'[p].reported PROVE held'[p] = OrderGoods(p)'
  <2>1. p \in Documents \ {x}
    BY <1>b, GoodsNow
  <2>2. CASE p = o
    <3>1. x \in DraftsOf(o)
      BY <1>o, <1>b DEF DraftsOf
    <3>2. held[o] = 0
      BY <1>8, <1>9, <2>2, <3>1, GoodsNow DEF OrderGoods
    <3> QED
      BY <1>5, <1>8, <2>1, <2>2, <3>2 DEF OrderGoods
  <2>3. CASE p # o
    <3>1. DraftsOf(p)' = DraftsOf(p)
      BY <1>o, <1>7, <2>3 DEF DraftsOf
    <3> QED
      BY <1>5, <1>8, <1>9, <2>1, <2>3, <3>1, GoodsNow DEF OrderGoods
  <2> QED
    BY <2>2, <2>3
<1>10. ASSUME NEW y \in Sales PROVE held'[y] = SaleGoods(y)'
  BY <1>1, <1>5, <1>7, GoodsNow DEF SaleGoods
<1> QED
  BY <1>5, <1>6, <1>9, <1>10, GoodsNext

\* The drafts let go of all they held, here and in the bin, and each order that is
\* still to be charged holds its quantity again: it has no draft left.
LEMMA DiscardGoods ==
  ASSUME GoodsIInv, CheckoutIInv', NEW t \in Clients, CommitCancel(t) \/ CommitClose(t)
  PROVE  GoodsAddUp'
<1>o. PICK mine, back : mine = tx[t].sales /\ back = Restored(t)
  OBVIOUS
<1>0. PICK status \in {"CANCELLED", "DISCARDED"} :
        /\ UNCHANGED <<order, trip, stock>>
        /\ sale' = [x \in Sales |-> IF x \in mine
                                    THEN [sale[x] EXCEPT !.status = status] ELSE sale[x]]
        /\ held' = [d \in Documents |->
                      CASE d \in mine -> 0
                        [] d \in back -> order[d].quantity
                        [] OTHER      -> held[d]]
        /\ bin' = [d \in Documents |-> IF d \in mine THEN 0 ELSE bin[d]]
  BY <1>o DEF CommitCancel, CommitClose, Discard
<1>1. AvailableWithout(mine \cup back) >= SumOver([o \in Orders |-> order[o].quantity], back)
  BY <1>o DEF CommitCancel, CommitClose, Discard, CanRestore
<1>2. shift' \in [Shifts -> {"OPEN", "CLOSED"}]
  BY GoodsNow DEF CommitCancel, CommitClose, GoodsRows
<1>3. /\ mine \subseteq Sales /\ \A x \in mine : sale[x].status = "DRAFT" /\ sale[x].order \in Orders
  BY <1>o DEF GoodsIInv, CheckoutIInv, HolderInv, Rows, Transaction, OrderInv, Live
<1>4. /\ back \subseteq Orders
      /\ \A o \in Orders : o \in back <=>
           order[o].status = "PENDING_PAYMENT" /\ \E x \in mine : sale[x].order = o
  BY <1>o, <1>3 DEF Restored
<1>5. /\ GoodsRows /\ GoodsAddUp /\ mine \in SUBSET Documents /\ back \in SUBSET Documents
      /\ mine \cup back \in SUBSET Documents /\ mine \cap back = {}
      /\ (mine \cup back) \cap Sales = mine /\ (mine \cup back) \ back = mine
  BY <1>3, <1>4, GoodsNow
<1>6. /\ \A d \in mine : held'[d] = 0 /\ bin'[d] = 0
      /\ \A o \in back : held'[o] = order[o].quantity
      /\ \A d \in Documents \ (mine \cup back) : held'[d] = held[d]
      /\ \A d \in Documents \ mine : bin'[d] = bin[d]
  BY <1>0, <1>5
<1>7. GoodsRows'
  <2>1. ASSUME NEW d \in Documents PROVE held'[d] \in Nat /\ bin'[d] \in Nat
    BY <1>4, <1>5, <1>6, GoodsNow DEF GoodsRows
  <2> QED
    BY <1>0, <1>2, <1>5, <2>1 DEF GoodsRows
<1>8. Available' >= 0
  <2> DEFINE q == [o \in Orders |-> order[o].quantity]
             both == mine \cup back
  <2>1. SumOver(held', both) = SumOver(q, back)
    <3>1. IsFiniteSet(both) /\ IsFiniteSet(back) /\ IsFiniteSet(mine)
      BY <1>5, FiniteDocuments, FS_Subset
    <3>2. \A d \in both : held'[d] \in Int
      BY <1>5, <1>7 DEF GoodsRows
    <3>3. SumOver(held', both) = SumOver(held', back) + SumOver(held', both \ back)
      <4> HIDE DEF both
      <4>1. back \in SUBSET both
        BY DEF both
      <4> QED
        BY <3>1, <3>2, <4>1, SumSplit DEF SumOver
    <3>4. SumOver(held', both \ back) = 0
      BY <1>5, <1>6, <3>1, SumZero DEF SumOver
    <3>5. SumOver(held', back) = SumOver(q, back)
      <4>1. \A o \in back : held'[o] = q[o]
        BY <1>4, <1>6
      <4> HIDE DEF q
      <4> QED
        BY <3>1, <4>1, SumSame DEF SumOver
    <3>6. SumOver(held', back) \in Nat
      BY <1>5, <1>7, SumOfDocuments DEF GoodsRows
    <3> HIDE DEF q, both
    <3> QED
      BY <3>3, <3>4, <3>5, <3>6
  <2>2. SumOver(bin', mine) = 0
    BY <1>5, <1>6, FiniteDocuments, FS_Subset, SumZero DEF SumOver
  <2>3. /\ Available' = Available + (stock' - stock)
                         + SumOver(held, both) - SumOver(held', both)
                         + SumOver(bin, mine) - SumOver(bin', mine)
        /\ Available \in Nat /\ SumOver(held, both) \in Nat /\ SumOver(held', both) \in Nat
        /\ SumOver(bin, mine) \in Nat /\ SumOver(bin', mine) \in Nat
    <3>1. /\ stock' \in Int /\ held' \in [Documents -> Nat] /\ bin' \in [Documents -> Nat]
          /\ both \in SUBSET Documents
          /\ \A d \in Documents \ both : held'[d] = held[d]
      BY <1>5, <1>6, <1>7 DEF GoodsRows
    <3> HIDE DEF both
    <3> QED
      BY <1>5, <1>6, <3>1, AvailableNext
  <2>4. AvailableWithout(both) = Available + SumOver(held, both) + SumOver(bin, mine)
    BY <1>5 DEF AvailableWithout
  <2>5. stock' = stock /\ stock \in Nat
    BY <1>0, <1>5 DEF GoodsRows
  <2>6. AvailableWithout(both) >= SumOver(q, back)
    BY <1>1
  <2> HIDE DEF q, both
  <2> QED
    BY <2>1, <2>2, <2>3, <2>4, <2>5, <2>6
<1>9. ASSUME NEW x \in Sales
      PROVE  /\ x \in mine => sale'[x].status = status
             /\ x \notin mine => sale'[x] = sale[x]
  BY <1>0 DEF GoodsIInv, CheckoutIInv, Rows, SaleRow
<1>10. ASSUME NEW p \in Orders, ~order'[p].reported PROVE held'[p] = OrderGoods(p)'
  <2>0. p \in Documents /\ p \notin mine
    BY <1>3, GoodsNow
  <2>1. DraftsOf(p)' = DraftsOf(p) \ mine
    BY <1>9, <1>3 DEF DraftsOf
  <2>2. CASE \E x \in mine : sale[x].order = p
    <3>1. PICK x \in mine : sale[x].order = p
      BY <2>2
    <3>2. order[p].status = "PENDING_PAYMENT"
      BY <1>0, <1>3, <1>10, <3>1 DEF GoodsIInv, CheckoutIInv, OpenChargeFreezesOrder
    <3>3. DraftsOf(p) \ mine = {}
      BY <1>3, <3>1 DEF DraftsOf, GoodsIInv, CheckoutIInv, OrderInv, Live
    <3>4. held'[p] = order[p].quantity
      BY <1>4, <1>6, <3>1, <3>2
    <3> QED
      BY <1>0, <2>1, <3>2, <3>3, <3>4 DEF OrderGoods
  <2>3. CASE ~ \E x \in mine : sale[x].order = p
    <3>1. p \notin back /\ DraftsOf(p) \ mine = DraftsOf(p)
      BY <1>4, <2>3 DEF DraftsOf
    <3>2. held'[p] = held[p]
      BY <1>6, <2>0, <3>1
    <3> QED
      BY <1>0, <1>10, <2>1, <3>1, <3>2, GoodsNow DEF OrderGoods
  <2> QED
    BY <2>2, <2>3
<1>11. ASSUME NEW y \in Sales PROVE held'[y] = SaleGoods(y)'
  <2>1. y \in Documents /\ y \notin back
    BY <1>4, GoodsNow
  <2>2. CASE y \in mine
    BY <1>6, <1>9, <2>2 DEF SaleGoods
  <2>3. CASE y \notin mine
    <3>1. held'[y] = held[y] /\ sale'[y] = sale[y]
      BY <1>6, <1>9, <2>1, <2>3
    <3> QED
      BY <3>1, GoodsNow DEF SaleGoods
  <2> QED
    BY <2>2, <2>3
<1> QED
  BY <1>7, <1>8, <1>10, <1>11, GoodsNext

\* A return takes what is in the bin, is picked up with what it holds, or is left in
\* the bin again; the bin is kept; a unit that nobody holds is sold.
LEMMA BinGoods ==
  ASSUME GoodsIInv, CheckoutIInv', Bin
  PROVE  GoodsAddUp'
<1>0. UNCHANGED <<order, sale, shift, tx>>
  BY DEF Bin, CreateReturnFromBin, KeepBinInStore, PickUpReturn, CancelReturn, SellFromCounter
<1>1. GoodsAddUp /\ GoodsRows /\ Available \in Nat
  <2>1. {} \in SUBSET Documents /\ GoodsAddUp /\ GoodsRows
    BY GoodsNow
  <2>2. /\ SumOver(held, Documents) \in Nat /\ SumOver(bin, Documents) \in Nat
    BY <2>1, SumOfDocuments DEF GoodsRows
  <2> QED
    BY <2>1, <2>2 DEF GoodsRows, Available, GoodsAddUp, NothingHeldTwice
\* Orders and sales keep what they hold.
<1>2. ASSUME GoodsRows', Available' >= 0, \A d \in Orders \cup Sales : held'[d] = held[d]
      PROVE  GoodsAddUp'
  <2>1. ASSUME NEW p \in Orders, ~order'[p].reported PROVE held'[p] = OrderGoods(p)'
    <3>1. DraftsOf(p)' = DraftsOf(p)
      BY <1>0 DEF DraftsOf
    <3> QED
      BY <1>0, <1>2, <2>1, <3>1, GoodsNow DEF OrderGoods
  <2>2. ASSUME NEW y \in Sales PROVE held'[y] = SaleGoods(y)'
    BY <1>0, <1>2, GoodsNow DEF SaleGoods
  <2> QED
    BY <1>2, <2>1, <2>2, GoodsNext
<1>3. ASSUME NEW r \in Trips, CreateReturnFromBin(r) PROVE GoodsAddUp'
  <2>o. PICK rows \in SUBSET Documents :
          /\ trip' = [trip EXCEPT ![r] = "WAITING_FOR_RUNNER"]
          /\ held' = [held EXCEPT ![r] = SumOver(bin, rows)]
          /\ bin' = [d \in Documents |-> IF d \in rows THEN 0 ELSE bin[d]]
          /\ stock' = stock
    BY <1>3 DEF CreateReturnFromBin, BinRows
  <2>1. r \in Documents /\ {r} \in SUBSET Documents /\ r \notin Orders /\ r \notin Sales
    BY GoodsNow
  <2>2. SumOver(bin, rows) \in Nat /\ SumOver(bin', rows) = 0
    <3>1. SumOver(bin, rows) \in Nat
      BY <1>1, SumOfDocuments DEF GoodsRows
    <3>2. IsFiniteSet(rows) /\ \A d \in rows : bin'[d] = 0
      BY <2>o, FiniteDocuments, FS_Subset
    <3> QED
      BY <3>1, <3>2, SumZero DEF SumOver
  <2>3. /\ GoodsRows' /\ held'[r] = SumOver(bin, rows)
        /\ \A d \in Documents \ {r} : held'[d] = held[d]
        /\ \A d \in Documents \ rows : bin'[d] = bin[d]
    BY <1>0, <1>1, <2>o, <2>1, <2>2 DEF GoodsRows
  <2>4. Available' >= 0
    <3>1. /\ Available' = Available + (stock' - stock)
                           + SumOver(held, {r}) - SumOver(held', {r})
                           + SumOver(bin, rows) - SumOver(bin', rows)
          /\ SumOver(held, {r}) \in Nat
      BY <1>1, <2>1, <2>3, AvailableNext DEF GoodsRows
    <3>2. SumOver(held', {r}) = SumOver(bin, rows)
      <4>1. held'[r] \in Nat
        BY <2>2, <2>3
      <4> QED
        BY <2>3, <4>1, SumOfOne
    <3>3. stock' = stock /\ stock \in Nat
      BY <1>1, <2>o DEF GoodsRows
    <3> QED
      BY <1>1, <2>2, <3>1, <3>2, <3>3
  <2> QED
    BY <1>2, <2>1, <2>3, <2>4, GoodsNow
<1>4. CASE KeepBinInStore
  <2>1. held' = held /\ stock' = stock /\ trip' = trip /\ bin' = [d \in Documents |-> 0]
    BY <1>4 DEF KeepBinInStore
  <2>2. GoodsRows'
    BY <1>0, <1>1, <2>1 DEF GoodsRows
  <2>3. SumOver(bin', Documents) = 0
    BY <2>1, FiniteDocuments, SumZero DEF SumOver
  <2>4. /\ SumOver(held, Documents) \in Nat /\ SumOver(bin, Documents) \in Nat
    BY <1>1, SumOfDocuments DEF GoodsRows
  <2>5. /\ Available = stock - SumOver(held, Documents) - SumOver(bin, Documents)
        /\ Available' = stock' - SumOver(held', Documents) - SumOver(bin', Documents)
    BY DEF Available, SumOver
  <2>6. Available' >= 0
    BY <1>1, <2>1, <2>3, <2>4, <2>5 DEF GoodsRows
  <2> QED
    BY <1>2, <2>1, <2>2, <2>6
<1>5. ASSUME NEW r \in Trips, PickUpReturn(r) PROVE GoodsAddUp'
  <2>0. r \in Documents /\ {r} \in SUBSET Documents /\ r \notin Orders /\ r \notin Sales
    BY GoodsNow
  <2>1. /\ trip' = [trip EXCEPT ![r] = "IN_TRANSIT"] /\ stock' = stock - held[r] /\ bin' = bin
        /\ held' = [held EXCEPT ![r] = 0]
    BY <1>5 DEF PickUpReturn
  <2>2. held[r] \in Nat /\ stock' \in Nat
    <3>1. /\ SumOver(held, Documents) \in Nat /\ SumOver(bin, Documents) \in Nat
          /\ held[r] <= SumOver(held, Documents) /\ held[r] \in Nat
      BY <1>1, <2>0, SumOfDocuments, FiniteDocuments, SumPart DEF GoodsRows, SumOver
    <3>2. Available = stock - SumOver(held, Documents) - SumOver(bin, Documents) /\ stock \in Nat
      BY <1>1 DEF Available, GoodsRows
    <3> QED
      BY <1>1, <2>1, <3>1, <3>2
  <2>3. GoodsRows' /\ held'[r] = 0 /\ \A d \in Documents \ {r} : held'[d] = held[d]
    BY <1>0, <1>1, <2>0, <2>1, <2>2 DEF GoodsRows
  <2>4. Available' >= 0
    <3>1. Available' = Available + (stock' - stock) + SumOver(held, {r}) - SumOver(held', {r})
      <4>1. stock' \in Int /\ held' \in [Documents -> Nat]
        BY <2>3 DEF GoodsRows
      <4> QED
        BY <1>1, <2>0, <2>1, <2>3, <4>1, AvailableHeld
    <3>2. SumOver(held, {r}) = held[r] /\ SumOver(held', {r}) = 0
      <4>1. held'[r] \in Nat
        BY <2>3
      <4>2. SumOver(held', {r}) = held'[r]
        BY <4>1, SumOfOne
      <4> QED
        BY <2>2, <2>3, <4>2, SumOfOne
    <3>3. stock \in Nat
      BY <1>1 DEF GoodsRows
    <3> QED
      BY <1>1, <2>1, <2>2, <3>1, <3>2, <3>3
  <2> QED
    BY <1>2, <2>0, <2>3, <2>4, GoodsNow
<1>6. ASSUME NEW r \in Trips, CancelReturn(r) PROVE GoodsAddUp'
  <2>0. r \in Documents /\ {r} \in SUBSET Documents /\ r \notin Orders /\ r \notin Sales
    BY GoodsNow
  <2>1. /\ trip' = [trip EXCEPT ![r] = "CANCELLED"] /\ stock' = stock
        /\ bin' = [bin EXCEPT ![r] = held[r]] /\ held' = [held EXCEPT ![r] = 0]
    BY <1>6 DEF CancelReturn
  <2>2. held[r] \in Nat /\ bin[r] \in Nat
    BY <1>1, <2>0 DEF GoodsRows
  <2>3. /\ GoodsRows' /\ held'[r] = 0 /\ bin'[r] = held[r]
        /\ \A d \in Documents \ {r} : held'[d] = held[d] /\ bin'[d] = bin[d]
    BY <1>0, <1>1, <2>0, <2>1, <2>2 DEF GoodsRows
  <2>4. Available' >= 0
    <3>1. Available' = Available + (stock' - stock)
                         + SumOver(held, {r}) - SumOver(held', {r})
                         + SumOver(bin, {r}) - SumOver(bin', {r})
      BY <1>1, <2>0, <2>3, AvailableNext DEF GoodsRows
    <3>2. /\ SumOver(held, {r}) = held[r] /\ SumOver(held', {r}) = 0
          /\ SumOver(bin, {r}) = bin[r] /\ SumOver(bin', {r}) = held[r]
      <4>1. held'[r] \in Nat /\ bin'[r] \in Nat
        BY <2>2, <2>3
      <4>2. SumOver(held', {r}) = held'[r] /\ SumOver(bin', {r}) = bin'[r]
        BY <4>1, SumOfOne
      <4> QED
        BY <2>2, <2>3, <4>2, SumOfOne
    <3>3. stock' = stock /\ stock \in Nat
      BY <1>1, <2>1 DEF GoodsRows
    <3> QED
      BY <1>1, <2>2, <3>1, <3>2, <3>3
  <2> QED
    BY <1>2, <2>0, <2>3, <2>4, GoodsNow
<1>7. CASE SellFromCounter
  <2>1. held' = held /\ stock' = stock - 1 /\ trip' = trip /\ bin' = bin /\ Available > 0
    BY <1>7 DEF SellFromCounter
  <2>2. /\ SumOver(held, Documents) \in Nat /\ SumOver(bin, Documents) \in Nat
    BY <1>1, SumOfDocuments DEF GoodsRows
  <2>3. /\ Available = stock - SumOver(held, Documents) - SumOver(bin, Documents)
        /\ Available' = stock' - SumOver(held', Documents) - SumOver(bin', Documents)
    BY DEF Available, SumOver
  <2>4. stock' \in Nat /\ Available' >= 0
    BY <1>1, <2>1, <2>2, <2>3 DEF GoodsRows
  <2> QED
    BY <1>0, <1>1, <1>2, <2>1, <2>4 DEF GoodsRows
<1> QED
  BY <1>3, <1>4, <1>5, <1>6, <1>7 DEF Bin

LEMMA GoodsInductive == GoodsIInv /\ [Next]_vars => GoodsIInv'
<1> SUFFICES ASSUME GoodsIInv, [Next]_vars PROVE GoodsIInv'
  OBVIOUS
<1>0. CheckoutIInv'
  BY CheckoutInductive DEF GoodsIInv
\* Only the transactions move: nothing that is held or asked of it changes.
<1>1. ASSUME UNCHANGED <<order, sale, shift, trip, stock, held, bin>> PROVE GoodsAddUp'
  <2>1. TypeOK'
    BY <1>0, <1>1 DEF GoodsIInv, GoodsAddUp, TypeOK, CheckoutIInv, Rows
  <2>2. GoodsHaveOneHolder' /\ NothingHeldTwice'
    BY <1>1 DEF GoodsIInv, GoodsAddUp, GoodsHaveOneHolder, DraftsOf, NothingHeldTwice, Available
  <2> QED
    BY <2>1, <2>2 DEF GoodsAddUp
<1>2. CASE UNCHANGED vars
  <2>1. UNCHANGED <<order, sale, shift, trip, stock, held, bin>>
    BY <1>2 DEF vars
  <2> QED
    BY <1>0, <1>1, <2>1 DEF GoodsIInv
<1>3. ASSUME NEW t \in Clients, Begin(t) \/ NextLock(t) \/ Abort(t) PROVE GoodsAddUp'
  <2>1. CheckoutIInv /\ Rows
    BY DEF GoodsIInv, CheckoutIInv
  <2> QED
    BY <1>1, <1>3, <2>1, BeginRows, LockRows
<1>4. ASSUME NEW t \in Clients, Commit(t) PROVE GoodsAddUp'
  BY <1>0, <1>4, ToPaymentGoods, ReturnRequestGoods, IncidentGoods, CheckoutGoods, EditGoods,
     ChargeGoods, DiscardGoods DEF Commit
<1> QED
  BY <1>0, <1>2, <1>3, <1>4, BinGoods DEF Next, GoodsIInv

LEMMA GoodsStart == Init => GoodsIInv
<1> SUFFICES ASSUME Init PROVE GoodsIInv
  OBVIOUS
<1>1. CheckoutIInv
  BY CheckoutStart
<1>2. /\ order \in [Orders -> OrderRow] /\ sale \in [Sales -> SaleRow]
      /\ \A o \in Orders : order[o].status = "RECEIVED_BY_SELLER"
      /\ \A x \in Sales : sale[x].status = "NONE"
      /\ \A o \in Orders : order[o].quantity \in Nat
  BY <1>1 DEF CheckoutIInv, Rows, Init, OrderRow, Units
<1>3. held \in [Documents -> Nat] /\ bin \in [Documents -> Nat]
  BY <1>2 DEF Init
<1>4. /\ \A o \in Orders : held[o] = order[o].quantity
      /\ \A d \in Documents \ Orders : held[d] = 0
      /\ \A x \in Sales : x \in Documents \ Orders
      /\ Orders \in SUBSET Documents
  BY ConstantsAssumption DEF Init, Documents
<1>5. \A o \in Orders : DraftsOf(o) = {}
  BY <1>2 DEF DraftsOf
<1>6. GoodsHaveOneHolder
  BY <1>2, <1>4, <1>5 DEF GoodsHaveOneHolder
<1>7. SumOver(held, Documents) = SumOver(held, Orders) /\ SumOver(held, Orders) \in Nat
  <2>1. SumOver(held, Documents) = SumOver(held, Orders) + SumOver(held, Documents \ Orders)
    <3>1. \A d \in Documents : held[d] \in Int
      BY <1>3
    <3> QED
      BY <1>4, <3>1, FiniteDocuments, SumSplit DEF SumOver
  <2>2. SumOver(held, Documents \ Orders) = 0
    BY <1>4, FiniteDocuments, FS_Subset, SumZero DEF SumOver
  <2>3. SumOver(held, Orders) \in Nat
    BY <1>3, <1>4, SumOfDocuments
  <2> QED
    BY <2>1, <2>2, <2>3
<1>8. SumOver(bin, Documents) = 0
  BY FiniteDocuments, SumZero DEF Init, SumOver
<1>9. PICK n \in 0 .. Spare : stock = SumOver(held, Orders) + n
  BY DEF Init
<1>10. stock \in Nat /\ NothingHeldTwice
  BY <1>7, <1>8, <1>9, ConstantsAssumption DEF NothingHeldTwice, Available
<1>11. TypeOK
  BY <1>1, <1>3, <1>10 DEF TypeOK, CheckoutIInv, Rows, Init
<1> QED
  BY <1>1, <1>6, <1>10, <1>11 DEF GoodsIInv, GoodsAddUp

\* Whatever is charged, edited, discarded, sent back or kept, the goods of a live
\* order are held whole by it or by its draft, and all that is held apart is in the
\* store (syncReservations, releaseForSale, restoreAfterSaleDiscarded, returns-bin).
THEOREM GoodsAlwaysAddUp == Spec => []GoodsAddUp
<1>1. GoodsIInv => GoodsAddUp
  BY DEF GoodsIInv
<1> QED
  BY <1>1, GoodsStart, GoodsInductive, PTL DEF Spec

=============================================================================
