--------------------------- MODULE CashShift_proofs ---------------------------
(***************************************************************************)
(* Proofs about CashShift, for any number of shifts, sales, returns and    *)
(* requests.  The invariant IInv says what each transaction knows of the   *)
(* rows it holds.  A transaction's step changes only rows it holds, so it  *)
(* disturbs nobody else's knowledge (OthersUndisturbed): what is left is   *)
(* one lemma for the steps that take a lock, one for those that end the    *)
(* transaction, and the effect of each commit on the rows.                 *)
(***************************************************************************)
EXTENDS CashShift, TLAPS

LEMMA NoTransactionType == NoTransaction \in Transaction
BY DEF NoTransaction, Transaction

(* Every transaction but t's keeps what it has and what it knows.             *)
Undisturbed(t) == \A u \in Clients \ {t} : tx'[u] = tx[u] /\ TransactionInv(tx[u])'

LEMMA OthersUndisturbed ==
  ASSUME IInv,
         NEW t \in Clients,
         \A u \in Clients \ {t} : tx'[u] = tx[u],
         \A s \in Shifts : s \notin tx[t].shifts => shift'[s] = shift[s],
         \A x \in Sales : x \notin tx[t].sales => sale'[x] = sale[x],
         \A r \in Returns : r \notin tx[t].rets => ret'[r] = ret[r],
         \A x \in Sales : sale[x].status = "COMPLETED" => sale'[x] = sale[x]
  PROVE  Undisturbed(t)
<1> SUFFICES ASSUME NEW u \in Clients \ {t} PROVE TransactionInv(tx[u])'
  BY DEF Undisturbed
<1> DEFINE v == tx[u]
<1>0. v \in Transaction /\ tx'[u] = v
  BY DEF IInv, TypeOK
<1>1. \A s \in Shifts : s \in v.shifts => shift'[s] = shift[s]
  BY DEF IInv, LocksExclusive
<1>2. \A x \in Sales : x \in v.sales => sale'[x] = sale[x]
  BY DEF IInv, LocksExclusive
<1>3. \A r \in Returns : r \in v.rets => ret'[r] = ret[r]
  BY DEF IInv, LocksExclusive
<1>4. TransactionInv(v)
  BY DEF IInv
<1>5. CASE v = NoTransaction
  BY <1>0, <1>5 DEF TransactionInv
<1>6. CASE Creating(v)
  BY <1>0, <1>1, <1>2, <1>6 DEF TransactionInv, Creating
<1>7. CASE ChangingDraft(v)
  BY <1>0, <1>2, <1>7 DEF TransactionInv, ChangingDraft
<1>8. CASE Charging(v)
  BY <1>0, <1>1, <1>2, <1>3, <1>8 DEF TransactionInv, Charging, UsableForExchange, Transaction
<1>9. CASE Moving(v)
  BY <1>0, <1>1, <1>9 DEF TransactionInv, Moving
<1>10. CASE Regenerating(v)
  BY <1>0, <1>1, <1>10 DEF TransactionInv, Regenerating
<1>11. CASE Refunding(v)
  <2>1. ret'[v.ret] = ret[v.ret]
    BY <1>3, <1>11 DEF Refunding
  <2>2. AmountToRefund(v.ret)' = AmountToRefund(v.ret)
    BY <2>1, <1>11 DEF AmountToRefund, Refunding, IInv, TypeOK, ReturnInv, ReturnRow
  <2> QED
    BY <1>0, <1>1, <1>11, <2>1, <2>2 DEF TransactionInv, Refunding, Transaction
<1>12. CASE CancellingReturn(v)
  BY <1>0, <1>3, <1>12 DEF TransactionInv, CancellingReturn
<1>13. CASE Closing(v)
  BY <1>0, <1>1, <1>2, <1>13 DEF TransactionInv, Closing, Transaction
<1> QED
  BY <1>4, <1>5, <1>6, <1>7, <1>8, <1>9, <1>10, <1>11, <1>12, <1>13 DEF TransactionInv

LEMMA SameRowsSameKnowledge ==
  ASSUME UNCHANGED <<shift, sale, ret>>, NEW v, TransactionInv(v)
  PROVE  TransactionInv(v)'
BY DEF TransactionInv, Creating, ChangingDraft, Charging, Moving, Regenerating, Refunding,
       CancellingReturn, Closing, UsableForExchange, AmountToRefund

(* A step that only gives t's transaction its next lock.                      *)
Advances(t, v) ==
    /\ UNCHANGED <<shift, sale, ret>>
    /\ tx' = [tx EXCEPT ![t] = v]
    /\ \A x \in v.sales : x \in tx[t].sales \/ SaleFree(x)
    /\ \A r \in v.rets : r \in tx[t].rets \/ ReturnFree(r)
    /\ \A s \in v.shifts : s \in tx[t].shifts \/ ShiftFree(s)

LEMMA LockStep ==
  ASSUME IInv,
         NEW t \in Clients, NEW v \in Transaction,
         TransactionInv(v),
         Advances(t, v)
  PROVE  IInv'
<1> USE DEF Advances
<1>1. tx'[t] = v /\ \A u \in Clients \ {t} : tx'[u] = tx[u]
  BY DEF IInv, TypeOK
<1>2. TypeOK'
  BY DEF IInv, TypeOK
<1>3. LocksExclusive'
  BY <1>1 DEF IInv, LocksExclusive, SaleFree, ReturnFree, ShiftFree
<1>4. \A u \in Clients : TransactionInv(tx[u])'
  <2>1. TransactionInv(v)'
    BY SameRowsSameKnowledge
  <2>2. Undisturbed(t)
    BY <1>1, OthersUndisturbed
  <2> QED
    BY <1>1, <2>1, <2>2 DEF Undisturbed
<1>5. /\ \A s \in Shifts : ShiftInv(s)'
      /\ \A x \in Sales : SaleInv(x)'
      /\ \A r \in Returns : ReturnInv(r)'
      /\ CreditBackedByReturn'
  BY DEF IInv, ShiftInv, SaleInv, ReturnInv, CreditBackedByReturn
<1> QED
  BY <1>2, <1>3, <1>4, <1>5 DEF IInv

(* A step that ends t's transaction, having written only rows t holds.        *)
LEMMA EndStep ==
  ASSUME IInv,
         NEW t \in Clients,
         Finish(t),
         shift' \in [Shifts -> ShiftRow],
         sale' \in [Sales -> SaleRow],
         ret' \in [Returns -> ReturnRow],
         \A s \in Shifts : s \notin tx[t].shifts => shift'[s] = shift[s],
         \A x \in Sales : x \notin tx[t].sales => sale'[x] = sale[x],
         \A r \in Returns : r \notin tx[t].rets => ret'[r] = ret[r],
         \A x \in Sales : sale[x].status = "COMPLETED" => sale'[x] = sale[x],
         \A s \in Shifts : ShiftInv(s)',
         \A x \in Sales : SaleInv(x)',
         \A r \in Returns : ReturnInv(r)',
         CreditBackedByReturn'
  PROVE  IInv'
<1>1. tx'[t] = NoTransaction /\ \A u \in Clients \ {t} : tx'[u] = tx[u]
  BY DEF IInv, TypeOK, Finish
<1>2. TypeOK'
  BY NoTransactionType DEF IInv, TypeOK, Finish
<1>3. LocksExclusive'
  BY <1>1 DEF IInv, LocksExclusive, NoTransaction
<1>4. \A u \in Clients : TransactionInv(tx[u])'
  <2>1. TransactionInv(tx[t])'
    BY <1>1 DEF TransactionInv
  <2>2. Undisturbed(t)
    BY <1>1, OthersUndisturbed
  <2> QED
    BY <2>1, <2>2 DEF Undisturbed
<1> QED
  BY <1>2, <1>3, <1>4 DEF IInv

LEMMA InitInvariant == Init => IInv
<1> SUFFICES ASSUME Init PROVE IInv
  OBVIOUS
<1>1. TypeOK
  BY ConstantsAssumption
  DEF Init, TypeOK, ShiftRow, SaleRow, ReturnRow, Transaction, NoTransaction, Amounts, Totals
<1>2. /\ \A t \in Clients : TransactionInv(tx[t])
      /\ LocksExclusive
  BY DEF Init, TransactionInv, LocksExclusive, NoTransaction
<1>3. /\ \A s \in Shifts : ShiftInv(s)
      /\ \A x \in Sales : SaleInv(x)
      /\ \A r \in Returns : ReturnInv(r)
      /\ CreditBackedByReturn
  BY DEF Init, ShiftInv, SaleInv, ReturnInv, CreditBackedByReturn
<1> QED
  BY <1>1, <1>2, <1>3 DEF IInv

-----------------------------------------------------------------------------
(* The steps that take a lock *)

LEMMA BeginPreserves ==
  ASSUME IInv, NEW t \in Clients, Begin(t)
  PROVE  IInv'
<1>0. /\ Idle(t)
      /\ tx[t] \in Transaction
      /\ shift \in [Shifts -> ShiftRow] /\ sale \in [Sales -> SaleRow]
      /\ ret \in [Returns -> ReturnRow]
  BY DEF IInv, TypeOK, Begin, LockForCreate, LockForEdit, LockForCancelSale, LockForCharge,
         LockForMove, LockForRegenerate, LockDraftsToClose, LockForRefund, LockForCancelReturn
<1>1. ASSUME NEW x \in Sales, NEW s \in Shifts, LockForCreate(t, x, s)
      PROVE  IInv'
  <2> DEFINE v == [NoTransaction EXCEPT !.op = "create", !.at = "commit", !.sale = x,
                                        !.shift = s, !.sales = {x}, !.shifts = {s}]
  <2>1. v \in Transaction
    BY <1>1, NoTransactionType DEF Transaction
  <2>2. Creating(v)
    BY <1>1 DEF NoTransaction, Creating, LockForCreate, LockOpenShift
  <2>3. Advances(t, v)
    BY <1>1 DEF Advances, LockForCreate, LockOpenShift, Start, NoTransaction
  <2>4. TransactionInv(v)
    BY <2>2 DEF TransactionInv
  <2> HIDE DEF v
  <2> QED
    BY <2>1, <2>3, <2>4, LockStep
<1>2. ASSUME NEW x \in Sales, LockForEdit(t, x)
      PROVE  IInv'
  <2> DEFINE v == [NoTransaction EXCEPT !.op = "edit", !.at = "commit",
                                        !.sale = x, !.sales = {x}]
  <2>1. v \in Transaction
    BY <1>2, NoTransactionType DEF Transaction
  <2>2. ChangingDraft(v)
    BY <1>2 DEF NoTransaction, ChangingDraft, LockForEdit
  <2>3. Advances(t, v)
    BY <1>2 DEF Advances, LockForEdit, Start, NoTransaction
  <2>4. TransactionInv(v)
    BY <2>2 DEF TransactionInv
  <2> HIDE DEF v
  <2> QED
    BY <2>1, <2>3, <2>4, LockStep
<1>3. ASSUME NEW x \in Sales, LockForCancelSale(t, x)
      PROVE  IInv'
  <2> DEFINE v == [NoTransaction EXCEPT !.op = "cancelSale", !.at = "commit",
                                        !.sale = x, !.sales = {x}]
  <2>1. v \in Transaction
    BY <1>3, NoTransactionType DEF Transaction
  <2>2. ChangingDraft(v)
    BY <1>3 DEF NoTransaction, ChangingDraft, LockForCancelSale
  <2>3. Advances(t, v)
    BY <1>3 DEF Advances, LockForCancelSale, Start, NoTransaction
  <2>4. TransactionInv(v)
    BY <2>2 DEF TransactionInv
  <2> HIDE DEF v
  <2> QED
    BY <2>1, <2>3, <2>4, LockStep
<1>4. ASSUME NEW x \in Sales, NEW r \in Returns \cup {None}, LockForCharge(t, x, r)
      PROVE  IInv'
  <2> DEFINE v == [NoTransaction EXCEPT
                     !.op = "charge",
                     !.at = IF r = None THEN "needShift" ELSE "needReturn",
                     !.sale = x, !.ret = r, !.shift = sale[x].shift,
                     !.read = sale[x].total, !.sales = {x}]
  <2>0. sale[x].shift \in Shifts /\ sale[x].total \in Int
    BY <1>0, <1>4, ConstantsAssumption DEF LockForCharge, IInv, SaleInv, SaleRow, Totals
  <2>1. v \in Transaction
    BY <2>0, NoTransactionType DEF Transaction
  <2>2. Charging(v)
    BY <1>4, <2>0 DEF NoTransaction, Charging, LockForCharge
  <2>3. Advances(t, v)
    BY <1>4 DEF Advances, LockForCharge, Start, NoTransaction
  <2>4. TransactionInv(v)
    BY <2>2 DEF TransactionInv
  <2> HIDE DEF v
  <2> QED
    BY <2>1, <2>3, <2>4, LockStep
<1>5. ASSUME NEW s \in Shifts, LockForMove(t, s)
      PROVE  IInv'
  <2> DEFINE v == [NoTransaction EXCEPT !.op = "move", !.at = "commit", !.shift = s,
                                        !.read = shift[s].cash,
                                        !.seen = shift[s].failures, !.shifts = {s}]
  <2>0. shift[s].cash \in Int /\ shift[s].failures \in Nat
    BY <1>0, ConstantsAssumption DEF ShiftRow
  <2>1. v \in Transaction
    BY <2>0, NoTransactionType DEF Transaction
  <2>2. Moving(v)
    BY <1>5, <2>0 DEF NoTransaction, Moving, LockForMove, LockOpenShift
  <2>3. Advances(t, v)
    BY <1>5 DEF Advances, LockForMove, LockOpenShift, Start, NoTransaction
  <2>4. TransactionInv(v)
    BY <2>2 DEF TransactionInv
  <2> HIDE DEF v
  <2> QED
    BY <2>1, <2>3, <2>4, LockStep
<1>6. ASSUME NEW s \in Shifts, LockForRegenerate(t, s)
      PROVE  IInv'
  <2> DEFINE v == [NoTransaction EXCEPT !.op = "regenerate", !.at = "commit",
                                        !.shift = s, !.shifts = {s}]
  <2>1. v \in Transaction
    BY <1>6, NoTransactionType DEF Transaction
  <2>2. Regenerating(v)
    BY <1>6 DEF NoTransaction, Regenerating, LockForRegenerate, LockOpenShift
  <2>3. Advances(t, v)
    BY <1>6 DEF Advances, LockForRegenerate, LockOpenShift, Start, NoTransaction
  <2>4. TransactionInv(v)
    BY <2>2 DEF TransactionInv
  <2> HIDE DEF v
  <2> QED
    BY <2>1, <2>3, <2>4, LockStep
<1>7. ASSUME NEW s \in Shifts, LockDraftsToClose(t, s)
      PROVE  IInv'
  <2> DEFINE v == [NoTransaction EXCEPT !.op = "close", !.at = "needShift",
                                        !.shift = s, !.sales = DraftsOf(s)]
  <2>1. v \in Transaction
    BY <1>7, NoTransactionType DEF Transaction, DraftsOf
  <2>2. Closing(v)
    BY <1>7 DEF NoTransaction, Closing, LockDraftsToClose, DraftsOf
  <2>3. Advances(t, v)
    BY <1>7 DEF Advances, LockDraftsToClose, DraftsOf, Start, NoTransaction
  <2>4. TransactionInv(v)
    BY <2>2 DEF TransactionInv
  <2> HIDE DEF v
  <2> QED
    BY <2>1, <2>3, <2>4, LockStep
<1>8. ASSUME NEW r \in Returns, NEW s \in Shifts \cup {None}, LockForRefund(t, r, s)
      PROVE  IInv'
  <2> DEFINE v == [NoTransaction EXCEPT
                     !.op = "refund",
                     !.at = IF s = None THEN "commit" ELSE "needShift",
                     !.ret = r, !.shift = s, !.read = AmountToRefund(r), !.rets = {r}]
  <2>0. AmountToRefund(r) \in Int
    <3>1. ret[r].value \in Int
      BY <1>0, ConstantsAssumption DEF ReturnRow, Amounts
    <3>2. ASSUME ret[r].resolution # "REFUND"
          PROVE  sale[ret[r].replacement].credit \in Int
      <4>1. ret[r].resolution = "PARTIAL_REFUND"
        BY <1>0, <1>8, <3>2 DEF LockForRefund, ReturnRow
      <4>2. ret[r].replacement \in Sales
        BY <1>0, <4>1 DEF IInv, ReturnInv, ReturnRow
      <4> QED
        BY <1>0, <4>2, ConstantsAssumption DEF SaleRow, Totals
    <3> QED
      BY <3>1, <3>2 DEF AmountToRefund
  <2>1. v \in Transaction
    BY <2>0, NoTransactionType DEF Transaction
  <2>2. Refunding(v)
    BY <1>8 DEF NoTransaction, Refunding, LockForRefund
  <2>3. Advances(t, v)
    BY <1>8 DEF Advances, LockForRefund, Start, NoTransaction
  <2>4. TransactionInv(v)
    BY <2>2 DEF TransactionInv
  <2> HIDE DEF v
  <2> QED
    BY <2>1, <2>3, <2>4, LockStep
<1>9. ASSUME NEW r \in Returns, LockForCancelReturn(t, r)
      PROVE  IInv'
  <2> DEFINE v == [NoTransaction EXCEPT !.op = "cancelReturn", !.at = "commit",
                                        !.ret = r, !.rets = {r}]
  <2>1. v \in Transaction
    BY <1>9, NoTransactionType DEF Transaction
  <2>2. CancellingReturn(v)
    BY <1>9 DEF NoTransaction, CancellingReturn, LockForCancelReturn
  <2>3. Advances(t, v)
    BY <1>9 DEF Advances, LockForCancelReturn, Start, NoTransaction
  <2>4. TransactionInv(v)
    BY <2>2 DEF TransactionInv
  <2> HIDE DEF v
  <2> QED
    BY <2>1, <2>3, <2>4, LockStep
<1> QED
  BY <1>1, <1>2, <1>3, <1>4, <1>5, <1>6, <1>7, <1>8, <1>9 DEF Begin

LEMMA EndUnchanged ==
  ASSUME IInv, NEW t \in Clients, Finish(t), UNCHANGED <<shift, sale, ret>>
  PROVE  IInv'
<1>1. /\ \A s \in Shifts : ShiftInv(s)'
      /\ \A x \in Sales : SaleInv(x)'
      /\ \A r \in Returns : ReturnInv(r)'
      /\ CreditBackedByReturn'
  BY DEF IInv, ShiftInv, SaleInv, ReturnInv, CreditBackedByReturn
<1>2. /\ shift' \in [Shifts -> ShiftRow]
      /\ sale' \in [Sales -> SaleRow]
      /\ ret' \in [Returns -> ReturnRow]
  BY DEF IInv, TypeOK
<1> QED
  BY <1>1, <1>2, EndStep

LEMMA NextLockPreserves ==
  ASSUME IInv, NEW t \in Clients, NextLock(t)
  PROVE  IInv'
<1>0. /\ tx[t] \in Transaction /\ TransactionInv(tx[t])
      /\ ret \in [Returns -> ReturnRow] /\ sale \in [Sales -> SaleRow]
      /\ shift \in [Shifts -> ShiftRow] /\ tx \in [Clients -> Transaction]
  BY DEF IInv, TypeOK
<1>1. CASE LockForExchange(t)
  <2> DEFINE r == tx[t].ret
             v == [tx[t] EXCEPT !.at = "needShift", !.rets = {r},
                                !.seen = Smaller(ret[r].value, tx[t].read)]
  <2>1. Charging(tx[t]) /\ r \in Returns
    BY <1>0, <1>1 DEF LockForExchange, TransactionInv, Creating, ChangingDraft, Moving, Regenerating,
                 Refunding, CancellingReturn, Closing, NoTransaction, Charging, Transaction
  <2>2. Smaller(ret[r].value, tx[t].read) \in Nat
    BY <1>0, <2>1, ConstantsAssumption DEF Smaller, Charging, ReturnRow, Amounts, Transaction
  <2>3. v \in Transaction
    BY <1>0, <2>1, <2>2 DEF Transaction
  <2>4. Charging(v)
    BY <1>0, <1>1, <2>1, ConstantsAssumption DEF Charging, LockForExchange, Transaction
  <2>5. tx' = [tx EXCEPT ![t] = v]
    BY <1>0, <1>1 DEF LockForExchange, Transaction
  <2>6. Advances(t, v)
    BY <1>0, <1>1, <2>5 DEF Advances, LockForExchange, Transaction
  <2>7. TransactionInv(v)
    BY <2>4 DEF TransactionInv
  <2> HIDE DEF v
  <2> QED
    BY <2>3, <2>6, <2>7, LockStep
<1>2. CASE LockShiftToCharge(t)
  <2> DEFINE v == [tx[t] EXCEPT !.at = "commit", !.shifts = {tx[t].shift}]
  <2>1. Charging(tx[t])
    BY <1>0, <1>2 DEF LockShiftToCharge, TransactionInv, Creating, ChangingDraft, Moving, Regenerating,
                 Refunding, CancellingReturn, Closing, NoTransaction
  <2>2. v \in Transaction
    BY <1>0, <2>1 DEF Transaction, Charging
  <2>3. Charging(v)
    BY <1>0, <1>2, <2>1 DEF Charging, LockShiftToCharge, LockOpenShift, Transaction
  <2>4. tx' = [tx EXCEPT ![t] = v]
    BY <1>0, <1>2 DEF LockShiftToCharge, Transaction
  <2>5. Advances(t, v)
    BY <1>0, <1>2, <2>4 DEF Advances, LockShiftToCharge, LockOpenShift, Transaction
  <2>6. TransactionInv(v)
    BY <2>3 DEF TransactionInv
  <2> HIDE DEF v
  <2> QED
    BY <2>2, <2>5, <2>6, LockStep
<1>3. CASE LockShiftToRefund(t)
  <2> DEFINE v == [tx[t] EXCEPT !.at = "commit", !.shifts = {tx[t].shift}]
  <2>1. Refunding(tx[t]) /\ tx[t].shift \in Shifts
    BY <1>0, <1>3 DEF LockShiftToRefund, TransactionInv, Creating, ChangingDraft, Moving, Regenerating,
                 Refunding, CancellingReturn, Closing, NoTransaction, Charging, Transaction
  <2>2. v \in Transaction
    BY <1>0, <2>1 DEF Transaction
  <2>3. Refunding(v)
    BY <1>0, <1>3, <2>1, ConstantsAssumption
    DEF Refunding, LockShiftToRefund, LockOpenShift, Transaction
  <2>4. tx' = [tx EXCEPT ![t] = v]
    BY <1>0, <1>3 DEF LockShiftToRefund, Transaction
  <2>5. Advances(t, v)
    BY <1>0, <1>3, <2>4 DEF Advances, LockShiftToRefund, LockOpenShift, Transaction
  <2>6. TransactionInv(v)
    BY <2>3 DEF TransactionInv
  <2> HIDE DEF v
  <2> QED
    BY <2>2, <2>5, <2>6, LockStep
<1>4. CASE LockShiftToClose(t)
  <2> DEFINE s == tx[t].shift
             v == [tx[t] EXCEPT !.at = "commit", !.shifts = {s}, !.read = shift[s].cash]
  <2>1. Closing(tx[t])
    BY <1>0, <1>4 DEF LockShiftToClose, TransactionInv, Creating, ChangingDraft, Moving, Regenerating,
                 Refunding, CancellingReturn, Closing, NoTransaction, Charging
  <2>2. s \in Shifts /\ shift[s].cash \in Int
    BY <1>0, <2>1, ConstantsAssumption DEF Closing, ShiftRow
  <2>3. v \in Transaction
    BY <1>0, <2>2 DEF Transaction
  <2>4. Closing(v)
    BY <1>0, <1>4, <2>1 DEF Closing, LockShiftToClose, LockOpenShift, Transaction
  <2>5. tx' = [tx EXCEPT ![t] = v]
    BY <1>0, <1>4 DEF LockShiftToClose, Transaction
  <2>6. Advances(t, v)
    BY <1>0, <1>4, <2>5 DEF Advances, LockShiftToClose, LockOpenShift, Transaction
  <2>7. TransactionInv(v)
    BY <2>4 DEF TransactionInv
  <2> HIDE DEF v
  <2> QED
    BY <2>3, <2>6, <2>7, LockStep
<1>5. CASE Refuse(t)
  BY <1>5, EndUnchanged DEF Refuse
<1> QED
  BY <1>1, <1>2, <1>3, <1>4, <1>5 DEF NextLock

-----------------------------------------------------------------------------
(* The steps that commit.  The operation tells which disjunct of              *)
(* TransactionInv the transaction is in.                                      *)

LEMMA KindOfTransaction ==
  ASSUME IInv, NEW t \in Clients
  PROVE  /\ tx[t].op = "create" => Creating(tx[t])
         /\ tx[t].op \in {"edit", "cancelSale"} => ChangingDraft(tx[t])
         /\ tx[t].op = "charge" => Charging(tx[t])
         /\ tx[t].op = "move" => Moving(tx[t])
         /\ tx[t].op = "regenerate" => Regenerating(tx[t])
         /\ tx[t].op = "refund" => Refunding(tx[t])
         /\ tx[t].op = "cancelReturn" => CancellingReturn(tx[t])
         /\ tx[t].op = "close" => Closing(tx[t])
<1> DEFINE v == tx[t]
<1>1. TransactionInv(v)
  BY DEF IInv
<1>2. v = NoTransaction => v.op = "none"
  BY DEF NoTransaction
<1>3. /\ Creating(v) => v.op = "create"
      /\ ChangingDraft(v) => v.op \in {"edit", "cancelSale"}
      /\ Charging(v) => v.op = "charge"
      /\ Moving(v) => v.op = "move"
  BY DEF Creating, ChangingDraft, Charging, Moving
<1>4. /\ Regenerating(v) => v.op = "regenerate"
      /\ Refunding(v) => v.op = "refund"
      /\ CancellingReturn(v) => v.op = "cancelReturn"
      /\ Closing(v) => v.op = "close"
  BY DEF Regenerating, Refunding, CancellingReturn, Closing
<1> HIDE DEF v
<1>5. /\ v.op = "create" => Creating(v)
      /\ v.op \in {"edit", "cancelSale"} => ChangingDraft(v)
      /\ v.op = "charge" => Charging(v)
      /\ v.op = "move" => Moving(v)
  BY <1>1, <1>2, <1>3, <1>4 DEF TransactionInv
<1>6. /\ v.op = "regenerate" => Regenerating(v)
      /\ v.op = "refund" => Refunding(v)
      /\ v.op = "cancelReturn" => CancellingReturn(v)
      /\ v.op = "close" => Closing(v)
  BY <1>1, <1>2, <1>3, <1>4 DEF TransactionInv
<1> QED
  BY <1>5, <1>6 DEF v

(* Commits that write a row of sales only, one that was not charged and is    *)
(* not charged by them.                                                       *)
LEMMA SaleCommit ==
  ASSUME IInv, NEW t \in Clients, NEW x \in Sales, NEW row \in SaleRow,
         tx[t].sales = {x},
         sale[x].status \in {"NONE", "DRAFT"},
         row.status # "COMPLETED", row.credit = sale[x].credit,
         row.status = "DRAFT" => row.shift # None,
         sale' = [sale EXCEPT ![x] = row],
         UNCHANGED <<shift, ret>>, Finish(t)
  PROVE  IInv'
<1>1. /\ shift' \in [Shifts -> ShiftRow] /\ ret' \in [Returns -> ReturnRow]
      /\ sale \in [Sales -> SaleRow] /\ sale' \in [Sales -> SaleRow]
  BY DEF IInv, TypeOK
<1>2. sale'[x] = row /\ \A y \in Sales \ {x} : sale'[y] = sale[y]
  BY <1>1
<1>3. \A y \in Sales : SaleInv(y)'
  BY <1>2 DEF IInv, SaleInv
<1>4. \A r \in Returns : ret[r].replacement # x
  BY ConstantsAssumption DEF IInv, ReturnInv
<1>5. \A r \in Returns : ReturnInv(r)'
  BY <1>1, <1>2, <1>4 DEF IInv, ReturnInv, ReturnRow
<1>6. CreditBackedByReturn'
  BY <1>2 DEF IInv, CreditBackedByReturn, SaleInv
<1>7. \A s \in Shifts : ShiftInv(s)'
  BY DEF IInv, ShiftInv
<1> QED
  BY <1>1, <1>2, <1>3, <1>5, <1>6, <1>7, EndStep

LEMMA CommitCreatePreserves ==
  ASSUME IInv, NEW t \in Clients, CommitCreate(t)
  PROVE  IInv'
<1> DEFINE x == tx[t].sale
           row == [sale[x] EXCEPT !.status = "DRAFT", !.shift = tx[t].shift]
<1>1. Creating(tx[t]) /\ sale \in [Sales -> SaleRow]
  BY KindOfTransaction DEF CommitCreate, IInv, TypeOK
<1>2. x \in Sales /\ tx[t].sales = {x} /\ sale[x].status = "NONE" /\ tx[t].shift \in Shifts
  BY <1>1 DEF Creating
<1>3. row \in SaleRow /\ row.credit = sale[x].credit /\ row.status = "DRAFT"
      /\ row.shift # None
  BY <1>1, <1>2, ConstantsAssumption DEF SaleRow
<1>4. sale' = [sale EXCEPT ![x] = row] /\ UNCHANGED <<shift, ret>> /\ Finish(t)
  BY <1>1, <1>2 DEF CommitCreate, SaleRow
<1> HIDE DEF x, row
<1> QED
  BY <1>2, <1>3, <1>4, SaleCommit

LEMMA CommitEditPreserves ==
  ASSUME IInv, NEW t \in Clients, CommitEdit(t)
  PROVE  IInv'
<1> PICK total \in Totals : sale' = [sale EXCEPT ![tx[t].sale].total = total]
  BY DEF CommitEdit
<1> DEFINE x == tx[t].sale
           row == [sale[x] EXCEPT !.total = total]
<1>1. ChangingDraft(tx[t]) /\ sale \in [Sales -> SaleRow]
  BY KindOfTransaction DEF CommitEdit, IInv, TypeOK
<1>2. x \in Sales /\ tx[t].sales = {x} /\ sale[x].status = "DRAFT" /\ sale[x].shift # None
  BY <1>1 DEF ChangingDraft, IInv, SaleInv
<1>3. row \in SaleRow /\ row.credit = sale[x].credit /\ row.status = "DRAFT"
      /\ row.shift # None
  BY <1>1, <1>2 DEF SaleRow
<1>4. sale' = [sale EXCEPT ![x] = row] /\ UNCHANGED <<shift, ret>> /\ Finish(t)
  BY <1>1, <1>2 DEF CommitEdit, SaleRow
<1> HIDE DEF x, row
<1> QED
  BY <1>2, <1>3, <1>4, SaleCommit

LEMMA CommitCancelSalePreserves ==
  ASSUME IInv, NEW t \in Clients, CommitCancelSale(t)
  PROVE  IInv'
<1> DEFINE x == tx[t].sale
           row == [sale[x] EXCEPT !.status = "CANCELLED"]
<1>1. ChangingDraft(tx[t]) /\ sale \in [Sales -> SaleRow]
  BY KindOfTransaction DEF CommitCancelSale, IInv, TypeOK
<1>2. x \in Sales /\ tx[t].sales = {x} /\ sale[x].status = "DRAFT"
  BY <1>1 DEF ChangingDraft
<1>3. row \in SaleRow /\ row.credit = sale[x].credit /\ row.status = "CANCELLED"
  BY <1>1, <1>2 DEF SaleRow
<1>4. sale' = [sale EXCEPT ![x] = row] /\ UNCHANGED <<shift, ret>> /\ Finish(t)
  BY <1>1, <1>2 DEF CommitCancelSale, SaleRow
<1> HIDE DEF x, row
<1> QED
  BY <1>2, <1>3, <1>4, SaleCommit

(* Commits that write the row of a shift, which is open and stays so.         *)
LEMMA ShiftCommit ==
  ASSUME IInv, NEW t \in Clients, NEW s \in Shifts, NEW row \in ShiftRow,
         tx[t].shifts = {s},
         shift[s].status = "OPEN",
         row.status = "OPEN", row.expected = shift[s].expected, row.failures = row.refused,
         shift' = [shift EXCEPT ![s] = row],
         UNCHANGED <<sale, ret>>, Finish(t)
  PROVE  IInv'
<1>1. /\ sale' \in [Sales -> SaleRow] /\ ret' \in [Returns -> ReturnRow]
      /\ shift \in [Shifts -> ShiftRow] /\ shift' \in [Shifts -> ShiftRow]
  BY DEF IInv, TypeOK
<1>2. shift'[s] = row /\ \A u \in Shifts \ {s} : shift'[u] = shift[u]
  BY <1>1
<1>3. \A u \in Shifts : ShiftInv(u)'
  BY <1>2 DEF IInv, ShiftInv
<1>4. /\ \A x \in Sales : SaleInv(x)'
      /\ \A r \in Returns : ReturnInv(r)'
      /\ CreditBackedByReturn'
  BY DEF IInv, SaleInv, ReturnInv, CreditBackedByReturn
<1> QED
  BY <1>1, <1>2, <1>3, <1>4, EndStep

LEMMA CommitMovePreserves ==
  ASSUME IInv, NEW t \in Clients,
         \/ \E amount \in Amounts : CommitCashIn(t, amount) \/ CommitCashOut(t, amount)
         \/ CommitWrongCode(t)
         \/ CommitRegenerate(t)
  PROVE  IInv'
<1> DEFINE s == tx[t].shift
<1>0. shift \in [Shifts -> ShiftRow] /\ MaxCash \in Nat /\ MaxFailures \in Nat \ {0}
  BY ConstantsAssumption DEF IInv, TypeOK
<1>1. s \in Shifts /\ tx[t].shifts = {s} /\ shift[s].status = "OPEN"
  BY KindOfTransaction
  DEF CommitCashIn, CommitCashOut, CommitWrongCode, CommitRegenerate, CodeTried, Moving,
      Regenerating
<1>2. ASSUME CodeTried(t)
      PROVE  tx[t].read = shift[s].cash /\ tx[t].seen = shift[s].failures
             /\ tx[t].seen < MaxFailures
  BY <1>2, KindOfTransaction DEF CodeTried, Moving
<1>3. /\ shift[s].cash \in -MaxCash .. MaxCash
      /\ shift[s].failures \in 0 .. MaxFailures
      /\ shift[s].expected \in Int \cup {None}
  BY <1>0, <1>1 DEF ShiftRow
<1>4. ASSUME NEW amount \in Amounts, CommitCashIn(t, amount)
      PROVE  IInv'
  <2> DEFINE cash == shift[s].cash + amount
             row == [shift[s] EXCEPT !.cash = cash, !.failures = 0, !.refused = 0]
  <2>1. cash \in -MaxCash .. MaxCash
    <3>1. cash <= MaxCash
      BY <1>4 DEF CommitCashIn
    <3>2. amount \in Nat
      BY ConstantsAssumption DEF Amounts
    <3> HIDE DEF s
    <3> QED
      BY <1>0, <1>3, <3>1, <3>2
  <2>2. shift' = [shift EXCEPT ![s] = row] /\ UNCHANGED <<sale, ret>> /\ Finish(t)
    BY <1>0, <1>1, <1>4 DEF CommitCashIn, ShiftRow
  <2> HIDE DEF cash
  <2>3. shift[s] \in ShiftRow /\ 0 \in 0 .. MaxFailures
    BY <1>0, <1>1
  <2>4. row \in ShiftRow
    BY <2>1, <2>3 DEF ShiftRow
  <2>5. row.status = "OPEN" /\ row.expected = shift[s].expected
        /\ row.failures = row.refused
    BY <1>1, <2>3 DEF ShiftRow
  <2> HIDE DEF s, row
  <2> QED
    BY <1>1, <2>2, <2>4, <2>5, ShiftCommit
<1>5. ASSUME NEW amount \in Amounts, CommitCashOut(t, amount)
      PROVE  IInv'
  <2> DEFINE cash == shift[s].cash - amount
             row == [shift[s] EXCEPT !.cash = cash, !.failures = 0, !.refused = 0]
  <2>1. cash \in -MaxCash .. MaxCash
    <3>1. amount <= shift[s].cash
      BY <1>2, <1>5 DEF CommitCashOut
    <3>2. amount \in Nat
      BY ConstantsAssumption DEF Amounts
    <3> HIDE DEF s
    <3> QED
      BY <1>0, <1>3, <3>1, <3>2
  <2>2. shift' = [shift EXCEPT ![s] = row] /\ UNCHANGED <<sale, ret>> /\ Finish(t)
    BY <1>0, <1>1, <1>5 DEF CommitCashOut, ShiftRow
  <2> HIDE DEF cash
  <2>3. shift[s] \in ShiftRow /\ 0 \in 0 .. MaxFailures
    BY <1>0, <1>1
  <2>4. row \in ShiftRow
    BY <2>1, <2>3 DEF ShiftRow
  <2>5. row.status = "OPEN" /\ row.expected = shift[s].expected
        /\ row.failures = row.refused
    BY <1>1, <2>3 DEF ShiftRow
  <2> HIDE DEF s, row
  <2> QED
    BY <1>1, <2>2, <2>4, <2>5, ShiftCommit
<1>6. CASE CommitWrongCode(t)
  <2> DEFINE row == [shift[s] EXCEPT !.failures = tx[t].seen + 1,
                                     !.refused = shift[s].refused + 1]
  <2>0. shift[s].refused = tx[t].seen
    BY <1>1, <1>2, <1>6 DEF CommitWrongCode, IInv, ShiftInv
  <2>1. tx[t].seen + 1 \in 0 .. MaxFailures
    BY <1>0, <1>2, <1>3, <1>6 DEF CommitWrongCode
  <2>2. row \in ShiftRow /\ row.status = "OPEN" /\ row.expected = shift[s].expected
        /\ row.failures = row.refused
    <3>1. shift[s] \in ShiftRow /\ shift[s].refused + 1 = tx[t].seen + 1
          /\ tx[t].seen + 1 \in Nat
      BY <1>0, <1>1, <2>0, <2>1
    <3> HIDE DEF s
    <3> QED
      BY <1>1, <2>1, <3>1 DEF ShiftRow
  <2>3. shift' = [shift EXCEPT ![s] = row] /\ UNCHANGED <<sale, ret>> /\ Finish(t)
    BY <1>0, <1>1, <1>6 DEF CommitWrongCode, ShiftRow
  <2> HIDE DEF s, row
  <2> QED
    BY <1>1, <2>2, <2>3, ShiftCommit
<1>7. CASE CommitRegenerate(t)
  <2> DEFINE row == [shift[s] EXCEPT !.failures = 0, !.refused = 0]
  <2>1. row \in ShiftRow /\ row.status = "OPEN" /\ row.expected = shift[s].expected
        /\ row.failures = row.refused
    <3>1. shift[s] \in ShiftRow /\ 0 \in 0 .. MaxFailures
      BY <1>0, <1>1
    <3> HIDE DEF s
    <3> QED
      BY <1>1, <3>1 DEF ShiftRow
  <2>2. shift' = [shift EXCEPT ![s] = row] /\ UNCHANGED <<sale, ret>> /\ Finish(t)
    BY <1>0, <1>1, <1>7 DEF CommitRegenerate, ShiftRow
  <2> HIDE DEF s, row
  <2> QED
    BY <1>1, <2>1, <2>2, ShiftCommit
<1> QED
  BY <1>4, <1>5, <1>6, <1>7

LEMMA CommitChargePreserves ==
  ASSUME IInv, NEW t \in Clients, CommitCharge(t)
  PROVE  IInv'
<1> DEFINE x == tx[t].sale
           s == tx[t].shift
           r == tx[t].ret
           credit == tx[t].seen
           due == tx[t].read - credit
<1>0. /\ shift \in [Shifts -> ShiftRow] /\ sale \in [Sales -> SaleRow]
      /\ ret \in [Returns -> ReturnRow] /\ tx[t] \in Transaction
      /\ MaxAmount \in Nat \ {0} /\ MaxCash \in Nat
  BY ConstantsAssumption DEF IInv, TypeOK
<1>1. /\ Charging(tx[t]) /\ tx[t].at = "commit"
      /\ x \in Sales /\ s \in Shifts
      /\ tx[t].sales = {x} /\ tx[t].shifts = {s}
      /\ sale[x].status = "DRAFT" /\ shift[s].status = "OPEN"
  BY KindOfTransaction DEF CommitCharge, Charging
<1>2. /\ tx[t].read = sale[x].total
      /\ sale[x].total \in Totals
      /\ credit \in 0 .. tx[t].read
      /\ due \in 0 .. MaxAmount /\ credit \in Totals
  <2>1. tx[t].read = sale[x].total /\ sale[x].total \in Totals /\ tx[t].read > 0
    BY <1>0, <1>1 DEF Charging, SaleRow
  <2>2. CASE tx[t].rets = {}
    BY <1>0, <1>1, <2>1, <2>2 DEF Charging, Totals
  <2>3. CASE tx[t].rets # {}
    <3>1. r \in Returns /\ credit = Smaller(ret[r].value, tx[t].read)
      BY <1>0, <1>1, <2>3 DEF Charging, Transaction
    <3>2. ret[r].value \in 1 .. MaxAmount
      BY <1>0, <3>1 DEF ReturnRow, Amounts
    <3> HIDE DEF x, r
    <3> QED
      BY <1>0, <2>1, <3>1, <3>2 DEF Smaller, Totals
  <2> QED
    BY <2>2, <2>3
<1> DEFINE row == [sale[x] EXCEPT !.status = "COMPLETED", !.paid = due, !.credit = credit]
<1>3. sale' = [sale EXCEPT ![x] = row]
  BY <1>0, <1>1 DEF CommitCharge, SaleRow
<1>4. row \in SaleRow
  <2>1. due \in Totals /\ credit \in Totals /\ sale[x] \in SaleRow
    BY <1>0, <1>1, <1>2 DEF Totals
  <2> HIDE DEF due, credit
  <2> QED
    BY <2>1 DEF SaleRow
<1>5. /\ row.status = "COMPLETED" /\ row.paid = due /\ row.credit = credit
      /\ row.total = sale[x].total
  BY <1>0, <1>1 DEF SaleRow
<1>6. /\ sale' \in [Sales -> SaleRow]
      /\ sale'[x] = row
      /\ \A y \in Sales \ {x} : sale'[y] = sale[y]
  <2> HIDE DEF row
  <2> QED
    BY <1>0, <1>1, <1>3, <1>4
<1>7. \A y \in Sales : SaleInv(y)'
  <2>1. row.paid + row.credit = row.total
    BY <1>2, <1>5 DEF Totals
  <2> HIDE DEF row
  <2> QED
    BY <1>5, <1>6, <2>1 DEF IInv, SaleInv
<1>8. /\ shift' \in [Shifts -> ShiftRow]
      /\ \A u \in Shifts \ {s} : shift'[u] = shift[u]
      /\ \A u \in Shifts : ShiftInv(u)'
  <2>1. PICK cashPart \in 0 .. due : /\ shift[s].cash + cashPart <= MaxCash
                                     /\ shift' = [shift EXCEPT ![s].cash = @ + cashPart]
    BY DEF CommitCharge
  <2> DEFINE cash == shift[s].cash + cashPart
             new == [shift[s] EXCEPT !.cash = cash]
  <2>2. cash \in -MaxCash .. MaxCash
    BY <1>0, <1>1, <1>2, <2>1 DEF ShiftRow
  <2>3. shift' = [shift EXCEPT ![s] = new]
    BY <1>0, <1>1, <2>1 DEF ShiftRow
  <2> HIDE DEF cash
  <2>4. new \in ShiftRow /\ new.status = "OPEN" /\ new.expected = shift[s].expected
       /\ new.failures = new.refused
    BY <1>0, <1>1, <2>2 DEF IInv, ShiftInv, ShiftRow
  <2> HIDE DEF new
  <2> QED
    BY <1>0, <1>1, <2>3, <2>4 DEF IInv, ShiftInv
<1>9. \A q \in Returns : ret[q].replacement # x
  BY <1>1, ConstantsAssumption DEF IInv, ReturnInv
<1>10. CASE r = None
  <2>1. tx[t].rets = {} /\ credit = 0 /\ UNCHANGED ret /\ Finish(t)
    BY <1>1, <1>10 DEF CommitCharge, Charging
  <2>2. \A q \in Returns : ReturnInv(q)'
    <3> HIDE DEF row
    <3> QED
      BY <1>0, <1>6, <1>9, <2>1 DEF IInv, ReturnInv, ReturnRow
  <2>3. CreditBackedByReturn'
    <3> HIDE DEF row
    <3> QED
      BY <1>5, <1>6, <2>1 DEF IInv, CreditBackedByReturn
  <2> HIDE DEF row
  <2> QED
    BY <1>0, <1>1, <1>6, <1>7, <1>8, <2>1, <2>2, <2>3, EndStep
<1>11. CASE r # None
  <2> DEFINE new == IF credit < ret[r].value
                      THEN [ret[r] EXCEPT !.replacement = x, !.resolution = "PARTIAL_REFUND"]
                      ELSE [ret[r] EXCEPT !.replacement = x, !.status = "COMPLETED"]
  <2>1. /\ r \in Returns /\ tx[t].rets = {r} /\ UsableForExchange(r)
        /\ credit = Smaller(ret[r].value, tx[t].read)
        /\ Finish(t)
    BY <1>0, <1>1, <1>11 DEF CommitCharge, Charging, Transaction
  <2>2. ret' = [ret EXCEPT ![r] = new]
    BY <1>0, <1>11, <2>1 DEF CommitCharge, ApplyExchange, ReturnRow
  <2>3. ret[r] \in ReturnRow /\ ret[r].value \in 1 .. MaxAmount /\ ret[r].refunded = 0
    BY <1>0, <2>1 DEF ReturnRow, Amounts, IInv, ReturnInv, UsableForExchange
  <2>4. credit <= ret[r].value
    BY <1>2, <2>1, <2>3 DEF Smaller, Totals
  <2>5. new \in ReturnRow
    BY <1>1, <2>3 DEF ReturnRow
  <2>6. /\ new.replacement = x /\ new.value = ret[r].value
        /\ new.resolution \in {"EXCHANGE", "PARTIAL_REFUND"}
        /\ new.refunded = 0
        /\ new.status \in {"APPROVED", "COMPLETED"}
        /\ new.status = "COMPLETED" => credit = ret[r].value
    BY <1>2, <2>1, <2>3, <2>4 DEF ReturnRow, UsableForExchange, Totals
  <2> HIDE DEF new
  <2>7. /\ ret' \in [Returns -> ReturnRow]
        /\ ret'[r] = new
        /\ \A q \in Returns \ {r} : ret'[q] = ret[q]
    BY <1>0, <2>1, <2>2, <2>5
  <2> HIDE DEF row
  <2>8. \A q \in Returns : ReturnInv(q)'
    <3>1. ASSUME NEW q \in Returns, q = r PROVE ReturnInv(q)'
      <4>1. /\ ret'[r].replacement = x /\ ret'[r].value = ret[r].value
            /\ ret'[r].refunded = 0
            /\ ret'[r].resolution \in {"EXCHANGE", "PARTIAL_REFUND"}
            /\ ret'[r].status \in {"APPROVED", "COMPLETED"}
            /\ ret'[r].status = "COMPLETED" => credit = ret[r].value
        BY <2>6, <2>7
      <4>2. sale'[x].status = "COMPLETED" /\ sale'[x].credit = credit /\ x # None
        BY <1>1, <1>5, <1>6, ConstantsAssumption
      <4> HIDE DEF x, r, credit
      <4> QED
        BY <1>2, <2>3, <2>4, <3>1, <4>1, <4>2 DEF ReturnInv, Totals
    <3>2. ASSUME NEW q \in Returns \ {r} PROVE ReturnInv(q)'
      <4>1. ret'[q] = ret[q] /\ ReturnInv(q)
        BY <2>7 DEF IInv
      <4>2. ASSUME ret[q].replacement # None
            PROVE  sale'[ret[q].replacement] = sale[ret[q].replacement]
        BY <1>0, <1>6, <1>9, <4>2 DEF ReturnRow
      <4> QED
        BY <4>1, <4>2 DEF ReturnInv
    <3> QED
      BY <3>1, <3>2
  <2>9. CreditBackedByReturn'
    <3>1. ASSUME NEW y \in Sales \ {x}, sale'[y].credit > 0
          PROVE  \E q \in Returns : /\ ret'[q].replacement = y
                                    /\ ret'[q].status # "CANCELLED"
                                    /\ sale'[y].credit <= ret'[q].value
      <4>1. PICK q \in Returns : /\ ret[q].replacement = y
                                 /\ ret[q].status # "CANCELLED"
                                 /\ sale[y].credit <= ret[q].value
        BY <1>6, <3>1 DEF IInv, CreditBackedByReturn
      <4>2. q # r
        BY <4>1, <2>1, ConstantsAssumption DEF UsableForExchange
      <4> QED
        BY <1>6, <2>7, <3>1, <4>1, <4>2
    <3>2. /\ ret'[r].replacement = x
          /\ ret'[r].status # "CANCELLED"
          /\ sale'[x].credit <= ret'[r].value
      BY <1>5, <1>6, <2>4, <2>6, <2>7
    <3> QED
      BY <2>1, <3>1, <3>2 DEF CreditBackedByReturn
  <2> QED
    BY <1>0, <1>1, <1>6, <1>7, <1>8, <2>1, <2>7, <2>8, <2>9, EndStep
<1> QED
  BY <1>10, <1>11

(* Commits that write the row of an approved return, and perhaps the cash of  *)
(* an open shift, and no sale.                                                *)
LEMMA ReturnCommit ==
  ASSUME IInv, NEW t \in Clients, NEW r \in Returns, NEW row \in ReturnRow,
         tx[t].rets = {r},
         ret[r].status = "APPROVED",
         row.replacement = ret[r].replacement, row.value = ret[r].value,
         row.resolution = ret[r].resolution,
         \/ row.status = "CANCELLED" /\ row.replacement = None
         \/ row.status = "COMPLETED"
            /\ row.value = row.refunded + (IF row.replacement = None THEN 0
                                             ELSE sale[row.replacement].credit),
         ret' = [ret EXCEPT ![r] = row],
         shift' \in [Shifts -> ShiftRow],
         \A s \in Shifts : s \notin tx[t].shifts => shift'[s] = shift[s],
         \A s \in Shifts : ShiftInv(s)',
         UNCHANGED sale, Finish(t)
  PROVE  IInv'
<1>1. /\ sale' \in [Sales -> SaleRow]
      /\ ret \in [Returns -> ReturnRow] /\ ret' \in [Returns -> ReturnRow]
  BY DEF IInv, TypeOK
<1>2. ret'[r] = row /\ \A q \in Returns \ {r} : ret'[q] = ret[q]
  BY <1>1
<1>3. \A x \in Sales : SaleInv(x)'
  BY DEF IInv, SaleInv
<1>4. ASSUME NEW q \in Returns PROVE ReturnInv(q)'
  <2>1. CASE q = r
    BY <1>2, <2>1 DEF IInv, ReturnInv
  <2>2. CASE q # r
    BY <1>2, <2>2 DEF IInv, ReturnInv
  <2> QED
    BY <2>1, <2>2
<1>5. CreditBackedByReturn'
  <2>1. ASSUME NEW x \in Sales, sale'[x].credit > 0
        PROVE  \E q \in Returns : /\ ret'[q].replacement = x
                                  /\ ret'[q].status # "CANCELLED"
                                  /\ sale'[x].credit <= ret'[q].value
    <3>1. PICK q \in Returns : /\ ret[q].replacement = x
                               /\ ret[q].status # "CANCELLED"
                               /\ sale[x].credit <= ret[q].value
      BY <2>1 DEF IInv, CreditBackedByReturn
    <3>2. /\ ret'[q].replacement = x
          /\ ret'[q].status # "CANCELLED"
          /\ sale'[x].credit <= ret'[q].value
      <4>1. CASE q = r
        <5>1. x # None /\ row.status = "COMPLETED"
          BY <3>1, <4>1, ConstantsAssumption
        <5> QED
          BY <1>2, <3>1, <4>1, <5>1
      <4>2. CASE q # r
        BY <1>2, <3>1, <4>2
      <4> QED
        BY <4>1, <4>2
    <3> QED
      BY <3>2
  <2> QED
    BY <2>1 DEF CreditBackedByReturn
<1> QED
  BY <1>1, <1>2, <1>3, <1>4, <1>5, EndStep

LEMMA CommitCancelReturnPreserves ==
  ASSUME IInv, NEW t \in Clients, CommitCancelReturn(t)
  PROVE  IInv'
<1> DEFINE r == tx[t].ret
           row == [ret[r] EXCEPT !.status = "CANCELLED"]
<1>1. CancellingReturn(tx[t]) /\ ret \in [Returns -> ReturnRow]
      /\ shift \in [Shifts -> ShiftRow]
  BY KindOfTransaction DEF CommitCancelReturn, IInv, TypeOK
<1>2. /\ r \in Returns /\ tx[t].rets = {r} /\ ret[r].status = "APPROVED"
      /\ ret[r].replacement = None
  BY <1>1 DEF CancellingReturn
<1>3. row \in ReturnRow
  BY <1>1, <1>2 DEF ReturnRow
<1>4. /\ row.replacement = ret[r].replacement /\ row.value = ret[r].value
      /\ row.resolution = ret[r].resolution
      /\ row.status = "CANCELLED" /\ row.replacement = None
  BY <1>1, <1>2 DEF ReturnRow
<1>5. ret' = [ret EXCEPT ![r] = row] /\ UNCHANGED <<shift, sale>> /\ Finish(t)
  BY <1>1, <1>2 DEF CommitCancelReturn, ReturnRow
<1>6. \A s \in Shifts : ShiftInv(s)'
  BY <1>5 DEF IInv, ShiftInv
<1> HIDE DEF r, row
<1> QED
  BY <1>1, <1>2, <1>3, <1>4, <1>5, <1>6, ReturnCommit

(* What a refund hands out is what the return still owes.                     *)
LEMMA AmountToRefundIsOwed ==
  ASSUME IInv, NEW r \in Returns,
         ret[r].status = "APPROVED", ret[r].resolution # "EXCHANGE"
  PROVE  /\ AmountToRefund(r) \in Totals
         /\ ret[r].value = AmountToRefund(r) + (IF ret[r].replacement = None THEN 0
                                                  ELSE sale[ret[r].replacement].credit)
<1>0. /\ ret[r] \in ReturnRow /\ sale \in [Sales -> SaleRow]
      /\ MaxAmount \in Nat \ {0} /\ ReturnInv(r)
  BY ConstantsAssumption DEF IInv, TypeOK
<1>1. ret[r].value \in 1 .. MaxAmount
  BY <1>0 DEF ReturnRow, Amounts
<1>2. CASE ret[r].resolution = "REFUND"
  <2>1. ret[r].replacement = None
    BY <1>0, <1>2 DEF ReturnInv
  <2> QED
    BY <1>0, <1>1, <1>2, <2>1 DEF AmountToRefund, Totals
<1>3. CASE ret[r].resolution # "REFUND"
  <2> DEFINE x == ret[r].replacement
  <2>1. x \in Sales /\ x # None /\ sale[x].credit <= ret[r].value
    BY <1>0, <1>3 DEF ReturnRow, ReturnInv
  <2>2. sale[x].credit \in 0 .. MaxAmount
    BY <1>0, <2>1 DEF SaleRow, Totals
  <2>3. AmountToRefund(r) = ret[r].value - sale[x].credit
    BY <1>3 DEF AmountToRefund
  <2> HIDE DEF x
  <2> QED
    BY <1>0, <1>1, <2>1, <2>2, <2>3 DEF Totals, x
<1> QED
  BY <1>2, <1>3

LEMMA CommitRefundPreserves ==
  ASSUME IInv, NEW t \in Clients, CommitRefund(t)
  PROVE  IInv'
<1> DEFINE r == tx[t].ret
           s == tx[t].shift
           amount == tx[t].read
           row == [ret[r] EXCEPT !.status = "COMPLETED", !.refunded = amount]
<1>0. /\ ret \in [Returns -> ReturnRow] /\ shift \in [Shifts -> ShiftRow]
      /\ tx[t] \in Transaction /\ MaxCash \in Nat /\ MaxAmount \in Nat \ {0}
  BY ConstantsAssumption DEF IInv, TypeOK
<1>1. /\ r \in Returns /\ tx[t].rets = {r}
      /\ ret[r].status = "APPROVED" /\ ret[r].resolution # "EXCHANGE"
      /\ amount = AmountToRefund(r)
      /\ s # None => /\ s \in Shifts /\ tx[t].shifts = {s} /\ shift[s].status = "OPEN"
  BY <1>0, KindOfTransaction DEF CommitRefund, Refunding, Transaction
<1>2. /\ amount \in Totals /\ amount \in 0 .. MaxAmount
      /\ ret[r].value = amount + (IF ret[r].replacement = None THEN 0
                                    ELSE sale[ret[r].replacement].credit)
  BY <1>1, AmountToRefundIsOwed DEF Totals
<1>3. row \in ReturnRow
  <2>1. ret[r] \in ReturnRow
    BY <1>0, <1>1
  <2> HIDE DEF amount
  <2> QED
    BY <1>2, <2>1 DEF ReturnRow
<1>4. /\ row.replacement = ret[r].replacement /\ row.value = ret[r].value
      /\ row.resolution = ret[r].resolution
      /\ row.status = "COMPLETED" /\ row.refunded = amount
  BY <1>0, <1>1 DEF ReturnRow
<1>5. ret' = [ret EXCEPT ![r] = row] /\ UNCHANGED sale /\ Finish(t)
  BY <1>0, <1>1 DEF CommitRefund, ReturnRow
<1>6. /\ shift' \in [Shifts -> ShiftRow]
      /\ \A u \in Shifts : u \notin tx[t].shifts => shift'[u] = shift[u]
      /\ \A u \in Shifts : ShiftInv(u)'
  <2>1. CASE s = None
    BY <1>0, <2>1 DEF CommitRefund, IInv, ShiftInv
  <2>2. CASE s # None
    <3>1. PICK cashPart \in 0 .. amount :
            /\ -MaxCash <= shift[s].cash - cashPart
            /\ shift' = [shift EXCEPT ![s].cash = @ - cashPart]
      BY <2>2 DEF CommitRefund
    <3> DEFINE cash == shift[s].cash - cashPart
               new == [shift[s] EXCEPT !.cash = cash]
    <3>2. cash \in -MaxCash .. MaxCash
      BY <1>0, <1>1, <1>2, <2>2, <3>1 DEF ShiftRow
    <3>3. shift' = [shift EXCEPT ![s] = new]
      BY <1>0, <1>1, <2>2, <3>1 DEF ShiftRow
    <3> HIDE DEF cash
    <3>4. new \in ShiftRow /\ new.status = "OPEN" /\ new.expected = shift[s].expected
         /\ new.failures = new.refused
      BY <1>0, <1>1, <2>2, <3>2 DEF IInv, ShiftInv, ShiftRow
    <3> HIDE DEF new
    <3> QED
      BY <1>0, <1>1, <2>2, <3>3, <3>4 DEF IInv, ShiftInv
  <2> QED
    BY <2>1, <2>2
<1> HIDE DEF r, row, amount
<1> QED
  BY <1>1, <1>2, <1>3, <1>4, <1>5, <1>6, ReturnCommit

LEMMA CommitClosePreserves ==
  ASSUME IInv, NEW t \in Clients, CommitClose(t)
  PROVE  IInv'
<1> DEFINE s == tx[t].shift
           drafts == tx[t].sales
           row == [shift[s] EXCEPT !.status = "CLOSED", !.expected = tx[t].read]
<1>0. /\ shift \in [Shifts -> ShiftRow] /\ sale \in [Sales -> SaleRow]
      /\ ret \in [Returns -> ReturnRow] /\ tx[t] \in Transaction
  BY DEF IInv, TypeOK
<1>1. /\ s \in Shifts /\ tx[t].shifts = {s}
      /\ \A x \in drafts : sale[x].status = "DRAFT"
      /\ tx[t].read = shift[s].cash
  BY KindOfTransaction DEF CommitClose, Closing
<1>2. /\ UNCHANGED ret /\ Finish(t)
      /\ shift' = [shift EXCEPT ![s] = row]
      /\ sale' = [x \in Sales |-> IF x \in drafts
                                    THEN [sale[x] EXCEPT !.status = "DISCARDED"]
                                    ELSE sale[x]]
  BY <1>0, <1>1 DEF CommitClose, ShiftRow
<1>3. row \in ShiftRow /\ row.status = "CLOSED" /\ row.expected = row.cash
      /\ row.failures = row.refused
  <2>1. shift[s] \in ShiftRow /\ shift[s].cash \in Int
    BY <1>0, <1>1, ConstantsAssumption DEF ShiftRow
  <2>2. row \in ShiftRow
    BY <1>1, <2>1 DEF ShiftRow
  <2>3. shift[s].failures = shift[s].refused
    BY <1>1 DEF IInv, ShiftInv
  <2> QED
    BY <1>1, <2>1, <2>2, <2>3 DEF ShiftRow
<1>4. /\ shift' \in [Shifts -> ShiftRow]
      /\ \A u \in Shifts \ {s} : shift'[u] = shift[u]
      /\ \A u \in Shifts : ShiftInv(u)'
  <2> HIDE DEF row
  <2> QED
    BY <1>0, <1>1, <1>2, <1>3 DEF IInv, ShiftInv
<1>5. ASSUME NEW x \in Sales
      PROVE  /\ sale'[x] \in SaleRow
             /\ x \notin drafts => sale'[x] = sale[x]
             /\ sale'[x].credit = sale[x].credit
             /\ x \in drafts => sale'[x].status = "DISCARDED"
  <2> HIDE DEF drafts
  <2> QED
    BY <1>0, <1>2, <1>5 DEF SaleRow
<1>6. sale' \in [Sales -> SaleRow]
  BY <1>2, <1>5
<1>7. \A x \in Sales : SaleInv(x)'
  BY <1>1, <1>5 DEF IInv, SaleInv
<1>8. \A x \in Sales : sale[x].status = "COMPLETED" => sale'[x] = sale[x]
  BY <1>1, <1>5
<1>9. ASSUME NEW r \in Returns PROVE ReturnInv(r)'
  <2>1. ASSUME ret[r].replacement # None
        PROVE  sale'[ret[r].replacement] = sale[ret[r].replacement]
    BY <1>0, <1>8, <2>1 DEF IInv, ReturnInv, ReturnRow
  <2> QED
    BY <1>2, <2>1 DEF IInv, ReturnInv
<1>10. CreditBackedByReturn'
  BY <1>2, <1>5 DEF IInv, CreditBackedByReturn
<1> QED
  BY <1>0, <1>1, <1>2, <1>4, <1>5, <1>6, <1>7, <1>8, <1>9, <1>10, EndStep

-----------------------------------------------------------------------------
(* The invariant, and what follows from it *)

LEMMA StepPreserves == IInv /\ [Next]_vars => IInv'
<1> SUFFICES ASSUME IInv, [Next]_vars PROVE IInv'
  OBVIOUS
<1>1. CASE UNCHANGED vars
  <2>1. TypeOK' /\ LocksExclusive' /\ CreditBackedByReturn'
    BY <1>1 DEF vars, IInv, TypeOK, LocksExclusive, CreditBackedByReturn
  <2>2. /\ \A s \in Shifts : ShiftInv(s)'
        /\ \A x \in Sales : SaleInv(x)'
        /\ \A r \in Returns : ReturnInv(r)'
    BY <1>1 DEF vars, IInv, ShiftInv, SaleInv, ReturnInv
  <2>3. ASSUME NEW t \in Clients PROVE TransactionInv(tx[t])'
    <3>1. TransactionInv(tx[t]) /\ tx'[t] = tx[t]
      BY <1>1 DEF IInv, vars
    <3> QED
      BY <1>1, <3>1, SameRowsSameKnowledge DEF vars
  <2> QED
    BY <2>1, <2>2, <2>3 DEF IInv
<1>2. ASSUME NEW t \in Clients, Begin(t) PROVE IInv'
  BY <1>2, BeginPreserves
<1>3. ASSUME NEW t \in Clients, NextLock(t) PROVE IInv'
  BY <1>3, NextLockPreserves
<1>4. ASSUME NEW t \in Clients, Commit(t) PROVE IInv'
  BY <1>4, CommitCreatePreserves, CommitEditPreserves, CommitCancelSalePreserves,
     CommitChargePreserves, CommitMovePreserves, CommitRefundPreserves,
     CommitCancelReturnPreserves, CommitClosePreserves, EndUnchanged
  DEF Commit, CommitLockedOut
<1>5. ASSUME NEW t \in Clients, Abort(t) PROVE IInv'
  BY <1>5, EndUnchanged DEF Abort
<1> QED
  BY <1>1, <1>2, <1>3, <1>4, <1>5 DEF Next

(* What each transaction knows of the rows it holds stays true until it ends: *)
(* no other transaction writes a row somebody holds.                          *)
THEOREM Invariance == Spec => []IInv
BY InitInvariant, StepPreserves, PTL DEF Spec

(* Every row keeps its columns' ranges; in particular the failed attempts     *)
(* never pass the limit (verifyMovementCode).                                 *)
THEOREM TypeCorrect == Spec => []TypeOK
<1>1. IInv => TypeOK
  BY DEF IInv
<1> QED
  BY <1>1, Invariance, PTL

(* The expected amount a closing froze is what the shift's committed rows add *)
(* up to, for ever (CashSessionService.close).                                *)
THEOREM FrozenExpected == Spec => []FrozenExpectedMatchesLedger
<1>1. IInv => FrozenExpectedMatchesLedger
  BY DEF IInv, ShiftInv, FrozenExpectedMatchesLedger
<1> QED
  BY <1>1, Invariance, PTL

(* Payments plus credit of a charged sale are its total                       *)
(* (SalePaymentService.complete).                                             *)
THEOREM PaidInFull == Spec => []CompletedSalePaidInFull
<1>1. IInv => CompletedSalePaidInFull
  BY DEF IInv, SaleInv, CompletedSalePaidInFull
<1> QED
  BY <1>1, Invariance, PTL

(* No credit without a return that names the sale (applyExchange).            *)
THEOREM CreditBacked == Spec => []CreditBackedByReturn
<1>1. IInv => CreditBackedByReturn
  BY DEF IInv
<1> QED
  BY <1>1, Invariance, PTL

(* A finished return gave back its value, neither more nor less               *)
(* (completeRefund, applyExchange).                                           *)
THEOREM ReturnSettled == Spec => []ReturnSettledExactly
<1>1. IInv => ReturnSettledExactly
  BY DEF IInv, ReturnInv, ReturnSettledExactly
<1> QED
  BY <1>1, Invariance, PTL

(* Whoever holds a shift waits for nothing, and whoever holds a return waits  *)
(* at most for a shift: no set of requests waits for itself.                  *)
THEOREM DeadlockFree == Spec => []NoLockCycle
<1>1. IInv => NoLockCycle
  <2> SUFFICES ASSUME IInv, NEW S \in SUBSET Clients, S # {}
               PROVE  \E t \in S : \A u \in S : ~WaitsFor(t, u)
    BY DEF NoLockCycle
  <2>1. ASSUME NEW u \in S
        PROVE  /\ tx[u].shifts # {} => tx[u].at = "commit"
               /\ tx[u].rets # {} => tx[u].at \in {"needShift", "commit"}
               /\ tx[u].at \in {"idle", "needReturn", "needShift", "commit"}
    <3>1. TransactionInv(tx[u])
      BY DEF IInv
    <3> QED
      BY <3>1 DEF TransactionInv, NoTransaction, Creating, ChangingDraft, Charging, Moving,
                  Regenerating, Refunding, CancellingReturn, Closing
  <2>2. CASE \E t \in S : tx[t].at = "needShift"
    <3>1. PICK t \in S : tx[t].at = "needShift"
      BY <2>2
    <3>2. \A u \in S : ~WaitsFor(t, u) \/ tx[u].at = "commit"
      BY <2>1, <3>1 DEF WaitsFor
    <3>3. CASE \E u \in S : tx[u].at = "commit"
      BY <3>3 DEF WaitsFor
    <3> QED
      BY <3>2, <3>3
  <2>3. CASE ~\E t \in S : tx[t].at = "needShift"
    <3>1. CASE \E u \in S : tx[u].at = "commit"
      BY <3>1 DEF WaitsFor
    <3>2. CASE ~\E u \in S : tx[u].at = "commit"
      BY <2>1, <2>3, <3>2 DEF WaitsFor
    <3> QED
      BY <3>1, <3>2
  <2> QED
    BY <2>2, <2>3
<1> QED
  BY <1>1, Invariance, PTL

-----------------------------------------------------------------------------
(* Action properties, and the ledger *)

(* Nobody but the transaction that ends writes rows.                          *)
LEMMA WhoseStep ==
  ASSUME IInv, Next
  PROVE  \/ UNCHANGED <<shift, sale, ret>>
         \/ \E t \in Clients : Commit(t) /\ \A u \in Clients \ {t} : tx'[u] = tx[u]
<1>1. tx \in [Clients -> Transaction]
  BY DEF IInv, TypeOK
<1>2. ASSUME NEW t \in Clients, Begin(t) PROVE UNCHANGED <<shift, sale, ret>>
  BY <1>2 DEF Begin, LockForCreate, LockForEdit, LockForCancelSale, LockForCharge,
         LockForMove, LockForRegenerate, LockDraftsToClose, LockForRefund, LockForCancelReturn
<1>3. ASSUME NEW t \in Clients, NextLock(t) PROVE UNCHANGED <<shift, sale, ret>>
  BY <1>3 DEF NextLock, LockForExchange, LockShiftToCharge, LockShiftToRefund,
              LockShiftToClose, Refuse
<1>4. ASSUME NEW t \in Clients, Commit(t)
      PROVE  \A u \in Clients \ {t} : tx'[u] = tx[u]
  <2>1. Finish(t)
    BY <1>4 DEF Commit, CommitCreate, CommitEdit, CommitCancelSale, CommitCharge, CommitCashIn,
       CommitCashOut, CommitWrongCode, CommitLockedOut, CommitRegenerate, CommitRefund,
       CommitCancelReturn, CommitClose
  <2> QED
    BY <1>1, <2>1 DEF Finish
<1>5. ASSUME NEW t \in Clients, Abort(t) PROVE UNCHANGED <<shift, sale, ret>>
  BY <1>5 DEF Abort
<1> QED
  BY <1>2, <1>3, <1>4, <1>5 DEF Next

(* The steps that leave a sale charged that was not are charges.              *)
LEMMA OnlyChargeCompletes ==
  ASSUME IInv, NEW t \in Clients, Commit(t), NEW x \in Sales,
         sale[x].status # "COMPLETED", sale'[x].status = "COMPLETED"
  PROVE  CommitCharge(t) /\ x = tx[t].sale
<1>0. sale \in [Sales -> SaleRow]
  BY DEF IInv, TypeOK
<1>1. ~CommitCreate(t)
  BY <1>0 DEF CommitCreate, SaleRow
<1>2. ASSUME CommitEdit(t) PROVE FALSE
  <2>1. PICK total \in Totals : sale' = [sale EXCEPT ![tx[t].sale].total = total]
    BY <1>2 DEF CommitEdit
  <2> QED
    BY <1>0, <2>1 DEF SaleRow
<1>3. ~CommitCancelSale(t)
  BY <1>0 DEF CommitCancelSale, SaleRow
<1>4. ~CommitClose(t)
  BY <1>0 DEF CommitClose, SaleRow
<1>5. sale' # sale
  OBVIOUS
<1>6. CommitCharge(t)
  BY <1>1, <1>2, <1>3, <1>4, <1>5
  DEF Commit, CommitCashIn, CommitCashOut, CommitWrongCode, CommitLockedOut,
      CommitRegenerate, CommitRefund, CommitCancelReturn
<1> QED
  BY <1>0, <1>6 DEF CommitCharge

(* Sales are charged in open shifts only (SalePaymentService.complete).       *)
THEOREM ChargedInOpenShift == Spec => ChargedOnlyInOpenShift
<1>1. ASSUME IInv, Next, NEW x \in Sales,
             sale[x].status # "COMPLETED", sale'[x].status = "COMPLETED"
      PROVE  shift[sale[x].shift].status = "OPEN"
  <2>1. PICK t \in Clients : Commit(t)
    BY <1>1, WhoseStep
  <2>2. CommitCharge(t) /\ x = tx[t].sale
    BY <1>1, <2>1, OnlyChargeCompletes
  <2> QED
    BY <1>1, <2>2, KindOfTransaction DEF CommitCharge, Charging
<1>2. IInv /\ [Next]_vars
      => [\A x \in Sales :
            sale[x].status # "COMPLETED" /\ sale'[x].status = "COMPLETED"
              => shift[sale[x].shift].status = "OPEN"]_vars
  BY <1>1
<1> QED
  BY <1>2, Invariance, PTL DEF Spec, ChargedOnlyInOpenShift

(* No withdrawal is granted against cash that is not there, though several    *)
(* are asked for at once (CashMovementService.register).                      *)
THEOREM NoOverdraft == Spec => CashOutNeverOverdraws
<1>1. ASSUME IInv, Next, NEW t \in Clients, NEW s \in Shifts,
             tx[t].op = "move", tx'[t].op = "none", shift'[s].cash < shift[s].cash
      PROVE  shift'[s].cash >= 0
  <2>0. /\ shift \in [Shifts -> ShiftRow]
        /\ shift[s].cash \in Int
        /\ Moving(tx[t])
    BY <1>1, KindOfTransaction, ConstantsAssumption DEF IInv, TypeOK, ShiftRow
  <2>1. ~UNCHANGED shift
    BY <1>1, <2>0
  <2>2. PICK u \in Clients : Commit(u) /\ \A w \in Clients \ {u} : tx'[w] = tx[w]
    BY <1>1, <2>1, WhoseStep
  <2>3. Commit(t)
    BY <1>1, <2>2
  <2>4. CASE \E amount \in Amounts : CommitCashOut(t, amount)
    <3>1. PICK amount \in Amounts : CommitCashOut(t, amount)
      BY <2>4
    <3>2. /\ tx[t].shift \in Shifts /\ amount \in Int
          /\ tx[t].read = shift[tx[t].shift].cash /\ amount <= tx[t].read
          /\ shift' = [shift EXCEPT ![tx[t].shift].cash = @ - amount,
                                    ![tx[t].shift].failures = 0,
                                    ![tx[t].shift].refused = 0]
      BY <2>0, <3>1, ConstantsAssumption DEF CommitCashOut, Moving, Amounts
    <3>3. s = tx[t].shift
      BY <1>1, <2>0, <3>2
    <3>4. shift'[s].cash = shift[s].cash - amount
      BY <2>0, <3>2, <3>3 DEF ShiftRow
    <3> QED
      BY <2>0, <3>2, <3>3, <3>4
  <2>5. CASE \E amount \in Amounts : CommitCashIn(t, amount)
    <3>1. PICK amount \in Amounts : CommitCashIn(t, amount)
      BY <2>5
    <3>2. /\ tx[t].shift \in Shifts /\ amount \in Nat
          /\ shift' = [shift EXCEPT ![tx[t].shift].cash = @ + amount,
                                    ![tx[t].shift].failures = 0,
                                    ![tx[t].shift].refused = 0]
      BY <2>0, <3>1, ConstantsAssumption DEF CommitCashIn, Moving, Amounts
    <3>3. shift'[s].cash = shift[s].cash \/ shift'[s].cash = shift[s].cash + amount
      BY <2>0, <3>2 DEF ShiftRow
    <3> QED
      BY <1>1, <2>0, <3>2, <3>3
  <2>6. CASE CommitWrongCode(t)
    <3>1. shift'[s].cash = shift[s].cash
      BY <2>0, <2>6 DEF CommitWrongCode, ShiftRow
    <3> QED
      BY <1>1, <2>0, <3>1
  <2>7. CASE CommitLockedOut(t)
    BY <2>1, <2>7 DEF CommitLockedOut
  <2> QED
    BY <1>1, <2>3, <2>4, <2>5, <2>6, <2>7
    DEF Commit, CommitCreate, CommitEdit, CommitCancelSale, CommitCharge, CommitRegenerate,
        CommitRefund, CommitCancelReturn, CommitClose
<1>2. IInv /\ [Next]_vars
      => [\A t \in Clients, s \in Shifts :
            tx[t].op = "move" /\ tx'[t].op = "none" /\ shift'[s].cash < shift[s].cash
              => shift'[s].cash >= 0]_vars
  BY <1>1
<1> QED
  BY <1>2, Invariance, PTL DEF Spec, CashOutNeverOverdraws

(* Every refused code is counted, so at most MaxFailures are refused in a     *)
(* row; after them no movement changes the shift (verifyMovementCode).        *)
THEOREM LockedOut == Spec => LockedOutUntilRegenerated
<1>1. ASSUME IInv, Next, NEW t \in Clients,
             tx[t].op = "move", tx[t].at = "commit", tx'[t].op = "none",
             shift[tx[t].shift].failures = MaxFailures
      PROVE  shift' = shift
  <2>1. tx[t].seen = MaxFailures
    BY <1>1, KindOfTransaction DEF Moving
  <2>2. CASE UNCHANGED <<shift, sale, ret>>
    BY <2>2
  <2>3. CASE ~UNCHANGED <<shift, sale, ret>>
    <3>1. PICK u \in Clients : Commit(u) /\ \A w \in Clients \ {u} : tx'[w] = tx[w]
      BY <1>1, <2>3, WhoseStep
    <3>2. Commit(t)
      BY <1>1, <3>1
    <3>3. ~CodeTried(t)
      BY <2>1, ConstantsAssumption DEF CodeTried
    <3> QED
      BY <1>1, <3>2, <3>3
      DEF Commit, CommitCreate, CommitEdit, CommitCancelSale, CommitCharge, CommitCashIn,
          CommitCashOut, CommitWrongCode, CommitLockedOut, CommitRegenerate, CommitRefund,
          CommitCancelReturn, CommitClose
  <2> QED
    BY <2>2, <2>3
<1>2. IInv /\ [Next]_vars
      => [\A t \in Clients :
            /\ tx[t].op = "move" /\ tx[t].at = "commit" /\ tx'[t].op = "none"
            /\ shift[tx[t].shift].failures = MaxFailures
            => shift' = shift]_vars
  BY <1>1
<1>3. IInv => \A s \in Shifts : /\ shift[s].failures = shift[s].refused
                                /\ shift[s].refused <= MaxFailures
  BY ConstantsAssumption DEF IInv, TypeOK, ShiftInv, ShiftRow
<1> QED
  BY <1>2, <1>3, Invariance, PTL DEF Spec, LockedOutUntilRegenerated

-----------------------------------------------------------------------------
(* What a commit writes is still open to being written: one lemma per table.  *)

LEMMA WritesOpenShifts ==
  ASSUME IInv, NEW t \in Clients, Commit(t), NEW s \in Shifts, shift'[s] # shift[s]
  PROVE  shift[s].status = "OPEN"
<1> DEFINE u == tx[t].shift
<1>0. shift \in [Shifts -> ShiftRow] /\ tx[t] \in Transaction
  BY DEF IInv, TypeOK
<1>1. CASE CommitCharge(t)
  <2>1. u \in Shifts /\ shift[u].status = "OPEN"
    BY <1>1, KindOfTransaction DEF CommitCharge, Charging
  <2>2. PICK cashPart : shift' = [shift EXCEPT ![u].cash = @ + cashPart]
    BY <1>1 DEF CommitCharge
  <2> QED
    BY <1>0, <2>1, <2>2
<1>2. CASE CommitRefund(t)
  <2>1. u # None
    BY <1>2 DEF CommitRefund
  <2>2. u \in Shifts /\ shift[u].status = "OPEN"
    BY <1>0, <1>2, <2>1, KindOfTransaction DEF CommitRefund, Refunding, Transaction
  <2>3. PICK cashPart : shift' = [shift EXCEPT ![u].cash = @ - cashPart]
    BY <1>2, <2>1 DEF CommitRefund
  <2> QED
    BY <1>0, <2>2, <2>3
<1>3. ASSUME NEW amount \in Amounts, CommitCashIn(t, amount) \/ CommitCashOut(t, amount)
      PROVE  shift[s].status = "OPEN"
  <2>1. u \in Shifts /\ shift[u].status = "OPEN"
    BY <1>3, KindOfTransaction DEF CommitCashIn, CommitCashOut, CodeTried, Moving
  <2> QED
    BY <1>0, <1>3, <2>1 DEF CommitCashIn, CommitCashOut
<1>4. CASE CommitWrongCode(t) \/ CommitRegenerate(t)
  <2>1. u \in Shifts /\ shift[u].status = "OPEN"
    BY <1>4, KindOfTransaction
    DEF CommitWrongCode, CommitRegenerate, CodeTried, Moving, Regenerating
  <2> QED
    BY <1>0, <1>4, <2>1 DEF CommitWrongCode, CommitRegenerate
<1>5. CASE CommitClose(t)
  <2>1. u \in Shifts /\ shift[u].status = "OPEN"
    BY <1>5, KindOfTransaction DEF CommitClose, Closing
  <2> QED
    BY <1>0, <1>5, <2>1 DEF CommitClose
<1> QED
  BY <1>1, <1>2, <1>3, <1>4, <1>5
  DEF Commit, CommitCreate, CommitEdit, CommitCancelSale, CommitLockedOut, CommitCancelReturn

LEMMA WritesOpenSales ==
  ASSUME IInv, NEW t \in Clients, Commit(t), NEW x \in Sales, sale'[x] # sale[x]
  PROVE  sale[x].status \in {"NONE", "DRAFT"}
<1> DEFINE y == tx[t].sale
<1>0. sale \in [Sales -> SaleRow]
  BY DEF IInv, TypeOK
<1>1. CASE CommitCreate(t)
  <2>1. y \in Sales /\ sale[y].status = "NONE"
    BY <1>1, KindOfTransaction DEF CommitCreate, Creating
  <2> QED
    BY <1>0, <1>1, <2>1 DEF CommitCreate
<1>2. CASE CommitEdit(t) \/ CommitCancelSale(t)
  <2>1. y \in Sales /\ sale[y].status = "DRAFT"
    BY <1>2, KindOfTransaction DEF CommitEdit, CommitCancelSale, ChangingDraft
  <2>2. \A z \in Sales \ {y} : sale'[z] = sale[z]
    BY <1>0, <1>2 DEF CommitEdit, CommitCancelSale
  <2> QED
    BY <2>1, <2>2
<1>3. CASE CommitCharge(t)
  <2>1. y \in Sales /\ sale[y].status = "DRAFT"
    BY <1>3, KindOfTransaction DEF CommitCharge, Charging
  <2>2. \A z \in Sales \ {y} : sale'[z] = sale[z]
    BY <1>0, <1>3 DEF CommitCharge
  <2> QED
    BY <2>1, <2>2
<1>4. CASE CommitClose(t)
  <2>1. \A z \in tx[t].sales : sale[z].status = "DRAFT"
    BY <1>4, KindOfTransaction DEF CommitClose, Closing
  <2>2. \A z \in Sales \ tx[t].sales : sale'[z] = sale[z]
    BY <1>4 DEF CommitClose
  <2> QED
    BY <2>1, <2>2
<1> QED
  BY <1>1, <1>2, <1>3, <1>4
  DEF Commit, CommitCashIn, CommitCashOut, CommitWrongCode, CommitLockedOut,
      CommitRegenerate, CommitRefund, CommitCancelReturn

LEMMA WritesApprovedReturns ==
  ASSUME IInv, NEW t \in Clients, Commit(t), NEW r \in Returns, ret'[r] # ret[r]
  PROVE  ret[r].status = "APPROVED" /\ ret'[r].value = ret[r].value
<1> DEFINE q == tx[t].ret
<1>0. ret \in [Returns -> ReturnRow] /\ tx[t] \in Transaction
  BY DEF IInv, TypeOK
<1>1. CASE CommitCharge(t)
  <2>1. q # None /\ ApplyExchange(q, tx[t].sale, tx[t].seen)
    BY <1>1 DEF CommitCharge
  <2>2. q \in Returns /\ ret[q].status = "APPROVED"
    BY <1>0, <1>1, <2>1, KindOfTransaction
    DEF CommitCharge, Charging, UsableForExchange, Transaction
  <2>3. /\ \A p \in Returns \ {q} : ret'[p] = ret[p]
        /\ ret'[q].value = ret[q].value
    BY <1>0, <2>1, <2>2 DEF ApplyExchange, ReturnRow
  <2> QED
    BY <2>2, <2>3
<1>2. CASE CommitRefund(t)
  <2>1. q \in Returns /\ ret[q].status = "APPROVED"
    BY <1>2, KindOfTransaction DEF CommitRefund, Refunding
  <2>2. /\ \A p \in Returns \ {q} : ret'[p] = ret[p]
        /\ ret'[q].value = ret[q].value
    BY <1>0, <1>2, <2>1 DEF CommitRefund, ReturnRow
  <2> QED
    BY <2>1, <2>2
<1>3. CASE CommitCancelReturn(t)
  <2>1. q \in Returns /\ ret[q].status = "APPROVED"
    BY <1>3, KindOfTransaction DEF CommitCancelReturn, CancellingReturn
  <2>2. /\ \A p \in Returns \ {q} : ret'[p] = ret[p]
        /\ ret'[q].value = ret[q].value
    BY <1>0, <1>3, <2>1 DEF CommitCancelReturn, ReturnRow
  <2> QED
    BY <2>1, <2>2
<1> QED
  BY <1>1, <1>2, <1>3
  DEF Commit, CommitCreate, CommitEdit, CommitCancelSale, CommitCashIn, CommitCashOut,
      CommitWrongCode, CommitLockedOut, CommitRegenerate, CommitClose

(* No operation is refused by the triggers that protect the ledger            *)
(* (V0.4_protect_ledger.ts): what it writes two locks after it read it is     *)
(* still open.                                                                *)
THEOREM TriggersSilent == Spec => LedgerNeverRefuses
<1>1. ASSUME IInv, Next, NEW s \in Shifts PROVE CashSessionsGuard(s)
  <2>1. CASE shift'[s] = shift[s]
    BY <2>1 DEF CashSessionsGuard
  <2>2. CASE shift'[s] # shift[s]
    <3>1. PICK t \in Clients : Commit(t)
      BY <1>1, <2>2, WhoseStep
    <3>2. shift[s].status = "OPEN"
      BY <1>1, <2>2, <3>1, WritesOpenShifts
    <3> QED
      BY <3>2 DEF CashSessionsGuard
  <2> QED
    BY <2>1, <2>2
<1>2. ASSUME IInv, Next, NEW x \in Sales PROVE SalesGuard(x)
  <2>1. CASE sale'[x] = sale[x]
    BY <2>1 DEF SalesGuard
  <2>2. CASE sale'[x] # sale[x]
    <3>1. PICK t \in Clients : Commit(t)
      BY <1>2, <2>2, WhoseStep
    <3>2. sale[x].status \in {"NONE", "DRAFT"}
      BY <1>2, <2>2, <3>1, WritesOpenSales
    <3> QED
      BY <3>2 DEF SalesGuard
  <2> QED
    BY <2>1, <2>2
<1>3. ASSUME IInv, Next, NEW r \in Returns PROVE SaleReturnsGuard(r)
  <2>1. CASE ret'[r] = ret[r]
    BY <2>1 DEF SaleReturnsGuard
  <2>2. CASE ret'[r] # ret[r]
    <3>1. PICK t \in Clients : Commit(t)
      BY <1>3, <2>2, WhoseStep
    <3>2. ret[r].status = "APPROVED" /\ ret'[r].value = ret[r].value
      BY <1>3, <2>2, <3>1, WritesApprovedReturns
    <3> QED
      BY <3>2 DEF SaleReturnsGuard
  <2> QED
    BY <2>1, <2>2
<1>4. IInv /\ [Next]_vars
      => [/\ \A s \in Shifts : CashSessionsGuard(s)
          /\ \A x \in Sales : SalesGuard(x)
          /\ \A r \in Returns : SaleReturnsGuard(r)]_vars
  BY <1>1, <1>2, <1>3
<1> QED
  BY <1>4, Invariance, PTL DEF Spec, LedgerNeverRefuses

-----------------------------------------------------------------------------
(* The account a shift keeps, as ShiftLedger sees it.                         *)
Account(s) == [open    |-> shift[s].status = "OPEN",
               balance |-> shift[s].cash,
               frozen  |-> shift[s].expected]

Accounts == [s \in Shifts |-> Account(s)]

(* A step that writes the row of one open shift and leaves it open.           *)
LEMMA PostStep ==
  ASSUME IInv, IInv', NEW s \in Shifts,
         shift[s].status = "OPEN", shift'[s].status = "OPEN",
         shift'[s].expected = shift[s].expected,
         \A u \in Shifts \ {s} : shift'[u] = shift[u]
  PROVE  Ledger!Post(s)
<1>1. shift'[s].cash \in Int
  BY ConstantsAssumption DEF IInv, TypeOK, ShiftRow
<1> DEFINE new == [Accounts EXCEPT ![s].balance = shift'[s].cash]
<1>2. Accounts' = new
  <2>1. ASSUME NEW u \in Shifts PROVE Accounts'[u] = new[u]
    BY DEF Accounts, Account
  <2>2. new = [u \in Shifts |-> new[u]] /\ Accounts' = [u \in Shifts |-> Accounts'[u]]
    BY DEF Accounts
  <2> HIDE DEF new
  <2> QED
    BY <2>1, <2>2
<1>3. Accounts[s].open /\ Accounts'[s].balance = shift'[s].cash
  BY DEF Accounts, Account
<1> QED
  BY <1>1, <1>2, <1>3 DEF Ledger!Post, Accounts, Account

LEMMA CloseStep ==
  ASSUME IInv, NEW s \in Shifts,
         shift[s].status = "OPEN", shift'[s].status = "CLOSED",
         shift'[s].cash = shift[s].cash, shift'[s].expected = shift[s].cash,
         \A u \in Shifts \ {s} : shift'[u] = shift[u]
  PROVE  Ledger!Close(s)
<1> DEFINE new == [Accounts EXCEPT ![s].open = FALSE, ![s].frozen = Accounts[s].balance]
<1>1. Accounts' = new
  <2>1. ASSUME NEW u \in Shifts PROVE Accounts'[u] = new[u]
    BY DEF Accounts, Account
  <2>2. new = [u \in Shifts |-> new[u]] /\ Accounts' = [u \in Shifts |-> Accounts'[u]]
    BY DEF Accounts
  <2> HIDE DEF new
  <2> QED
    BY <2>1, <2>2
<1>2. Accounts[s].open
  BY DEF Accounts, Account
<1> QED
  BY <1>1, <1>2 DEF Ledger!Close, Accounts, Account

(* Every commit posts to an account, closes it, or leaves it alone.           *)
LEMMA CommitPosts ==
  ASSUME IInv, IInv', NEW t \in Clients, Commit(t), shift' # shift
  PROVE  \E s \in Shifts : Ledger!Post(s) \/ Ledger!Close(s)
<1> DEFINE s == tx[t].shift
<1>0. shift \in [Shifts -> ShiftRow] /\ tx[t] \in Transaction
  BY DEF IInv, TypeOK
<1>1. CASE CommitCharge(t)
  <2>1. s \in Shifts /\ shift[s].status = "OPEN"
    BY <1>1, KindOfTransaction DEF CommitCharge, Charging
  <2>2. PICK cashPart : shift' = [shift EXCEPT ![s].cash = @ + cashPart]
    BY <1>1 DEF CommitCharge
  <2>3. /\ shift'[s].status = "OPEN" /\ shift'[s].expected = shift[s].expected
        /\ \A u \in Shifts \ {s} : shift'[u] = shift[u]
    BY <1>0, <2>1, <2>2 DEF ShiftRow
  <2> HIDE DEF s
  <2> QED
    BY <2>1, <2>3, PostStep
<1>2. CASE CommitRefund(t)
  <2>0. s # None
    BY <1>2 DEF CommitRefund
  <2>1. s \in Shifts /\ shift[s].status = "OPEN"
    BY <1>0, <1>2, <2>0, KindOfTransaction DEF CommitRefund, Refunding, Transaction
  <2>2. PICK cashPart : shift' = [shift EXCEPT ![s].cash = @ - cashPart]
    BY <1>2, <2>0 DEF CommitRefund
  <2>3. /\ shift'[s].status = "OPEN" /\ shift'[s].expected = shift[s].expected
        /\ \A u \in Shifts \ {s} : shift'[u] = shift[u]
    BY <1>0, <2>1, <2>2 DEF ShiftRow
  <2> HIDE DEF s
  <2> QED
    BY <2>1, <2>3, PostStep
<1>3. CASE \/ \E amount \in Amounts : CommitCashIn(t, amount) \/ CommitCashOut(t, amount)
           \/ CommitWrongCode(t) \/ CommitRegenerate(t)
  <2>1. s \in Shifts /\ shift[s].status = "OPEN"
    BY <1>3, KindOfTransaction
    DEF CommitCashIn, CommitCashOut, CommitWrongCode, CommitRegenerate, CodeTried, Moving,
        Regenerating
  <2>2. PICK row : /\ shift' = [shift EXCEPT ![s] = row]
                   /\ row.status = "OPEN" /\ row.expected = shift[s].expected
    <3>1. ASSUME NEW amount \in Amounts, CommitCashIn(t, amount)
          PROVE  \E row : /\ shift' = [shift EXCEPT ![s] = row]
                          /\ row.status = "OPEN" /\ row.expected = shift[s].expected
      <4> DEFINE row == [shift[s] EXCEPT !.cash = @ + amount, !.failures = 0, !.refused = 0]
      <4> WITNESS row
      <4> QED
        BY <1>0, <2>1, <3>1 DEF CommitCashIn, ShiftRow
    <3>2. ASSUME NEW amount \in Amounts, CommitCashOut(t, amount)
          PROVE  \E row : /\ shift' = [shift EXCEPT ![s] = row]
                          /\ row.status = "OPEN" /\ row.expected = shift[s].expected
      <4> DEFINE row == [shift[s] EXCEPT !.cash = @ - amount, !.failures = 0, !.refused = 0]
      <4> WITNESS row
      <4> QED
        BY <1>0, <2>1, <3>2 DEF CommitCashOut, ShiftRow
    <3>3. CASE CommitWrongCode(t)
      <4> DEFINE row == [shift[s] EXCEPT !.failures = tx[t].seen + 1, !.refused = @ + 1]
      <4> WITNESS row
      <4> QED
        BY <1>0, <2>1, <3>3 DEF CommitWrongCode, ShiftRow
    <3>4. CASE CommitRegenerate(t)
      <4> DEFINE row == [shift[s] EXCEPT !.failures = 0, !.refused = 0]
      <4> WITNESS row
      <4> QED
        BY <1>0, <2>1, <3>4 DEF CommitRegenerate, ShiftRow
    <3> QED
      BY <1>3, <3>1, <3>2, <3>3, <3>4
  <2>3. /\ shift'[s].status = "OPEN" /\ shift'[s].expected = shift[s].expected
        /\ \A u \in Shifts \ {s} : shift'[u] = shift[u]
    BY <1>0, <2>1, <2>2
  <2> HIDE DEF s
  <2> QED
    BY <2>1, <2>3, PostStep
<1>4. CASE CommitClose(t)
  <2>1. s \in Shifts /\ shift[s].status = "OPEN" /\ tx[t].read = shift[s].cash
    BY <1>4, KindOfTransaction DEF CommitClose, Closing
  <2>2. /\ shift'[s].status = "CLOSED" /\ shift'[s].expected = tx[t].read
        /\ shift'[s].cash = shift[s].cash
        /\ \A u \in Shifts \ {s} : shift'[u] = shift[u]
    BY <1>0, <1>4, <2>1 DEF CommitClose, ShiftRow
  <2> HIDE DEF s
  <2> QED
    BY <2>1, <2>2, CloseStep
<1> QED
  BY <1>1, <1>2, <1>3, <1>4
  DEF Commit, CommitCreate, CommitEdit, CommitCancelSale, CommitLockedOut, CommitCancelReturn

(* A shift is the account of ShiftLedger: it moves only while open, and its   *)
(* closing writes down the balance it has at that moment, once (close).       *)
THEOREM ImplementsLedger == Spec => LedgerSpec
<1>1. Init => Ledger!Init
  <2> SUFFICES ASSUME Init PROVE Ledger!Init
    OBVIOUS
  <2>1. ASSUME NEW s \in Shifts
        PROVE  shift[s].status = "OPEN" /\ shift[s].cash \in Int /\ shift[s].expected = None
    BY DEF Init
  <2>2. ASSUME NEW s \in Shifts
        PROVE  Accounts[s].open /\ Accounts[s].balance \in Int /\ Accounts[s].frozen = None
    BY <2>1 DEF Accounts, Account
  <2> QED
    BY <2>2 DEF Ledger!Init, Accounts, Account
<1>2. IInv /\ IInv' /\ [Next]_vars => [Ledger!Next]_Accounts
  <2> SUFFICES ASSUME IInv, IInv', [Next]_vars
               PROVE  Ledger!Next \/ Accounts' = Accounts
    OBVIOUS
  <2>1. CASE shift' = shift
    BY <2>1 DEF Accounts, Account
  <2>2. CASE shift' # shift
    <3>1. PICK t \in Clients : Commit(t)
      BY <2>2, WhoseStep DEF vars
    <3> QED
      BY <2>2, <3>1, CommitPosts DEF Ledger!Next
  <2> QED
    BY <2>1, <2>2
<1> QED
  BY <1>1, <1>2, Invariance, PTL DEF Spec, LedgerSpec, Ledger!Spec, Accounts, Account

=============================================================================
