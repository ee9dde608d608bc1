------------------------------ MODULE CashShift ------------------------------
(***************************************************************************)
(* A cashier's shift (cash-session) and everything that moves its money:   *)
(* draft sales charged in it, manual cash movements guarded by the code of *)
(* the day, refunds of returns, and its closing.                           *)
(*                                                                         *)
(* Every operation is one Postgres transaction at READ COMMITTED that      *)
(* takes row locks (SELECT ... FOR UPDATE) one after another and writes at *)
(* the end.  A transaction is modelled by one action per lock it waits for *)
(* and one action that commits: between two of them any other transaction  *)
(* may run, and what it read under a lock is kept in `tx` until then.      *)
(* The first lock and the start of the transaction are the same action:    *)
(* a transaction that holds nothing blocks nobody.  A refusal by a check   *)
(* made right after that first lock changes nothing and has no action.     *)
(***************************************************************************)
EXTENDS Integers, FiniteSets

CONSTANTS
    Shifts,       \* shifts, each already opened by CashSessionService.open
    Sales,        \* identities of the sales that may be created
    Returns,      \* returns of earlier sales, already approved
    Clients,      \* requests in flight at the same time
    MaxAmount,    \* bound of a sale's total, a return's value, a movement
    MaxCash,      \* bound of the cash a shift may accumulate or owe
    MaxFailures,  \* MAX_CASH_CODE_FAILURES
    None          \* no sale, no return, no shift, not closed yet

ASSUME ConstantsAssumption ==
    /\ MaxAmount \in Nat \ {0}
    /\ MaxCash \in Nat
    /\ MaxFailures \in Nat \ {0}
    /\ None \notin Sales \cup Returns \cup Shifts \cup Int

VARIABLES
    shift,  \* rows of cash_sessions, with the cash their committed rows add up to
    sale,   \* rows of sales, with what their lines add up to
    ret,    \* rows of sale_returns
    tx      \* the transaction each client has open

vars == <<shift, sale, ret, tx>>

Amounts == 1 .. MaxAmount
Totals  == 0 .. MaxAmount

-----------------------------------------------------------------------------
(* Rows *)

ShiftRow ==
    [status   : {"OPEN", "CLOSED"},
     cash     : -MaxCash .. MaxCash,     \* what calculateSessionTotals returns now
     expected : Int \cup {None},         \* expectedAmount, frozen by the closing
     failures : 0 .. MaxFailures,        \* movementCodeFailures
     refused  : Nat]                     \* history: the codes refused in a row

SaleRow ==
    [status : {"NONE", "DRAFT", "COMPLETED", "CANCELLED", "DISCARDED"},
     shift  : Shifts \cup {None},
     total  : Totals,
     paid   : Totals,                    \* sum of its sale_payments
     credit : Totals]                    \* returnCredit

ReturnRow ==
    [status      : {"APPROVED", "COMPLETED", "CANCELLED"},
     resolution  : {"REFUND", "EXCHANGE", "PARTIAL_REFUND"},
     value       : Amounts,              \* totalReturned
     replacement : Sales \cup {None},    \* replacementSaleId
     refunded    : Totals]               \* refundAmount

(* What a client's transaction is doing: the operation, what it waits for    *)
(* next, the rows it is about, what it read (`read`: a total, the cash in the *)
(* drawer or an amount to refund; `seen`: the failures or the credit) and the *)
(* rows it holds locked.                                                      *)
Transaction ==
    [op     : {"none", "create", "edit", "charge", "cancelSale", "move",
               "regenerate", "refund", "cancelReturn", "close"},
     at     : {"idle", "needReturn", "needShift", "commit"},
     sale   : Sales \cup {None},
     ret    : Returns \cup {None},
     shift  : Shifts \cup {None},
     read   : Int,
     seen   : Nat,
     sales  : SUBSET Sales,
     rets   : SUBSET Returns,
     shifts : SUBSET Shifts]

NoTransaction ==
    [op |-> "none", at |-> "idle", sale |-> None, ret |-> None, shift |-> None,
     read |-> 0, seen |-> 0, sales |-> {}, rets |-> {}, shifts |-> {}]

TypeOK ==
    /\ shift \in [Shifts -> ShiftRow]
    /\ sale \in [Sales -> SaleRow]
    /\ ret \in [Returns -> ReturnRow]
    /\ tx \in [Clients -> Transaction]

Init ==
    /\ shift \in [Shifts -> {[status |-> "OPEN", cash |-> c, expected |-> None,
                              failures |-> 0, refused |-> 0] : c \in {0, 1} \cap (0 .. MaxCash)}]
    /\ sale = [x \in Sales |-> [status |-> "NONE", shift |-> None, total |-> 0,
                                paid |-> 0, credit |-> 0]]
    /\ ret \in [Returns -> {[status |-> "APPROVED", resolution |-> k, value |-> v,
                             replacement |-> None, refunded |-> 0]
                              : k \in {"REFUND", "EXCHANGE"}, v \in Amounts}]
    /\ tx = [t \in Clients |-> NoTransaction]

-----------------------------------------------------------------------------
(* Row locks *)

Idle(t) == tx[t].at = "idle"

SaleFree(x)   == \A u \in Clients : x \notin tx[u].sales
ReturnFree(r) == \A u \in Clients : r \notin tx[u].rets
ShiftFree(s)  == \A u \in Clients : s \notin tx[u].shifts

Smaller(a, b) == IF a <= b THEN a ELSE b

(* Commit and rollback alike give every lock back. *)
Finish(t) == tx' = [tx EXCEPT ![t] = NoTransaction]

Start(t, fields) == tx' = [tx EXCEPT ![t] = fields]

(* lockOpen / lockOpenForClosing: wait for the row, then require it open. *)
LockOpenShift(s) ==
    /\ ShiftFree(s)
    /\ shift[s].status = "OPEN"

-----------------------------------------------------------------------------
(* SaleService.create *)

\* The only lock is the shift's; the row to insert is nobody else's until then.
LockForCreate(t, x, s) ==
    /\ Idle(t)
    /\ SaleFree(x)
    /\ sale[x].status = "NONE"
    /\ LockOpenShift(s)
    /\ Start(t, [NoTransaction EXCEPT !.op = "create", !.at = "commit", !.sale = x,
                                      !.shift = s, !.sales = {x}, !.shifts = {s}])
    /\ UNCHANGED <<shift, sale, ret>>

CommitCreate(t) ==
    /\ tx[t].op = "create" /\ tx[t].at = "commit"
    /\ sale' = [sale EXCEPT ![tx[t].sale].status = "DRAFT",
                            ![tx[t].sale].shift = tx[t].shift]
    /\ Finish(t)
    /\ UNCHANGED <<shift, ret>>

(* SaleService.addItem, updateItemQuantity, removeItem: they lock the draft   *)
(* only, the shift is not looked at.  What the lines add up to is any total.  *)

\* Faulty variant: the draft is edited without locking it.
EditWithoutLock(t, x) ==
    /\ Idle(t)
    /\ sale[x].status = "DRAFT"
    /\ Start(t, [NoTransaction EXCEPT !.op = "edit", !.at = "commit", !.sale = x])
    /\ UNCHANGED <<shift, sale, ret>>

LockForEdit(t, x) ==
    /\ Idle(t)
    /\ SaleFree(x)
    /\ sale[x].status = "DRAFT"
    /\ Start(t, [NoTransaction EXCEPT !.op = "edit", !.at = "commit",
                                      !.sale = x, !.sales = {x}])
    /\ UNCHANGED <<shift, sale, ret>>

CommitEdit(t) ==
    /\ tx[t].op = "edit" /\ tx[t].at = "commit"
    /\ \E total \in Totals : sale' = [sale EXCEPT ![tx[t].sale].total = total]
    /\ Finish(t)
    /\ UNCHANGED <<shift, ret>>

(* SaleService.cancel *)

LockForCancelSale(t, x) ==
    /\ Idle(t)
    /\ SaleFree(x)
    /\ sale[x].status = "DRAFT"
    /\ Start(t, [NoTransaction EXCEPT !.op = "cancelSale", !.at = "commit",
                                      !.sale = x, !.sales = {x}])
    /\ UNCHANGED <<shift, sale, ret>>

CommitCancelSale(t) ==
    /\ tx[t].op = "cancelSale" /\ tx[t].at = "commit"
    /\ sale' = [sale EXCEPT ![tx[t].sale].status = "CANCELLED"]
    /\ Finish(t)
    /\ UNCHANGED <<shift, ret>>

-----------------------------------------------------------------------------
(* SalePaymentService.complete: sale, then the return of an exchange, then    *)
(* the shift the sale was created in.  Asking again for a sale already        *)
(* charged returns it as it is and changes nothing.                           *)

LockForCharge(t, x, r) ==
    /\ Idle(t)
    /\ SaleFree(x)
    /\ sale[x].status = "DRAFT"
    /\ sale[x].total > 0
    /\ Start(t, [NoTransaction EXCEPT
                   !.op = "charge",
                   !.at = IF r = None THEN "needShift" ELSE "needReturn",
                   !.sale = x, !.ret = r, !.shift = sale[x].shift,
                   !.read = sale[x].total, !.sales = {x}])
    /\ UNCHANGED <<shift, sale, ret>>

\* lockForExchange refuses a return that is not one, or was already used.
UsableForExchange(r) ==
    /\ ret[r].status = "APPROVED"
    /\ ret[r].replacement = None
    /\ ret[r].resolution = "EXCHANGE"

\* Faulty variant: the return is read without locking it.
ExchangeWithoutLock(t) ==
    /\ tx[t].op = "charge" /\ tx[t].at = "needReturn"
    /\ UsableForExchange(tx[t].ret)
    /\ tx' = [tx EXCEPT ![t].at = "needShift",
                        ![t].seen = Smaller(ret[tx[t].ret].value, tx[t].read)]
    /\ UNCHANGED <<shift, sale, ret>>

LockForExchange(t) ==
    /\ tx[t].op = "charge" /\ tx[t].at = "needReturn"
    /\ ReturnFree(tx[t].ret)
    /\ UsableForExchange(tx[t].ret)
    /\ tx' = [tx EXCEPT ![t].at = "needShift", ![t].rets = {tx[t].ret},
                        ![t].seen = Smaller(ret[tx[t].ret].value, tx[t].read)]
    /\ UNCHANGED <<shift, sale, ret>>

\* Faulty variant: the shift is locked and its status is not looked at again.
ChargeWithoutRecheck(t) ==
    /\ tx[t].op = "charge" /\ tx[t].at = "needShift"
    /\ ShiftFree(tx[t].shift)
    /\ tx' = [tx EXCEPT ![t].at = "commit", ![t].shifts = {tx[t].shift}]
    /\ UNCHANGED <<shift, sale, ret>>

LockShiftToCharge(t) ==
    /\ tx[t].op = "charge" /\ tx[t].at = "needShift"
    /\ LockOpenShift(tx[t].shift)
    /\ tx' = [tx EXCEPT ![t].at = "commit", ![t].shifts = {tx[t].shift}]
    /\ UNCHANGED <<shift, sale, ret>>

\* applyExchange: the return ends, or waits for the difference in money.
ApplyExchange(r, x, credit) ==
    IF credit < ret[r].value
      THEN ret' = [ret EXCEPT ![r].replacement = x, ![r].resolution = "PARTIAL_REFUND"]
      ELSE ret' = [ret EXCEPT ![r].replacement = x, ![r].status = "COMPLETED"]

\* The payments add up to the total less the credit; part of them is cash.
CommitCharge(t) ==
    LET x      == tx[t].sale
        s      == tx[t].shift
        credit == tx[t].seen
        due    == tx[t].read - credit
    IN  /\ tx[t].op = "charge" /\ tx[t].at = "commit"
        /\ \E cashPart \in 0 .. due :
             /\ shift[s].cash + cashPart <= MaxCash
             /\ shift' = [shift EXCEPT ![s].cash = @ + cashPart]
        /\ sale' = [sale EXCEPT ![x].status = "COMPLETED", ![x].paid = due,
                                ![x].credit = credit]
        /\ IF tx[t].ret = None THEN UNCHANGED ret
                               ELSE ApplyExchange(tx[t].ret, x, credit)
        /\ Finish(t)

-----------------------------------------------------------------------------
(* CashMovementService.register *)

\* Faulty variant: the cash is added up before the shift is locked.
MoveWithoutLock(t, s) ==
    /\ Idle(t)
    /\ shift[s].status = "OPEN"
    /\ Start(t, [NoTransaction EXCEPT !.op = "move", !.at = "commit", !.shift = s,
                                      !.read = shift[s].cash,
                                      !.seen = shift[s].failures])
    /\ UNCHANGED <<shift, sale, ret>>

\* lockOpen, then expectedCashOf and the failures, read under that lock.
LockForMove(t, s) ==
    /\ Idle(t)
    /\ LockOpenShift(s)
    /\ Start(t, [NoTransaction EXCEPT !.op = "move", !.at = "commit", !.shift = s,
                                      !.read = shift[s].cash,
                                      !.seen = shift[s].failures, !.shifts = {s}])
    /\ UNCHANGED <<shift, sale, ret>>

\* Faulty variant: the limit of failures is not checked.
CodeAlwaysTried(t) == tx[t].op = "move" /\ tx[t].at = "commit"

\* verifyMovementCode: no code is tried once the shift is locked by failures.
CodeTried(t) == tx[t].op = "move" /\ tx[t].at = "commit" /\ tx[t].seen < MaxFailures

CommitCashIn(t, amount) ==
    LET s == tx[t].shift
    IN  /\ CodeTried(t)
        /\ shift[s].cash + amount <= MaxCash
        /\ shift' = [shift EXCEPT ![s].cash = @ + amount, ![s].failures = 0,
                                 ![s].refused = 0]
        /\ Finish(t)
        /\ UNCHANGED <<sale, ret>>

CommitCashOut(t, amount) ==
    LET s == tx[t].shift
    IN  /\ CodeTried(t)
        /\ amount <= tx[t].read
        /\ shift' = [shift EXCEPT ![s].cash = @ - amount, ![s].failures = 0,
                                 ![s].refused = 0]
        /\ Finish(t)
        /\ UNCHANGED <<sale, ret>>

\* Faulty variant: the error rolls back the attempt that it refuses.
WrongCodeRolledBack(t) ==
    /\ CodeTried(t)
    /\ shift' = [shift EXCEPT ![tx[t].shift].refused = @ + 1]
    /\ Finish(t)
    /\ UNCHANGED <<sale, ret>>

\* The refused attempt is counted and committed; the error comes afterwards.
CommitWrongCode(t) ==
    /\ CodeTried(t)
    /\ shift' = [shift EXCEPT ![tx[t].shift].failures = tx[t].seen + 1,
                              ![tx[t].shift].refused = @ + 1]
    /\ Finish(t)
    /\ UNCHANGED <<sale, ret>>

\* LOCKED: the movement is refused and no attempt is counted.
CommitLockedOut(t) ==
    /\ tx[t].op = "move" /\ tx[t].at = "commit" /\ tx[t].seen = MaxFailures
    /\ Finish(t)
    /\ UNCHANGED <<shift, sale, ret>>

(* CashSessionService.regenerateMovementCode *)

LockForRegenerate(t, s) ==
    /\ Idle(t)
    /\ LockOpenShift(s)
    /\ Start(t, [NoTransaction EXCEPT !.op = "regenerate", !.at = "commit",
                                      !.shift = s, !.shifts = {s}])
    /\ UNCHANGED <<shift, sale, ret>>

CommitRegenerate(t) ==
    /\ tx[t].op = "regenerate" /\ tx[t].at = "commit"
    /\ shift' = [shift EXCEPT ![tx[t].shift].failures = 0, ![tx[t].shift].refused = 0]
    /\ Finish(t)
    /\ UNCHANGED <<sale, ret>>

-----------------------------------------------------------------------------
(* SaleReturnService.completeRefund: the return, then the shift (if any) the  *)
(* cash comes out of.  Nothing compares the refund with the cash in it.       *)

\* Faulty variant: the credit the exchange already used is not taken off.
AmountIgnoringCredit(r) == ret[r].value

\* amountToRefund
AmountToRefund(r) ==
    IF ret[r].resolution = "REFUND"
      THEN ret[r].value
      ELSE ret[r].value - sale[ret[r].replacement].credit

\* Faulty variant: the shift is locked before the return.
RefundShiftFirst(t, r, s) ==
    /\ Idle(t)
    /\ s # None
    /\ LockOpenShift(s)
    /\ Start(t, [NoTransaction EXCEPT !.op = "refund", !.at = "needReturn",
                                      !.ret = r, !.shift = s, !.shifts = {s}])
    /\ UNCHANGED <<shift, sale, ret>>

LockForRefund(t, r, s) ==
    /\ Idle(t)
    /\ ReturnFree(r)
    /\ ret[r].status = "APPROVED"
    /\ ret[r].resolution # "EXCHANGE"
    /\ Start(t, [NoTransaction EXCEPT
                   !.op = "refund",
                   !.at = IF s = None THEN "commit" ELSE "needShift",
                   !.ret = r, !.shift = s, !.read = AmountToRefund(r), !.rets = {r}])
    /\ UNCHANGED <<shift, sale, ret>>

\* Faulty variant: cash is paid out of a shift whoever closed it.
RefundFromAnyShift(t) ==
    /\ tx[t].op = "refund" /\ tx[t].at = "needShift"
    /\ ShiftFree(tx[t].shift)
    /\ tx' = [tx EXCEPT ![t].at = "commit", ![t].shifts = {tx[t].shift}]
    /\ UNCHANGED <<shift, sale, ret>>

LockShiftToRefund(t) ==
    /\ tx[t].op = "refund" /\ tx[t].at = "needShift"
    /\ LockOpenShift(tx[t].shift)
    /\ tx' = [tx EXCEPT ![t].at = "commit", ![t].shifts = {tx[t].shift}]
    /\ UNCHANGED <<shift, sale, ret>>

CommitRefund(t) ==
    LET s == tx[t].shift
    IN  /\ tx[t].op = "refund" /\ tx[t].at = "commit"
        /\ IF s = None
             THEN UNCHANGED shift
             ELSE \E cashPart \in 0 .. tx[t].read :
                    /\ -MaxCash <= shift[s].cash - cashPart
                    /\ shift' = [shift EXCEPT ![s].cash = @ - cashPart]
        /\ ret' = [ret EXCEPT ![tx[t].ret].status = "COMPLETED",
                              ![tx[t].ret].refunded = tx[t].read]
        /\ Finish(t)
        /\ UNCHANGED sale

(* SaleReturnService.cancel *)

LockForCancelReturn(t, r) ==
    /\ Idle(t)
    /\ ReturnFree(r)
    /\ ret[r].status = "APPROVED"
    /\ ret[r].replacement = None
    /\ Start(t, [NoTransaction EXCEPT !.op = "cancelReturn", !.at = "commit",
                                      !.ret = r, !.rets = {r}])
    /\ UNCHANGED <<shift, sale, ret>>

CommitCancelReturn(t) ==
    /\ tx[t].op = "cancelReturn" /\ tx[t].at = "commit"
    /\ ret' = [ret EXCEPT ![tx[t].ret].status = "CANCELLED"]
    /\ Finish(t)
    /\ UNCHANGED <<shift, sale>>

-----------------------------------------------------------------------------
(* CashSessionService.close *)

DraftsOf(s) == {x \in Sales : sale[x].status = "DRAFT" /\ sale[x].shift = s}

\* lockDraftsBeforeSession: NOWAIT, so one draft in use refuses the closing.
LockDraftsToClose(t, s) ==
    /\ Idle(t)
    /\ \A x \in DraftsOf(s) : SaleFree(x)
    /\ Start(t, [NoTransaction EXCEPT !.op = "close", !.at = "needShift",
                                      !.shift = s, !.sales = DraftsOf(s)])
    /\ UNCHANGED <<shift, sale, ret>>

\* Faulty variant: the summary is made without holding the shift.
CloseWithoutLock(t) ==
    /\ tx[t].op = "close" /\ tx[t].at = "needShift"
    /\ LockOpenShift(tx[t].shift)
    /\ tx' = [tx EXCEPT ![t].at = "commit", ![t].read = shift[tx[t].shift].cash]
    /\ UNCHANGED <<shift, sale, ret>>

\* lockOpenForClosing, then buildSummary under that lock.
LockShiftToClose(t) ==
    /\ tx[t].op = "close" /\ tx[t].at = "needShift"
    /\ LockOpenShift(tx[t].shift)
    /\ tx' = [tx EXCEPT ![t].at = "commit", ![t].shifts = {tx[t].shift},
                        ![t].read = shift[tx[t].shift].cash]
    /\ UNCHANGED <<shift, sale, ret>>

\* Freezes what was read and deletes the drafts locked at the beginning.
CommitClose(t) ==
    LET s == tx[t].shift
    IN  /\ tx[t].op = "close" /\ tx[t].at = "commit"
        /\ shift' = [shift EXCEPT ![s].status = "CLOSED", ![s].expected = tx[t].read]
        /\ sale' = [x \in Sales |-> IF x \in tx[t].sales
                                      THEN [sale[x] EXCEPT !.status = "DISCARDED"]
                                      ELSE sale[x]]
        /\ Finish(t)
        /\ UNCHANGED ret

-----------------------------------------------------------------------------
(* The ways a transaction ends without writing *)

\* Faulty variant: whoever waits for a shift waits for it to open again.
RefuseReturnOnly(t) ==
    /\ tx[t].at = "needReturn"
    /\ ReturnFree(tx[t].ret)
    /\ ~UsableForExchange(tx[t].ret)
    /\ Finish(t)
    /\ UNCHANGED <<shift, sale, ret>>

\* A later lock found the return unusable or the shift closed: Conflict.
Refuse(t) ==
    /\ \/ /\ tx[t].at = "needReturn"
          /\ ReturnFree(tx[t].ret)
          /\ ~UsableForExchange(tx[t].ret)
       \/ /\ tx[t].at = "needShift"
          /\ ShiftFree(tx[t].shift)
          /\ shift[tx[t].shift].status = "CLOSED"
    /\ Finish(t)
    /\ UNCHANGED <<shift, sale, ret>>

\* A check under the locks fails, or the connection is lost: rollback.
Abort(t) ==
    /\ ~Idle(t)
    /\ Finish(t)
    /\ UNCHANGED <<shift, sale, ret>>

-----------------------------------------------------------------------------

Begin(t) ==
    \/ \E x \in Sales, s \in Shifts : LockForCreate(t, x, s)
    \/ \E x \in Sales : LockForEdit(t, x) \/ LockForCancelSale(t, x)
    \/ \E x \in Sales, r \in Returns \cup {None} : LockForCharge(t, x, r)
    \/ \E s \in Shifts : LockForMove(t, s) \/ LockForRegenerate(t, s)
                         \/ LockDraftsToClose(t, s)
    \/ \E r \in Returns, s \in Shifts \cup {None} : LockForRefund(t, r, s)
    \/ \E r \in Returns : LockForCancelReturn(t, r)

NextLock(t) ==
    \/ LockForExchange(t)
    \/ LockShiftToCharge(t)
    \/ LockShiftToRefund(t)
    \/ LockShiftToClose(t)
    \/ Refuse(t)

Commit(t) ==
    \/ CommitCreate(t) \/ CommitEdit(t) \/ CommitCancelSale(t)
    \/ CommitCharge(t)
    \/ \E amount \in Amounts : CommitCashIn(t, amount) \/ CommitCashOut(t, amount)
    \/ CommitWrongCode(t) \/ CommitLockedOut(t)
    \/ CommitRegenerate(t)
    \/ CommitRefund(t) \/ CommitCancelReturn(t)
    \/ CommitClose(t)

(* The triggers that protect the ledger (V0.4_protect_ledger.ts): whether     *)
(* each lets a step write the row.  They refuse any other write, whoever      *)
(* makes it.                                                                  *)

\* A closed shift is not edited (`cash` is not of the row: it is added up).
CashSessionsGuard(s) ==
    shift[s].status = "CLOSED" =>
      [shift'[s] EXCEPT !.cash = 0] = [shift[s] EXCEPT !.cash = 0]

\* A charged or cancelled sale, lines included, stays as it is.
SalesGuard(x) ==
    sale[x].status \in {"COMPLETED", "CANCELLED"} => sale'[x] = sale[x]

\* A finished or cancelled return stays too; its lines, once it is approved.
SaleReturnsGuard(r) ==
    /\ ret[r].status \in {"COMPLETED", "CANCELLED"} => ret'[r] = ret[r]
    /\ ret'[r].value = ret[r].value

-----------------------------------------------------------------------------

Next == \E t \in Clients : Begin(t) \/ NextLock(t) \/ Commit(t) \/ Abort(t)

Spec == Init /\ [][Next]_vars

\* Postgres grants a row lock in the order it was asked for, so a transaction
\* that waits for one gets it in the end (SF); once it holds what it needs it
\* does not stop by itself (WF).  Nothing promises a rollback.
Fairness == \A t \in Clients : WF_vars(Commit(t)) /\ SF_vars(NextLock(t))

FairSpec == Spec /\ Fairness

-----------------------------------------------------------------------------
(* What a shift promises whoever reads the books: see ShiftLedger. *)

Ledger == INSTANCE ShiftLedger
            WITH ledger <- [s \in Shifts |-> [open    |-> shift[s].status = "OPEN",
                                              balance |-> shift[s].cash,
                                              frozen  |-> shift[s].expected]]

LedgerSpec == Ledger!Spec

-----------------------------------------------------------------------------
(* Properties *)

(* The expectedAmount a closing freezes (cash-session.service.ts, close) is   *)
(* what the committed payments, movements and refunds of that shift add up    *)
(* to, and stays so: no charge, movement or refund slips in between the       *)
(* summary and the closing, or after it.                                      *)
FrozenExpectedMatchesLedger ==
    \A s \in Shifts : shift[s].status = "CLOSED" => shift[s].expected = shift[s].cash

(* A sale is charged only while the shift it belongs to is open, also when    *)
(* it is paid without cash (SalePaymentService.complete locks the shift to    *)
(* "revalidar que siga abierto").                                             *)
ChargedOnlyInOpenShift ==
    [][\A x \in Sales :
         sale[x].status # "COMPLETED" /\ sale'[x].status = "COMPLETED"
           => shift[sale[x].shift].status = "OPEN"]_vars

(* Two withdrawals in a row are never both granted against the same cash:     *)
(* a cash-out (the only step of a movement that lowers the cash) never        *)
(* leaves the drawer owing money.                                             *)
CashOutNeverOverdraws ==
    [][\A t \in Clients, s \in Shifts :
         tx[t].op = "move" /\ tx'[t].op = "none" /\ shift'[s].cash < shift[s].cash
           => shift'[s].cash >= 0]_vars

(* A charged sale was paid for exactly what its lines add up to, less the     *)
(* credit of the exchange: no line changes between the total a charge reads   *)
(* and the payments it saves.                                                 *)
CompletedSalePaidInFull ==
    \A x \in Sales :
      sale[x].status = "COMPLETED" => sale[x].paid + sale[x].credit = sale[x].total

(* The credit of a return pays for one sale at most, and a sale's credit is   *)
(* backed by the return that names it (applyExchange).                        *)
CreditBackedByReturn ==
    \A x \in Sales :
      sale[x].credit > 0 =>
        \E r \in Returns : /\ ret[r].replacement = x
                           /\ ret[r].status # "CANCELLED"
                           /\ sale[x].credit <= ret[r].value

(* The customer of a finished return got its whole value, once: as credit of  *)
(* the replacement sale, as money, or part and part.                          *)
ReturnSettledExactly ==
    \A r \in Returns :
      ret[r].status = "COMPLETED" =>
        ret[r].value = ret[r].refunded + (IF ret[r].replacement = None THEN 0
                                            ELSE sale[ret[r].replacement].credit)

(* t waits for a row that u holds. *)
WaitsFor(t, u) ==
    \/ tx[t].at = "needReturn" /\ tx[t].ret \in tx[u].rets
    \/ tx[t].at = "needShift" /\ tx[t].shift \in tx[u].shifts

(* Sale, then return, then shift: with that order of locks no set of          *)
(* transactions waits for itself ("asi nunca se cruzan dos operaciones").     *)
NoLockCycle ==
    \A S \in SUBSET Clients :
      S # {} => \E t \in S : \A u \in S : ~WaitsFor(t, u)

(* Five wrong codes in a row lock the movements of a shift.  Every refused    *)
(* attempt counts, though its movement is refused and others are under way,   *)
(* so no more than five are ever tried; and from then on no movement changes  *)
(* the shift until the administrator has made a new code.                     *)
LockedOutUntilRegenerated ==
    /\ [](\A s \in Shifts : /\ shift[s].failures = shift[s].refused
                            /\ shift[s].refused <= MaxFailures)
    /\ [][\A t \in Clients :
            /\ tx[t].op = "move" /\ tx[t].at = "commit" /\ tx'[t].op = "none"
            /\ shift[tx[t].shift].failures = MaxFailures
            => shift' = shift]_vars

(* The services never run into the triggers of the ledger: what a charge, a   *)
(* cancellation, a refund or a closing writes when it commits, two locks      *)
(* after it read, is still open to being written (V0.4_protect_ledger.ts).    *)
LedgerNeverRefuses ==
    [][/\ \A s \in Shifts : CashSessionsGuard(s)
       /\ \A x \in Sales : SalesGuard(x)
       /\ \A r \in Returns : SaleReturnsGuard(r)]_vars

(* Every transaction ends: it commits, or is refused.                         *)
RequestsFinish == \A t \in Clients : ~Idle(t) ~> Idle(t)

(* "Los borradores de un turno cerrado ya se borraron: son cero"              *)
(* (buildSummary): no draft belongs to a closed shift.                        *)
NoDraftOnClosedShift ==
    \A s \in Shifts : shift[s].status = "CLOSED" => DraftsOf(s) = {}

-----------------------------------------------------------------------------
(* The inductive invariant behind the safety properties: CashShift_proofs.     *)

(* What is known of the rows a transaction holds, by operation.  A row it      *)
(* holds is the row it read: that is what the locks are for.                   *)

Creating(v) ==
    /\ v.op = "create" /\ v.at = "commit"
    /\ v.sale \in Sales /\ v.shift \in Shifts
    /\ v.sales = {v.sale} /\ v.rets = {} /\ v.shifts = {v.shift}
    /\ sale[v.sale].status = "NONE"
    /\ shift[v.shift].status = "OPEN"

ChangingDraft(v) ==
    /\ v.op \in {"edit", "cancelSale"} /\ v.at = "commit"
    /\ v.sale \in Sales
    /\ v.sales = {v.sale} /\ v.rets = {} /\ v.shifts = {}
    /\ sale[v.sale].status = "DRAFT"

Charging(v) ==
    /\ v.op = "charge" /\ v.at \in {"needReturn", "needShift", "commit"}
    /\ v.sale \in Sales /\ v.shift \in Shifts
    /\ v.at = "needReturn" => v.ret # None
    /\ v.sales = {v.sale}
    /\ v.rets = IF v.ret = None \/ v.at = "needReturn" THEN {} ELSE {v.ret}
    /\ v.shifts = IF v.at = "commit" THEN {v.shift} ELSE {}
    /\ sale[v.sale].status = "DRAFT" /\ sale[v.sale].shift = v.shift
    /\ v.read = sale[v.sale].total /\ v.read > 0
    /\ IF v.rets = {} THEN v.seen = 0
         ELSE /\ UsableForExchange(v.ret)
              /\ v.seen = Smaller(ret[v.ret].value, v.read)
    /\ v.at = "commit" => shift[v.shift].status = "OPEN"

Moving(v) ==
    /\ v.op = "move" /\ v.at = "commit"
    /\ v.shift \in Shifts
    /\ v.sales = {} /\ v.rets = {} /\ v.shifts = {v.shift}
    /\ shift[v.shift].status = "OPEN"
    /\ v.read = shift[v.shift].cash /\ v.seen = shift[v.shift].failures

Regenerating(v) ==
    /\ v.op = "regenerate" /\ v.at = "commit"
    /\ v.shift \in Shifts
    /\ v.sales = {} /\ v.rets = {} /\ v.shifts = {v.shift}
    /\ shift[v.shift].status = "OPEN"

Refunding(v) ==
    /\ v.op = "refund" /\ v.at \in {"needShift", "commit"}
    /\ v.ret \in Returns
    /\ v.at = "needShift" => v.shift # None
    /\ v.sales = {} /\ v.rets = {v.ret}
    /\ v.shifts = IF v.at = "commit" /\ v.shift # None THEN {v.shift} ELSE {}
    /\ ret[v.ret].status = "APPROVED" /\ ret[v.ret].resolution # "EXCHANGE"
    /\ v.read = AmountToRefund(v.ret)
    /\ v.shifts # {} => shift[v.shift].status = "OPEN"

CancellingReturn(v) ==
    /\ v.op = "cancelReturn" /\ v.at = "commit"
    /\ v.ret \in Returns
    /\ v.sales = {} /\ v.rets = {v.ret} /\ v.shifts = {}
    /\ ret[v.ret].status = "APPROVED" /\ ret[v.ret].replacement = None

Closing(v) ==
    /\ v.op = "close" /\ v.at \in {"needShift", "commit"}
    /\ v.shift \in Shifts
    /\ \A x \in v.sales : sale[x].status = "DRAFT"
    /\ v.rets = {}
    /\ IF v.at = "needShift" THEN v.shifts = {}
         ELSE /\ v.shifts = {v.shift}
              /\ shift[v.shift].status = "OPEN"
              /\ v.read = shift[v.shift].cash

TransactionInv(v) ==
    \/ v = NoTransaction
    \/ Creating(v) \/ ChangingDraft(v) \/ Charging(v) \/ Moving(v)
    \/ Regenerating(v) \/ Refunding(v) \/ CancellingReturn(v) \/ Closing(v)

LocksExclusive ==
    \A t, u \in Clients :
      t # u => /\ tx[t].sales \cap tx[u].sales = {}
               /\ tx[t].rets \cap tx[u].rets = {}
               /\ tx[t].shifts \cap tx[u].shifts = {}

ShiftInv(s) ==
    /\ shift[s].status = "OPEN" => shift[s].expected = None
    /\ shift[s].status = "CLOSED" => shift[s].expected = shift[s].cash
    /\ shift[s].failures = shift[s].refused

SaleInv(x) ==
    /\ sale[x].status = "DRAFT" => sale[x].shift # None
    /\ sale[x].status = "COMPLETED" => sale[x].paid + sale[x].credit = sale[x].total
    /\ sale[x].status # "COMPLETED" => sale[x].credit = 0

(* A replacement is a charged sale, paid with credit of the return.            *)
ReturnInv(r) ==
    /\ ret[r].replacement # None =>
         /\ ret[r].resolution # "REFUND"
         /\ ret[r].status # "CANCELLED"
         /\ sale[ret[r].replacement].status = "COMPLETED"
         /\ sale[ret[r].replacement].credit <= ret[r].value
    /\ ret[r].resolution = "PARTIAL_REFUND" => ret[r].replacement # None
    /\ ret[r].status = "COMPLETED" =>
         ret[r].value = ret[r].refunded + (IF ret[r].replacement = None THEN 0
                                             ELSE sale[ret[r].replacement].credit)
    /\ ret[r].status = "APPROVED" => ret[r].refunded = 0

IInv ==
    /\ TypeOK
    /\ \A t \in Clients : TransactionInv(tx[t])
    /\ LocksExclusive
    /\ \A s \in Shifts : ShiftInv(s)
    /\ \A x \in Sales : SaleInv(x)
    /\ \A r \in Returns : ReturnInv(r)
    /\ CreditBackedByReturn

=============================================================================
