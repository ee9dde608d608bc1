-------------------------------- MODULE Stock --------------------------------
(***************************************************************************)
(* The stock of a store and of the warehouse that restocks it: balances    *)
(* (inventory-balance), what documents hold apart without moving it        *)
(* (inventory-reservation), and the movements that change a balance        *)
(* (inventory-movement), as draft sales are built, charged or discarded    *)
(* (sale, sale-payment) and as units are moved by hand.                    *)
(*                                                                         *)
(* Every operation is a Postgres transaction at READ COMMITTED: what it    *)
(* writes is kept in `tx` and seen by nobody until it commits, and reading *)
(* without a lock sees what the others have committed.  Rows of            *)
(* inventory_balances are locked one after another, each until the end.    *)
(***************************************************************************)
EXTENDS Integers, FiniteSets, FiniteSetsExt, Functions

CONSTANTS
    Variants,    \* references of the catalogue
    StoreBoxes,  \* active STOCK locations of the store that sells
    Warehouse,   \* the STOCK location of the warehouse
    Docs,        \* sales
    Clients,     \* requests in flight at the same time
    MaxQty,      \* bound of a balance
    MaxLine,     \* bound of the units of a reference in a sale
    None

Boxes == StoreBoxes \cup {Warehouse}
Places == Variants \X Boxes
Amounts == 1 .. MaxLine

\* The reservation row of a document and a reference.
Hold == [box : Boxes, quantity : Amounts]

\* Boxes are numbers because movements lock them in the order of their ids.
ASSUME ConstantsAssumption ==
    /\ Boxes \subseteq Nat /\ Warehouse \notin StoreBoxes
    /\ IsFiniteSet(StoreBoxes) /\ IsFiniteSet(Docs)
    /\ MaxQty \in Nat /\ MaxLine \in Nat \ {0}
    /\ None \notin Int \cup Docs \cup Places \cup Hold

VARIABLES
    balance,  \* inventory_balances.quantity of each place
    entered,  \* units the movements by hand have brought in, less what they took out
    doc,      \* the sales: status, units per reference, and what each holds apart
    ordered,  \* units the restocking orders hold apart in the warehouse
    tx        \* the transaction each client has open

vars == <<balance, entered, doc, ordered, tx>>

Doc ==
    [status : {"NONE", "DRAFT", "COMPLETED", "ENDED"},
     lines  : [Variants -> 0 .. MaxLine],
     holds  : [Variants -> Hold \cup {None}]]

\* want: the balance it waits for; saves: the quantities it will save.
Transaction ==
    [op      : {"none", "sync", "charge", "move"},
     at      : {"idle", "series", "choose", "balance", "restock", "commit"},
     doc     : Docs \cup {None},
     lines   : [Variants -> 0 .. MaxLine],
     holds   : [Variants -> Hold \cup {None}],
     todo    : SUBSET Variants,
     want    : Places \cup {None},
     saves   : [Places -> (0 .. MaxQty) \cup {None}],
     ordered : [Variants -> 0 .. MaxLine],
     from    : Boxes \cup {None},
     to      : Boxes \cup {None},
     series  : BOOLEAN,
     locks   : SUBSET Places]

Nothing == [v \in Variants |-> 0]
NoHolds == [v \in Variants |-> None]

NoTransaction ==
    [op |-> "none", at |-> "idle", doc |-> None, lines |-> Nothing, holds |-> NoHolds,
     todo |-> {}, want |-> None, saves |-> [p \in Places |-> None], ordered |-> Nothing,
     from |-> None, to |-> None, series |-> FALSE, locks |-> {}]

TypeOK ==
    /\ balance \in [Places -> 0 .. MaxQty]
    /\ entered \in [Variants -> Int]
    /\ doc \in [Docs -> Doc]
    /\ ordered \in [Variants -> Nat]
    /\ tx \in [Clients -> Transaction]

UnitsIn(stock, v) == SumFunction([b \in Boxes |-> stock[<<v, b>>]])

Init ==
    /\ balance \in [Places -> 0 .. MaxQty]
    /\ entered = [v \in Variants |-> UnitsIn(balance, v)]
    /\ doc = [d \in Docs |-> [status |-> "NONE", lines |-> Nothing, holds |-> NoHolds]]
    /\ ordered = Nothing
    /\ tx = [t \in Clients |-> NoTransaction]

-----------------------------------------------------------------------------
(* Locks and availability *)

Idle(t) == tx[t].at = "idle"
DocFree(d) == \A u \in Clients : tx[u].doc # d
PlaceFree(p) == \A u \in Clients : p \notin tx[u].locks

Start(t, fields) == tx' = [tx EXCEPT ![t] = fields]
Finish(t) == tx' = [tx EXCEPT ![t] = NoTransaction]

HeldAt(holds, v, b) == IF holds[v] # None /\ holds[v].box = b THEN holds[v].quantity ELSE 0

HeldByDocs(ds, v, b) == SumFunction([d \in ds |-> HeldAt(doc[d].holds, v, b)])

OrderedAt(units, v, b) == IF b = Warehouse THEN units[v] ELSE 0

\* reservedQuantity: all that any document holds there, as t sees it.
Reserved(t, v, b) ==
    HeldByDocs(Docs \ {tx[t].doc}, v, b) + HeldAt(tx[t].holds, v, b)
      + OrderedAt(ordered, v, b) + OrderedAt(tx[t].ordered, v, b)

\* The balance of a place as t sees it: its own change, or the last committed.
Quantity(t, p) == IF tx[t].saves[p] = None THEN balance[p] ELSE tx[t].saves[p]

Available(t, p) == Quantity(t, p) - Reserved(t, p[1], p[2])

\* lockOrCreateInventoryBalance: the row t waits for is nobody else's.
Granted(t) == tx[t].at = "balance" /\ PlaceFree(tx[t].want)

\* Where a transaction goes on once `todo` is what is left of its lines.
NextLine(op, todo) ==
    CASE todo # {}                    -> "choose"
      [] todo = {} /\ op = "charge"   -> "restock"
      [] OTHER                        -> "commit"

-----------------------------------------------------------------------------
(* Building a sale: syncForSource leaves held exactly what its lines say.     *)

\* What has to be taken again: the references whose quantity is not the held one.
Differ(holds, lines) ==
    {v \in Variants : IF holds[v] = None THEN lines[v] > 0
                                         ELSE holds[v].quantity # lines[v]}

BeginSync(t, d, lines) ==
    LET differ == Differ(doc[d].holds, lines)
        todo   == {v \in differ : lines[v] > 0}
    IN  Start(t, [NoTransaction EXCEPT
                    !.op = "sync", !.at = NextLine("sync", todo), !.doc = d,
                    !.lines = lines, !.todo = todo,
                    !.holds = [v \in Variants |-> IF v \in differ THEN None
                                                                  ELSE doc[d].holds[v]]])

\* addItem, updateItemQuantity, removeItem: one reference of a draft changes.
LockForEdit(t, d, v, amount) ==
    /\ Idle(t)
    /\ DocFree(d) /\ doc[d].status = "DRAFT"
    /\ amount # doc[d].lines[v]
    /\ BeginSync(t, d, [doc[d].lines EXCEPT ![v] = amount])
    /\ UNCHANGED <<balance, entered, doc, ordered>>

\* create, empty; createFromInternalOrder, with all the lines of the order.
Create(t, d, lines) ==
    /\ Idle(t)
    /\ DocFree(d) /\ doc[d].status = "NONE"
    /\ BeginSync(t, d, lines)
    /\ UNCHANGED <<balance, entered, doc, ordered>>

\* findStockLocationForSale: the box of the store with most, read without a lock.
ChooseBox(t, v, b) ==
    /\ tx[t].op = "sync" /\ tx[t].at = "choose" /\ v \in tx[t].todo
    /\ b \in StoreBoxes
    /\ \A other \in StoreBoxes : Available(t, <<v, other>>) <= Available(t, <<v, b>>)
    /\ Available(t, <<v, b>>) >= tx[t].lines[v]
    /\ tx' = [tx EXCEPT ![t].at = "balance", ![t].want = <<v, b>>]
    /\ UNCHANGED <<balance, entered, doc, ordered>>

TakeHold(t) ==
    LET v    == tx[t].want[1]
        left == tx[t].todo \ {v}
    IN  tx' = [tx EXCEPT ![t].at = NextLine("sync", left), ![t].todo = left,
                         ![t].want = None, ![t].locks = @ \cup {tx[t].want},
                         ![t].holds[v] = [box |-> tx[t].want[2],
                                          quantity |-> tx[t].lines[v]]]

\* Faulty variant: what was available when the box was chosen is believed.
ReserveUnchecked(t) ==
    /\ tx[t].op = "sync" /\ Granted(t)
    /\ TakeHold(t)
    /\ UNCHANGED <<balance, entered, doc, ordered>>

\* reserveInTransaction
Reserve(t) ==
    /\ tx[t].op = "sync" /\ Granted(t)
    /\ Available(t, tx[t].want) >= tx[t].lines[tx[t].want[1]]
    /\ TakeHold(t)
    /\ UNCHANGED <<balance, entered, doc, ordered>>

CommitSync(t) ==
    /\ tx[t].op = "sync" /\ tx[t].at = "commit"
    /\ doc' = [doc EXCEPT ![tx[t].doc] = [status |-> "DRAFT", lines |-> tx[t].lines,
                                          holds |-> tx[t].holds]]
    /\ Finish(t)
    /\ UNCHANGED <<balance, entered, ordered>>

\* SaleService.cancel, and the closing of the shift, that deletes the draft:
\* both let go of what it held, and lock nothing else.  Its lines matter no more.
EndDraft(d) ==
    /\ DocFree(d) /\ doc[d].status = "DRAFT"
    /\ doc' = [doc EXCEPT ![d] = [status |-> "ENDED", lines |-> Nothing,
                                  holds |-> NoHolds]]
    /\ UNCHANGED <<balance, entered, ordered, tx>>

-----------------------------------------------------------------------------
(* Charging it: completeInTransaction, from the number of the sale on.        *)

\* The checks of the charge come before; then it asks for the sale's number.
LockForCharge(t, d) ==
    /\ Idle(t)
    /\ DocFree(d) /\ doc[d].status = "DRAFT" /\ doc[d].lines # Nothing
    /\ Start(t, [NoTransaction EXCEPT !.op = "charge", !.at = "series", !.doc = d,
                                      !.lines = doc[d].lines, !.holds = doc[d].holds])
    /\ UNCHANGED <<balance, entered, doc, ordered>>

\* It lets go of its own reservations before it moves anything.
StartMoving(t, series) ==
    tx' = [tx EXCEPT ![t].at = "choose", ![t].series = series,
                     ![t].todo = {v \in Variants : tx[t].lines[v] > 0}]

\* Faulty variant: the number is not taken from a counter all the charges share.
NumberWithoutWaiting(t) ==
    /\ tx[t].at = "series"
    /\ StartMoving(t, FALSE)
    /\ UNCHANGED <<balance, entered, doc, ordered>>

\* assignNumber: the row of the series stays locked until the end.
AssignNumber(t) ==
    /\ tx[t].at = "series"
    /\ \A u \in Clients : ~tx[u].series
    /\ StartMoving(t, TRUE)
    /\ UNCHANGED <<balance, entered, doc, ordered>>

\* The next line, in whatever order they come: it leaves the box that holds it.
ChargeLine(t, v) ==
    /\ tx[t].op = "charge" /\ tx[t].at = "choose" /\ v \in tx[t].todo
    /\ tx' = [tx EXCEPT ![t].at = "balance", ![t].want = <<v, tx[t].holds[v].box>>,
                        ![t].holds[v] = None]
    /\ UNCHANGED <<balance, entered, doc, ordered>>

TakeUnits(t) ==
    LET v    == tx[t].want[1]
        left == tx[t].todo \ {v}
    IN  tx' = [tx EXCEPT ![t].at = NextLine("charge", left), ![t].want = None,
                         ![t].todo = IF left = {} THEN {u \in Variants : tx[t].lines[u] > 0}
                                                  ELSE left,
                         ![t].locks = @ \cup {tx[t].want},
                         ![t].saves[tx[t].want] = balance[tx[t].want] - tx[t].lines[v]]

\* Faulty variant: the balance is read without locking it.
MoveSoldWithoutLock(t) ==
    /\ tx[t].op = "charge" /\ tx[t].at = "balance" /\ tx[t].want[2] # Warehouse
    /\ Available(t, tx[t].want) >= tx[t].lines[tx[t].want[1]]
    /\ TakeUnits(t)
    /\ UNCHANGED <<balance, entered, doc, ordered>>

\* recordInTransaction, type SALE
MoveSold(t) ==
    /\ tx[t].op = "charge" /\ Granted(t) /\ tx[t].want[2] # Warehouse
    /\ Available(t, tx[t].want) >= tx[t].lines[tx[t].want[1]]
    /\ TakeUnits(t)
    /\ UNCHANGED <<balance, entered, doc, ordered>>

\* restockStore: what is not on its way yet is asked of the warehouse if it
\* has it; if not, somebody is told.  Read without a lock, as above.
RestockLine(t, v) ==
    /\ tx[t].at = "restock" /\ v \in tx[t].todo
    /\ \/ /\ Available(t, <<v, Warehouse>>) >= tx[t].lines[v]
          /\ tx' = [tx EXCEPT ![t].at = "balance", ![t].want = <<v, Warehouse>>]
       \/ tx' = [tx EXCEPT ![t].todo = @ \ {v}]
    /\ UNCHANGED <<balance, entered, doc, ordered>>

ReserveRestock(t) ==
    LET v == tx[t].want[1]
    IN  /\ tx[t].op = "charge" /\ Granted(t) /\ tx[t].want[2] = Warehouse
        /\ Available(t, tx[t].want) >= tx[t].lines[v]
        /\ tx' = [tx EXCEPT ![t].at = "restock", ![t].todo = @ \ {v}, ![t].want = None,
                            ![t].locks = @ \cup {tx[t].want},
                            ![t].ordered[v] = tx[t].lines[v]]
        /\ UNCHANGED <<balance, entered, doc, ordered>>

\* What a transaction saves when it commits.
Saved(t) == [p \in Places |-> Quantity(t, p)]

CommitCharge(t) ==
    /\ tx[t].at = "restock" /\ tx[t].todo = {}
    /\ balance' = Saved(t)
    /\ doc' = [doc EXCEPT ![tx[t].doc].status = "COMPLETED",
                          ![tx[t].doc].holds = tx[t].holds]
    /\ ordered' = [v \in Variants |-> ordered[v] + tx[t].ordered[v]]
    /\ Finish(t)
    /\ UNCHANGED entered

\* A restocking order that nobody touched is cancelled, and lets go of its units.
CancelRestock(v) ==
    /\ ordered[v] > 0
    /\ \E units \in 1 .. ordered[v] : ordered' = [ordered EXCEPT ![v] = @ - units]
    /\ UNCHANGED <<balance, entered, doc, tx>>

-----------------------------------------------------------------------------
(* Moving units by hand: InventoryMovementService.record.                     *)

EndsOf(from, to) == {from, to} \ {None}

\* A purchase or an adjustment has one end, a transfer has two.  How much it
\* moves is looked at only when the locks are taken: see CommitMove.
BeginMove(t, v, from, to) ==
    /\ Idle(t)
    /\ from # to
    /\ Start(t, [NoTransaction EXCEPT
                   !.op = "move", !.at = "balance", !.from = from, !.to = to,
                   !.want = <<v, Min(EndsOf(from, to))>>])
    /\ UNCHANGED <<balance, entered, doc, ordered>>

\* The two balances are locked in the order of their boxes.
LockForMove(t) ==
    LET p    == tx[t].want
        left == {b \in EndsOf(tx[t].from, tx[t].to) : <<p[1], b>> \notin tx[t].locks \cup {p}}
    IN  /\ tx[t].op = "move" /\ Granted(t)
        /\ tx' = [tx EXCEPT ![t].locks = @ \cup {p}, ![t].saves[p] = balance[p],
                            ![t].at = IF left = {} THEN "commit" ELSE "balance",
                            ![t].want = IF left = {} THEN p ELSE <<p[1], Min(left)>>]
        /\ UNCHANGED <<balance, entered, doc, ordered>>

\* What is held apart cannot be taken out.
CanTake(t, v, amount) ==
    tx[t].from # None => Available(t, <<v, tx[t].from>>) >= amount

CommitMove(t, amount) ==
    LET v       == tx[t].want[1]
        moved   == [b \in Boxes |-> (IF b = tx[t].to THEN amount ELSE 0)
                                    - (IF b = tx[t].from THEN amount ELSE 0)]
        into    == tx[t].to # None
        outOf   == tx[t].from # None
    IN  /\ tx[t].op = "move" /\ tx[t].at = "commit"
        /\ CanTake(t, v, amount)
        /\ into => Quantity(t, <<v, tx[t].to>>) + amount <= MaxQty
        /\ balance' = [p \in Places |-> IF p[1] = v THEN Quantity(t, p) + moved[p[2]]
                                                    ELSE balance[p]]
        /\ entered' = [entered EXCEPT ![v] = @ + (IF into THEN amount ELSE 0)
                                               - (IF outOf THEN amount ELSE 0)]
        /\ Finish(t)
        /\ UNCHANGED <<doc, ordered>>

\* Not enough of something, an error, or a deadlock Postgres breaks: rollback.
Abort(t) ==
    /\ ~Idle(t)
    /\ Finish(t)
    /\ UNCHANGED <<balance, entered, doc, ordered>>

-----------------------------------------------------------------------------

Begin(t) ==
    \/ \E d \in Docs : LockForCharge(t, d)
    \/ \E d \in Docs, v \in Variants, amount \in 0 .. MaxLine : LockForEdit(t, d, v, amount)
    \/ \E d \in Docs, lines \in [Variants -> 0 .. MaxLine] : Create(t, d, lines)
    \/ \E v \in Variants, from, to \in Boxes \cup {None} : BeginMove(t, v, from, to)

Advance(t) ==
    \/ \E v \in Variants, b \in StoreBoxes : ChooseBox(t, v, b)
    \/ Reserve(t) \/ CommitSync(t)
    \/ AssignNumber(t)
    \/ \E v \in Variants : ChargeLine(t, v) \/ RestockLine(t, v)
    \/ MoveSold(t) \/ ReserveRestock(t) \/ CommitCharge(t)
    \/ LockForMove(t)
    \/ \E amount \in Amounts : CommitMove(t, amount)

Next ==
    \/ \E t \in Clients : Begin(t) \/ Advance(t) \/ Abort(t)
    \/ \E d \in Docs : EndDraft(d)
    \/ \E v \in Variants : CancelRestock(v)

Spec == Init /\ [][Next]_vars

-----------------------------------------------------------------------------
(* Properties *)

(* "Asi una reserva y un movimiento sobre la misma existencia, a la vez, nunca *)
(* se pisan ni prometen lo mismo dos veces": what all documents hold apart in *)
(* a place is there.                                                          *)
NeverPromisedTwice ==
    \A v \in Variants, b \in Boxes :
      HeldByDocs(Docs, v, b) + OrderedAt(ordered, v, b) <= balance[<<v, b>>]

(* No movement is lost: the units there are, are those that came in by hand   *)
(* less those of the sales charged.                                           *)
UnitsConserved ==
    \A v \in Variants :
      UnitsIn(balance, v) =
        entered[v] - SumFunction([d \in {e \in Docs : doc[e].status = "COMPLETED"} |->
                                    doc[d].lines[v]])

(* "Asi lo reservado y lo que se va a cobrar nunca se separan" (syncForSource):*)
(* a draft holds apart exactly its lines, and a sale that ended holds nothing. *)
HeldIsWhatIsCharged ==
    \A d \in Docs, v \in Variants :
      IF doc[d].status = "DRAFT" /\ doc[d].lines[v] > 0
        THEN doc[d].holds[v] # None /\ doc[d].holds[v].quantity = doc[d].lines[v]
        ELSE doc[d].holds[v] = None

(* What a sale holds apart is there for it and for nobody else, until it ends. *)
ReservationsHold == TypeOK /\ NeverPromisedTwice /\ HeldIsWhatIsCharged

(* t waits for a row that u holds. *)
WaitsFor(t, u) ==
    \/ tx[t].at = "balance" /\ tx[t].want \in tx[u].locks
    \/ tx[t].at = "series" /\ tx[u].series

(* "Dos cobros simultaneos no se abrazan" (completeInTransaction), and neither *)
(* do two transfers (recordInTransaction): no set of charges, and no set of   *)
(* movements by hand, waits for itself.                                       *)
AlikesNeverEmbrace ==
    \A op \in {"charge", "move"} :
      \A S \in SUBSET {t \in Clients : tx[t].op = op} :
        S # {} => \E t \in S : \A u \in S \ {t} : ~WaitsFor(t, u)

=============================================================================
