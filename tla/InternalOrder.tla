--------------------------- MODULE InternalOrder ---------------------------
(***************************************************************************)
(* The life of a sales order (SO): packed in the warehouse, carried by a   *)
(* runner, received by the seller, charged or returned; the sub-orders     *)
(* that bring what is missing or changed; and the returns (RE) that take   *)
(* the store's bin back to the warehouse.  What each of them reserves and  *)
(* moves is followed along (InternalOrderStock, ReturnsBinService).        *)
(*                                                                         *)
(* One warehouse and one store.  A line is the units of one reference.     *)
(* Every operation is one transaction that locks the order, then its       *)
(* parent, and each balance it reserves on: an action here.  Permissions   *)
(* are left out (the administrator may always act), and with them the      *)
(* keeper an order is assigned to, who decides nothing else.  The draft    *)
(* that charges an order is followed in Checkout: its opening and its end  *)
(* are here.  Transfers and restocks are the external Restock.             *)
(***************************************************************************)
EXTENDS Integers, FiniteSets, Functions

CONSTANTS
    Orders,     \* identities of the orders and returns that may be created
    Variants,   \* references (product, colour and size)
    Runners,
    MaxUnits,   \* bound of a line that is asked for
    Stocked,    \* units of each reference, all in the warehouse at first
    None

ASSUME InternalOrderAssumption ==
    /\ IsFiniteSet(Orders) /\ IsFiniteSet(Variants)
    /\ MaxUnits \in Nat \ {0} /\ Stocked \in Nat
    /\ None \notin Orders \cup Runners \cup [Variants -> Nat]
    /\ Runners \cap {"WAREHOUSE", "RETURNS", "STORE"} = {}

VARIABLES
    order,   \* rows of internal_orders, with the lines of their current version
    onHand,  \* balances of the two STOCKs, the warehouse's RETURNS and the bags
    held,    \* what each order has reserved, and in which STOCK
    bin,     \* the store's returns bin, by the order that left it there
    aside,   \* what damage incidents hold, in each STOCK
    draft,   \* what the open draft that charges each order has reserved
    altered  \* orders whose lines changed in the runner's hands or in their charge

vars == <<order, onHand, held, bin, aside, draft, altered>>

-----------------------------------------------------------------------------
(* Lines and quantities *)

Units == [Variants -> Nat]
IsLines(l) == DOMAIN l \subseteq Variants /\ \A v \in DOMAIN l : l[v] \in Nat
Inputs == UNION {[S -> 1 .. MaxUnits] : S \in SUBSET Variants}

Zero == [v \in Variants |-> 0]
NoLines == [v \in {} |-> 0]

Add(a, b)    == [v \in Variants |-> a[v] + b[v]]
Sub(a, b)    == [v \in Variants |-> a[v] - b[v]]
Covers(a, b) == \A v \in Variants : a[v] >= b[v]

\* quantitiesOf: what a version moves; a line counted at 0 stays but moves nothing.
QuantitiesOf(l) == [v \in Variants |-> IF v \in DOMAIN l THEN l[v] ELSE 0]

Join(l, m) ==
    [v \in DOMAIN l \cup DOMAIN m |-> QuantitiesOf(l)[v] + QuantitiesOf(m)[v]]

Only(l, S)    == Restrict(l, S \cap DOMAIN l)
Without(l, S) == Restrict(l, DOMAIN l \ S)

-----------------------------------------------------------------------------
(* Rows *)

InWarehouse   == {"NEW", "PACKING", "READY_FOR_RUNNER"}
InRunnerHands == {"IN_TRANSIT", "DELIVERED_TO_STORE",
                  "IN_TRANSIT_TO_WAREHOUSE", "DELIVERED_TO_WAREHOUSE"}
InStore       == {"RECEIVED_BY_SELLER", "PENDING_PAYMENT", "ITEM_CHANGE_REQUESTED"}
FinalStatuses == {"PAID", "CANCELLED", "RETURNED", "CLOSED_BY_CHANGE"}
Waiting       == {"READY_FOR_RUNNER", "WAITING_FOR_RUNNER"}
Places        == {"WAREHOUSE", "STORE"}

\* "NONE": the identity is not used yet.
IsOrderRow(row) ==
    /\ row.type \in {"NONE", "SO", "RE"}
    /\ row.status \in {"NONE", "WAITING_FOR_RUNNER"} \cup InWarehouse \cup InRunnerHands
                       \cup InStore \cup FinalStatuses
    /\ IsLines(row.lines)
    /\ row.source \in Places
    /\ row.runner \in Runners \cup {None}
    /\ row.parent \in Orders \cup {None}
    /\ row.sibling \in BOOLEAN               \* shares its requestGroupId with its parent
    /\ row.left \in BOOLEAN                  \* has a RUNNER_DELIVERY movement

HeldRow == [at : Places \cup {None}, units : Units]

NothingHeld == [at |-> None, units |-> Zero]

Row(type, status, lines, source) ==
    [type |-> type, status |-> status, lines |-> lines, source |-> source,
     runner |-> None, parent |-> None, sibling |-> FALSE, left |-> FALSE]

Child(row, parent, sibling) == [row EXCEPT !.parent = parent, !.sibling = sibling]

TypeOK ==
    /\ DOMAIN order = Orders /\ \A o \in Orders : IsOrderRow(order[o])
    /\ onHand \in [Places \cup {"RETURNS"} \cup Runners -> Units]
    /\ held \in [Orders -> HeldRow]
    /\ bin \in [Orders -> Units]
    /\ aside \in [Places -> Units]
    /\ draft \in [Orders -> Units \cup {None}]
    /\ altered \subseteq Orders

Init ==
    /\ order = [o \in Orders |-> Row("NONE", "NONE", NoLines, "WAREHOUSE")]
    /\ onHand = [p \in Places \cup {"RETURNS"} \cup Runners |->
                   IF p = "WAREHOUSE" THEN [v \in Variants |-> Stocked] ELSE Zero]
    /\ held = [o \in Orders |-> NothingHeld]
    /\ bin = [o \in Orders |-> Zero]
    /\ aside = [p \in Places |-> Zero]
    /\ draft = [o \in Orders |-> None]
    /\ altered = {}

Unused == {o \in Orders : order[o].type = "NONE"}
Live(o) == order[o].type # "NONE" /\ order[o].status \notin FinalStatuses

-----------------------------------------------------------------------------
(* A transaction is the state it would leave, built step by step, and      *)
(* whether any step of it was refused.                                     *)

Now == [order |-> order, onHand |-> onHand, held |-> held, bin |-> bin,
        aside |-> aside, draft |-> draft, ok |-> TRUE]

CommitAltering(t, changed) ==
    /\ t.ok
    /\ order' = t.order /\ onHand' = t.onHand /\ held' = t.held
    /\ bin' = t.bin /\ aside' = t.aside /\ draft' = t.draft
    /\ altered' = altered \cup changed

Commit(t) == CommitAltering(t, {})

SumUnits(f, S) == [v \in Variants |-> SumFunction([o \in S |-> f[o][v]])]

\* What an order has set apart in a place: for itself, in the bin and in its draft.
Apart(t, o, p) ==
    [v \in Variants |->
        (IF t.held[o].at = p THEN t.held[o].units[v] ELSE 0)
      + (IF p = "STORE" THEN t.bin[o][v] ELSE 0)
      + (IF p = "STORE" /\ t.draft[o] # None THEN t.draft[o][v] ELSE 0)]

\* What is in a place and nobody has reserved.
Free(t, p) ==
    IF p \in Places
    THEN LET byOrder == [o \in Orders |-> Apart(t, o, p)]
         IN  Sub(Sub(t.onHand[p], t.aside[p]), SumUnits(byOrder, Orders))
    ELSE t.onHand[p]

Needs(t, p, units) == t.ok /\ Covers(Free(t, p), units)

Release(t, o) == [t EXCEPT !.held[o] = NothingHeld]

\* reserveAt: lets go of all the order held, wherever, and holds exactly units.
ReserveAt(t, o, p, units) ==
    LET r == Release(t, o)
    IN  [r EXCEPT !.held[o] = IF units = Zero THEN NothingHeld
                              ELSE [at |-> p, units |-> units],
                  !.ok = Needs(r, p, units)]

Move(t, from, to, units) ==
    LET after == [t.onHand EXCEPT ![from] = Sub(@, units), ![to] = Add(@, units)]
    IN  [t EXCEPT !.ok = Needs(t, from, units), !.onHand = after]

\* ReturnsBinService.hold, in the name of the order.
HoldInBin(t, o, units) ==
    [t EXCEPT !.ok = Needs(t, "STORE", units), !.bin[o] = Add(@, units)]

SetStatus(t, o, status) == [t EXCEPT !.order[o].status = status]
NewVersion(t, o, lines) == [t EXCEPT !.order[o].lines = lines]
Create(t, o, row)       == [t EXCEPT !.order[o] = row]

LinesOf(t, o)  == t.order[o].lines
MovedBy(t, o)  == QuantitiesOf(LinesOf(t, o))
ReserveAll(t, o, p) == ReserveAt(t, o, p, MovedBy(t, o))

Destination(o) == IF order[o].type = "RE" THEN "WAREHOUSE" ELSE "STORE"

\* From the bag to the destination.  An order that has left it is not moved again.
FromRunner(t, o, to, units) ==
    LET r == t.order[o].runner
    IN  [Move(t, r, to, units) EXCEPT !.order[o].left = @ \/ units # Zero]

\* Faulty: the order is received and its goods stay in the bag.
HandOverUnmoved(t, o) ==
    IF order[o].type = "SO" THEN ReserveAll(t, o, "STORE") ELSE t

HandOver(t, o) ==
    LET to == IF order[o].type = "RE" THEN "RETURNS" ELSE "STORE"
        moved == IF t.order[o].left THEN t ELSE FromRunner(t, o, to, MovedBy(t, o))
    IN  IF order[o].type = "SO" THEN ReserveAll(moved, o, "STORE") ELSE moved

CancelEmptied(t, o) == SetStatus(Release(t, o), o, "CANCELLED")

\* splitByStore: what the store has free, and what must be brought.
HasHere(t, wanted) ==
    [v \in {x \in DOMAIN wanted : Free(t, "STORE")[x] > 0} |->
        IF Free(t, "STORE")[v] < wanted[v] THEN Free(t, "STORE")[v] ELSE wanted[v]]

ToBring(t, wanted) ==
    [v \in {x \in DOMAIN wanted : Free(t, "STORE")[x] < wanted[x]} |->
        wanted[v] - QuantitiesOf(HasHere(t, wanted))[v]]

CreateFromWarehouse(t, o, lines, parent, sibling) ==
    ReserveAll(Create(t, o, Child(Row("SO", "NEW", lines, "WAREHOUSE"), parent, sibling)),
               o, "WAREHOUSE")
-----------------------------------------------------------------------------
(* Sub-orders and their parents *)

\* What was missing arrives: it joins the parent, which is the one charged.
AbsorbIntoParent(t, sub, parent) ==
    LET joined == NewVersion(Release(t, sub), parent,
                             Join(LinesOf(t, parent), LinesOf(t, sub)))
    IN  SetStatus(ReserveAll(joined, parent, "STORE"), sub, "CLOSED_BY_CHANGE")

\* A change arrives: the sub-order takes what the parent kept.
TakeFromParent(t, sub, parent) ==
    LET joined == NewVersion(Release(t, parent), sub,
                             Join(LinesOf(t, sub), LinesOf(t, parent)))
    IN  SetStatus(ReserveAll(joined, sub, "STORE"), parent, "CLOSED_BY_CHANGE")

\* Faulty: what was missing is added to its order whatever became of it.
AbsorbAnyParent(t, sub) ==
    LET parent == t.order[sub].parent
    IN  CASE parent = None -> t
          [] parent # None /\ t.order[sub].sibling -> AbsorbIntoParent(t, sub, parent)
          [] parent # None /\ ~t.order[sub].sibling /\
               t.order[parent].status = "ITEM_CHANGE_REQUESTED" ->
               TakeFromParent(t, sub, parent)
          [] OTHER -> t

AbsorbParent(t, sub) ==
    LET parent == t.order[sub].parent
        status == IF parent = None THEN "NONE" ELSE t.order[parent].status
    IN  CASE t.order[sub].sibling /\ status = "RECEIVED_BY_SELLER" ->
               AbsorbIntoParent(t, sub, parent)
          [] ~t.order[sub].sibling /\ status = "ITEM_CHANGE_REQUESTED" ->
               TakeFromParent(t, sub, parent)
          [] OTHER -> t

\* The parent of a cancelled sub-order goes on with what it kept.
ReleaseParent(t, sub) ==
    LET parent == t.order[sub].parent
    IN  IF parent = None \/ t.order[parent].status # "ITEM_CHANGE_REQUESTED" THEN t
        ELSE SetStatus(t, parent, IF LinesOf(t, parent) = NoLines THEN "RETURNED"
                                  ELSE "RECEIVED_BY_SELLER")

-----------------------------------------------------------------------------
(* request: what the store has is born in the seller's hands, the rest is  *)
(* asked of the warehouse, as what that order is missing.                  *)

Request(o, sub, wanted) ==
    LET here  == HasHere(Now, wanted)
        rest  == ToBring(Now, wanted)
        first == IF here = NoLines THEN Now
                 ELSE ReserveAll(Create(Now, o, Row("SO", "RECEIVED_BY_SELLER", here,
                                                    "STORE")), o, "STORE")
    IN  /\ wanted # NoLines
        /\ o \in Unused /\ sub \in Unused /\ o # sub
        /\ Commit(CASE rest = NoLines -> first
                    [] rest # NoLines /\ here = NoLines ->
                         CreateFromWarehouse(first, o, rest, None, FALSE)
                    [] OTHER          -> CreateFromWarehouse(first, sub, rest, o, TRUE))

-----------------------------------------------------------------------------
(* transition: the warehouse, the runner and the store *)

At(o, type, statuses) == order[o].type = type /\ order[o].status \in statuses

Pack(o) ==
    /\ At(o, "SO", {"NEW"})
    /\ Commit(SetStatus(Now, o, "PACKING"))

\* recordCounts: each line becomes what was found, which may be nothing.
Counts(o) == {l \in [DOMAIN order[o].lines -> 0 .. 2 * MaxUnits] :
                 Covers(QuantitiesOf(order[o].lines), QuantitiesOf(l))}

Ready(o, found) ==
    /\ At(o, "SO", {"PACKING"})
    /\ found \in Counts(o) /\ QuantitiesOf(found) # Zero
    /\ LET counted == NewVersion(Now, o, found)
       IN  Commit(SetStatus(ReserveAll(counted, o, "WAREHOUSE"), o, "READY_FOR_RUNNER"))

Claim(o, r) ==
    /\ order[o].status \in Waiting /\ order[o].runner = None
    /\ Commit([Now EXCEPT !.order[o].runner = r])

\* Who takes it carries it; a super administrator needs no claim.
PickUp(o, r) ==
    /\ order[o].status \in Waiting /\ order[o].runner \in {None, r}
    /\ LET taken == [Release(Now, o) EXCEPT !.order[o].runner = r]
           moved == Move(taken, order[o].source, r, MovedBy(Now, o))
       IN  Commit(SetStatus(moved, o, IF order[o].type = "SO" THEN "IN_TRANSIT"
                                      ELSE "IN_TRANSIT_TO_WAREHOUSE"))

\* The goods stay in the bag until the destination confirms.
Deliver(o) ==
    /\ order[o].status \in {"IN_TRANSIT", "IN_TRANSIT_TO_WAREHOUSE"}
    /\ Commit(SetStatus(Now, o, IF order[o].type = "SO" THEN "DELIVERED_TO_STORE"
                                ELSE "DELIVERED_TO_WAREHOUSE"))

Received(o) == SetStatus(HandOver(Now, o), o, "RECEIVED_BY_SELLER")

Receive(o) ==
    /\ At(o, "SO", {"DELIVERED_TO_STORE"})
    /\ Commit(AbsorbParent(Received(o), o))

ToPayment(o) ==
    /\ At(o, "SO", {"RECEIVED_BY_SELLER"})
    /\ LET t == AbsorbParent(Now, o)
       IN  Commit(IF t.order[o].status = "CLOSED_BY_CHANGE" THEN t
                  ELSE SetStatus(t, o, "PENDING_PAYMENT"))

NoOpenSale(o) == draft[o] = None

BackToSeller(o) ==
    /\ At(o, "SO", {"PENDING_PAYMENT"}) /\ NoOpenSale(o)
    /\ Commit(SetStatus(Now, o, "RECEIVED_BY_SELLER"))

ReturnRequest(o) ==
    /\ At(o, "SO", {"RECEIVED_BY_SELLER", "PENDING_PAYMENT"}) /\ NoOpenSale(o)
    /\ Commit(SetStatus(HoldInBin(Release(Now, o), o, MovedBy(Now, o)), o, "RETURNED"))

\* Faulty: the parent is not told.
CancelAlone(o) ==
    /\ At(o, "SO", InWarehouse)
    /\ Commit(SetStatus(Release(Now, o), o, "CANCELLED"))

Cancel(o) ==
    /\ At(o, "SO", InWarehouse)
    /\ Commit(ReleaseParent(SetStatus(Release(Now, o), o, "CANCELLED"), o))

-----------------------------------------------------------------------------
(* requestChange and editOrder *)

\* Each line that goes is changed for another reference.
ChangeOf(out, incoming) ==
    \E to \in [out -> Variants] :
       (\A v \in out : to[v] # v) /\ DOMAIN incoming = Range(to)

RequestChange(o, sub, out, incoming) ==
    LET t     == IF order[o].status = "DELIVERED_TO_STORE" THEN Received(o) ELSE Now
        mine  == AbsorbParent(t, o)
        lines == LinesOf(mine, o)
        here  == HasHere(mine, incoming)
        rest  == ToBring(mine, incoming)
        gone  == HoldInBin(Release(mine, o), o, QuantitiesOf(Only(lines, out)))
        asked == IF rest = NoLines THEN gone
                 ELSE CreateFromWarehouse(gone, sub, rest, o, FALSE)
        kept  == ReserveAll(NewVersion(asked, o, Join(Without(lines, out), here)),
                            o, "STORE")
    IN  /\ At(o, "SO", {"RECEIVED_BY_SELLER", "DELIVERED_TO_STORE"}) /\ NoOpenSale(o)
        /\ sub \in Unused
        /\ out # {} /\ out \subseteq DOMAIN lines /\ ChangeOf(out, incoming)
        /\ CommitAltering(IF rest = NoLines THEN kept
                          ELSE SetStatus(kept, o, "ITEM_CHANGE_REQUESTED"),
                          {o} \cap {x \in Orders : mine.order[x].status = "CLOSED_BY_CHANGE"})

Editable(o, out, added) ==
    /\ order[o].type = "SO" /\ Live(o) /\ NoOpenSale(o)
    /\ out \subseteq DOMAIN order[o].lines
    /\ out # {} \/ added # NoLines

\* What the store has whole is not asked of the warehouse; the order is packed again.
EditInWarehouse(o, out, added) ==
    LET lines == Join(Without(order[o].lines, out), added)
        t     == NewVersion(Now, o, lines)
        again == IF order[o].status = "READY_FOR_RUNNER"
                 THEN SetStatus(t, o, "PACKING") ELSE t
    IN  /\ Editable(o, out, added) /\ order[o].status \in InWarehouse
        /\ \A v \in DOMAIN added : Free(Now, "STORE")[v] < added[v]
        /\ Commit(IF lines = NoLines THEN CancelEmptied(t, o)
                  ELSE ReserveAll(again, o, "WAREHOUSE"))

EditAfterPickup(o, sub, out, added) ==
    LET lines == order[o].lines
        here  == HasHere(Now, added)
        rest  == ToBring(Now, added)
        gone  == IF out = {} THEN Now
                 ELSE HoldInBin(Release(Now, o), o, QuantitiesOf(Only(lines, out)))
        asked == IF rest = NoLines THEN gone
                 ELSE CreateFromWarehouse(gone, sub, rest, o, FALSE)
        final == Join(Without(lines, out), here)
        t     == NewVersion(asked, o, final)
    IN  /\ Editable(o, out, added) /\ order[o].status \notin InWarehouse
        /\ sub \in Unused
        /\ CommitAltering(
             CASE final = NoLines /\ rest = NoLines -> CancelEmptied(t, o)
               [] final # NoLines /\ rest = NoLines -> ReserveAll(t, o, "STORE")
               [] OTHER -> SetStatus(ReserveAll(t, o, "STORE"), o, "ITEM_CHANGE_REQUESTED"),
             {o} \cap {x \in Orders : order[x].status \in InRunnerHands})

-----------------------------------------------------------------------------
(* reportIncident: lines that are missing or damaged leave the order.      *)

PickedUp(o) == order[o].status \notin InWarehouse \cup {"WAITING_FOR_RUNNER"}

\* setDamagedAside: held by the incident, where the goods are or will be.
SetDamagedAside(o, units) ==
    LET there == IF order[o].status \in InRunnerHands
                 THEN FromRunner(Now, o, Destination(o), units) ELSE Now
    IN  IF PickedUp(o)
        THEN [there EXCEPT !.ok = Needs(there, Destination(o), units),
                           !.aside[Destination(o)] = Add(@, units)]
        ELSE Now

\* dropLines
DropLines(t, o, out) ==
    LET kept    == Without(order[o].lines, out)
        dropped == NewVersion(t, o, kept)
        place   == IF PickedUp(o) THEN Destination(o) ELSE order[o].source
    IN  CASE kept = NoLines -> CancelEmptied(dropped, o)
          [] kept # NoLines /\ order[o].status \in InRunnerHands -> dropped
          [] OTHER -> ReserveAll(dropped, o, place)

ReportIncident(o, out, damaged) ==
    LET t == IF damaged THEN SetDamagedAside(o, QuantitiesOf(Only(order[o].lines, out)))
             ELSE Now
    IN  /\ Live(o)
        /\ out # {} /\ out \subseteq DOMAIN order[o].lines
        /\ CommitAltering(DropLines(t, o, out),
             {o} \cap {x \in Orders : order[x].status \in InRunnerHands \/ ~NoOpenSale(x)})

-----------------------------------------------------------------------------
(* The cash desk: the draft takes what the order held, and ends charged or *)
(* discarded (lockForCheckout, markPaid, restoreAfterSaleDiscarded).       *)

OpenCharge(o) ==
    /\ At(o, "SO", {"PENDING_PAYMENT"}) /\ NoOpenSale(o)
    /\ LET t == Release(Now, o)
       IN  Commit([t EXCEPT !.draft[o] = MovedBy(t, o),
                            !.ok = Needs(t, "STORE", MovedBy(t, o))])

Pay(o) ==
    /\ At(o, "SO", {"PENDING_PAYMENT"}) /\ ~NoOpenSale(o)
    /\ LET t == [Now EXCEPT !.onHand["STORE"] = Sub(@, draft[o]), !.draft[o] = None]
       IN  Commit(SetStatus(t, o, "PAID"))

DiscardCharge(o) ==
    /\ ~NoOpenSale(o)
    /\ LET t == [Now EXCEPT !.draft[o] = None]
       IN  Commit(IF order[o].status = "PENDING_PAYMENT" THEN ReserveAll(t, o, "STORE")
                  ELSE t)

-----------------------------------------------------------------------------
(* The returns bin and the returns (RE) that empty it *)

\* lockFor, takeRows: everything the bin has of those references.
KeepBinInStore(S) ==
    LET rest(units) == [v \in Variants |-> IF v \in S THEN 0 ELSE units[v]]
    IN  /\ \E v \in S : aside["STORE"][v] > 0 \/ \E o \in Orders : bin[o][v] > 0
        /\ Commit([Now EXCEPT !.bin = [o \in Orders |-> rest(bin[o])],
                              !.aside["STORE"] = rest(@)])

\* originWarehouses: only what an order brought from the warehouse goes back.
CreateReturnFromBin(re, S) ==
    LET from == {o \in Orders : order[o].source = "WAREHOUSE"}
        sent == {v \in S : SumUnits(bin, from)[v] > 0}
        t    == [Now EXCEPT !.bin = [o \in Orders |-> [v \in Variants |->
                                       IF o \in from /\ v \in S THEN 0 ELSE bin[o][v]]]]
        row  == Row("RE", "WAITING_FOR_RUNNER", Restrict(SumUnits(bin, from), sent), "STORE")
    IN  /\ re \in Unused /\ sent # {}
        /\ Commit(ReserveAll(Create(t, re, row), re, "STORE"))

\* The whole bag enters the warehouse's RETURNS, what was counted its STOCK.
VerifyReturn(o, counted) ==
    /\ At(o, "RE", {"DELIVERED_TO_WAREHOUSE"})
    /\ counted \in Counts(o)
    /\ LET t == NewVersion(HandOver(Now, o), o, counted)
       IN  Commit(SetStatus(Move(t, "RETURNS", "WAREHOUSE", QuantitiesOf(counted)),
                            o, "RETURNED"))

CancelReturn(o) ==
    /\ At(o, "RE", {"WAITING_FOR_RUNNER"})
    /\ Commit(SetStatus(HoldInBin(Release(Now, o), o, MovedBy(Now, o)), o, "CANCELLED"))

\* A restock or a transfer brings the store a free unit.
Restock(v) ==
    LET one == [Zero EXCEPT ![v] = 1]
    IN  Commit(Move(Now, "WAREHOUSE", "STORE", one))

-----------------------------------------------------------------------------

Seller(o) ==
    \/ \E sub \in Orders, wanted \in Inputs : Request(o, sub, wanted)
    \/ Receive(o) \/ ToPayment(o) \/ BackToSeller(o) \/ ReturnRequest(o) \/ Cancel(o)
    \/ \E sub \in Orders, out \in SUBSET Variants, lines \in Inputs :
         \/ RequestChange(o, sub, out, lines)
         \/ EditAfterPickup(o, sub, out, lines)
    \/ \E out \in SUBSET Variants, lines \in Inputs : EditInWarehouse(o, out, lines)
    \/ \E out \in SUBSET Variants, damaged \in BOOLEAN : ReportIncident(o, out, damaged)

Warehouse(o) ==
    \/ Pack(o)
    \/ \E found \in Counts(o) : Ready(o, found) \/ VerifyReturn(o, found)

Runner(o) == (\E r \in Runners : Claim(o, r) \/ PickUp(o, r)) \/ Deliver(o)

CashDesk(o) == OpenCharge(o) \/ Pay(o) \/ DiscardCharge(o)

Bin(o) == CancelReturn(o) \/ \E S \in SUBSET Variants : CreateReturnFromBin(o, S)

Next ==
    \/ \E o \in Orders : Seller(o) \/ Warehouse(o) \/ Runner(o) \/ CashDesk(o) \/ Bin(o)
    \/ \E S \in SUBSET Variants : KeepBinInStore(S)
    \/ \E v \in Variants : Restock(v)

Spec == Init /\ [][Next]_vars

-----------------------------------------------------------------------------
(* Properties *)

(* "Cada orden aparta en UN solo lugar a la vez (la bodega de origen antes de *)
(* que el corredor la recoja; la tienda cuando una SO ya llego)"              *)
(* (InternalOrderStock): however it is edited, split, absorbed, charged or    *)
(* returned, a live order holds exactly its lines there, once, and nothing    *)
(* after it ends.                                                             *)
Holding(o) ==
    LET units == MovedBy(Now, o)
        at(p) == IF units = Zero THEN NothingHeld ELSE [at |-> p, units |-> units]
    IN  CASE order[o].status \in InWarehouse -> at("WAREHOUSE")
          [] order[o].status \in InStore /\ draft[o] = None -> at("STORE")
          [] order[o].status = "WAITING_FOR_RUNNER" -> at("STORE")
          [] OTHER -> NothingHeld

HeldWhereItIs ==
    \A o \in Orders \ altered :
       /\ held[o] = Holding(o)
       /\ draft[o] # None => order[o].status = "PENDING_PAYMENT" /\ draft[o] = MovedBy(Now, o)

(* The runner's bag has what the orders in those hands carry, and nothing     *)
(* else (toRunner, fromRunner, leftRunner).                                   *)
Carried(r) == {o \in Orders : order[o].runner = r /\ order[o].status \in InRunnerHands}

BagMatchesOrders ==
    \A r \in Runners :
       {o \in altered : order[o].runner = r} = {} =>
          onHand[r] = SumUnits([o \in Orders |-> MovedBy(Now, o)], Carried(r))

(* Reservations and bags say where the goods of every order are. *)
GoodsAreWhereTheySay == TypeOK /\ HeldWhereItIs /\ BagMatchesOrders

(* ITEM_CHANGE_REQUESTED "la resuelve la sub-orden del cambio: al llegar a   *)
(* la tienda absorbe a la original (...) y, si se anula, la original vuelve   *)
(* al vendedor" (SERVICE_STATUSES): an order that waits has a sub-order on    *)
(* its way.                                                                   *)
Subs(o) == {sub \in Orders : order[sub].parent = o}

AlwaysWaitsForALiveSub ==
    \A o \in Orders :
       order[o].status = "ITEM_CHANGE_REQUESTED" => \E sub \in Subs(o) : Live(sub)

(* The same, but for a sub-order that an edit or an incident left with no     *)
(* lines (cancelEmptied does not tell its parent), and one edited on its way. *)
Emptied(o) == order[o].status = "CANCELLED" /\ order[o].lines = NoLines

WaitsForALiveSub ==
    \A o \in Orders :
       order[o].status = "ITEM_CHANGE_REQUESTED" =>
          \E sub \in Subs(o) : Live(sub) \/ Emptied(sub) \/ sub \in altered

(* An order that ended (paid, cancelled, returned, closed by a change) is     *)
(* never opened again nor its lines touched, whatever becomes of its          *)
(* sub-orders, its parent and its charge (isFinalStatus).                     *)
EndedStaysEnded ==
    [][\A o \in Orders : order[o].status \in FinalStatuses => order'[o] = order[o]]_vars

=============================================================================
