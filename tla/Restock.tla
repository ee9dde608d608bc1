------------------------------- MODULE Restock -------------------------------
(***************************************************************************)
(* The counter of a store and what refills it: the restock order (RS) that *)
(* a charge creates for what it took from the counter, its way from the    *)
(* warehouse in the bag of a runner, and the restocks that fall when what  *)
(* was sold comes back.                                                    *)
(*                                                                         *)
(* A charge is three steps, because what it reads of the warehouses is not *)
(* locked until it reserves: what to ask for, from which warehouse, and    *)
(* the reservation.  Keeping the returns bin in the store is two (the      *)
(* candidates, and the orders locked one by one), and so is a pick-up (the *)
(* bag looked for, and the goods moved).  The rest are one step.  Variants *)
(* and warehouses are active; a line is split into no positions; what the  *)
(* store sells for an SO order is in InternalOrder.                        *)
(***************************************************************************)
EXTENDS Integers, FiniteSets, FiniteSetsExt, Functions

CONSTANTS
    Warehouses,   \* numbers, in the order of their names
    BoxesOf,      \* BoxesOf[w]: its STOCK locations, 1 the oldest
    Sizes,        \* variants
    ModelOf,      \* ModelOf[v]: the product and colour of variant v
    Orders,       \* 1 .. n, in the order they are created
    Bags,         \* 1 .. n: RUNNER locations of the runner, in the order they are created
    Charges,      \* charges that may be in progress at the same time
    Shelf,        \* units of each variant in the store at first
    Stocked,      \* Stocked[b][v]: units in each box at first
    MaxSold,      \* bound of the units of a variant sold at once
    MaxSales,     \* bound of the units of a variant sold in all
    Minimums      \* minimums somebody may set for a model, 0 to remove it

Boxes == {b \in Warehouses \X (1 .. 9) : b[2] <= BoxesOf[b[1]]}

ASSUME RestockAssumption ==
    /\ Warehouses \subseteq Nat /\ Warehouses # {} /\ BoxesOf \in [Warehouses -> 1 .. 9]
    /\ IsFiniteSet(Warehouses) /\ IsFiniteSet(Sizes) /\ IsFiniteSet(Orders)
    /\ Shelf \in [Sizes -> Nat] /\ Stocked \in [Boxes -> [Sizes -> Nat]]
    /\ Orders \subseteq Nat \ {0} /\ Bags \subseteq Nat \ {0} /\ Minimums \subseteq Nat

VARIABLES
    counter,    \* what the store has free to sell
    onHand,     \* balances of the warehouses' boxes
    box,        \* inventory_locations of type STOCK: whether they are active
    restock,    \* internal_orders of type RS made by the system
    charge,     \* charges in progress
    informed,   \* variants the last charge told the administrators to choose a restock for
    bin,        \* what came back and waits in the store's returns bin
    keeping,    \* keepBinInStore in progress: what it took and the orders it read
    bag,        \* inventory_locations of type RUNNER, and what is in them
    picking,    \* pick-ups in progress: the bag each will use
    minimum,    \* store_model_minimums
    sold,       \* units sold from the counter, ever
    kept,       \* units that came back and stayed in the store, ever
    dropped,    \* units of the restocks cancelled because of it, ever
    disturbed   \* a bag was deactivated, or two were created at once

chargeVars == <<counter, charge, informed, sold>>
stockVars == <<onHand, box>>
binVars == <<bin, keeping, kept, dropped>>
bagVars == <<bag, picking, disturbed>>
restockVars == <<chargeVars, stockVars, restock, binVars, bagVars, minimum>>

-----------------------------------------------------------------------------
(* Rows *)

Units == [Sizes -> Nat]
NoUnits == [v \in Sizes |-> 0]
Plus(a, b) == [v \in Sizes |-> a[v] + b[v]]
Minus(a, b) == [v \in Sizes |-> a[v] - b[v]]
Covers(a, b) == \A v \in Sizes : a[v] >= b[v]
Total(f, S) == [v \in Sizes |-> SumFunctionOnSet([x \in DOMAIN f |-> f[x][v]], S)]

Reserving == {"RESTOCK_REQUESTED", "WAITING_FOR_RUNNER"}
Carried == {"IN_TRANSIT", "DELIVERED_TO_STORE"}
NotOnTheWay == {"NONE", "RECEIVED_BY_STORE", "RESTOCKED", "CANCELLED"}

\* at: the box it reserves in.  lines: what was found, once it was counted.  claimed:
\* warehouseOperatorId names a keeper (which one, and who may work on it, is in
\* Handover).
RestockRow == [status: Reserving \cup Carried \cup NotOnTheWay, from: Warehouses,
               at: Boxes, lines: Units, urgent: BOOLEAN, claimed: BOOLEAN]

NoCharge == [stage |-> "NONE"]
NoKeeping == [taken |-> NoUnits, read |-> {}]

RestockTypeOK ==
    /\ {counter, bin, sold, kept, dropped} \subseteq Units
    /\ onHand \in [Boxes -> Units] /\ box \in [Boxes -> BOOLEAN]
    /\ restock \in [Orders -> RestockRow]
    /\ informed \subseteq Sizes
    /\ \A c \in Charges : charge[c].stage \in {"NONE", "CHOSEN", "PLANNED"}
    /\ keeping.taken \in Units /\ keeping.read \subseteq Orders
    /\ bag \in [Bags -> [status: {"NONE", "ACTIVE", "INACTIVE"}, units: Units]]
    /\ picking \in [Orders -> Bags \cup {0}]
    /\ minimum \in [Range(ModelOf) -> Minimums \cup {0}] /\ disturbed \in BOOLEAN

-----------------------------------------------------------------------------
(* What the warehouses have *)

RestockLines == [o \in Orders |-> restock[o].lines]

ReservedIn(b) == Total(RestockLines,
                       {o \in Orders : restock[o].status \in Reserving /\ restock[o].at = b})

FreeIn(b) == Minus(onHand[b], ReservedIn(b))

\* findStockLocation: the oldest active box of the warehouse.
ActiveBoxes(w) == {b \in Boxes : b[1] = w /\ box[b]}
FindStock(w) == CHOOSE b \in ActiveBoxes(w) : \A d \in ActiveBoxes(w) : b[2] <= d[2]

\* warehouseAvailability: a row for each active box with something free.
Rows(v) == {b \in Boxes : box[b] /\ FreeIn(b)[v] > 0}

\* availabilityIndex: the boxes of a warehouse add up.
Available(w, v) == MapThenSumSet(LAMBDA b : FreeIn(b)[v], {b \in Rows(v) : b[1] = w})

\* incomingRestock
OnTheWay == Total(RestockLines, {o \in Orders : restock[o].status \notin NotOnTheWay})

\* restockSource: the same size from a box that has it all; otherwise the size of
\* the same model of which a box has most.  Empty: there is nothing of the model.
RestockSource(v, n) ==
    LET rows == {r \in {x \in Sizes : ModelOf[x] = ModelOf[v] /\ x # v} \X Boxes :
                    r[2] \in Rows(r[1]) /\ FreeIn(r[2])[r[1]] >= n}
    IN IF \E b \in Rows(v) : FreeIn(b)[v] >= n THEN {v}
       ELSE {r[1] : r \in {x \in rows : \A y \in rows : FreeIn(x[2])[x[1]] >= FreeIn(y[2])[y[1]]}}

-----------------------------------------------------------------------------
(* Which warehouse each line comes from (planBySource) *)

\* lines: the source and the quantity of each variant that was sold.
CanCover(w, line) == Available(w, line.source) >= line.quantity

MissingLines(lines) == {v \in DOMAIN lines : \A w \in Warehouses : ~CanCover(w, lines[v])}

Gain(lines, w, S) == {v \in S : CanCover(w, lines[v])}

Better(lines, w, d, S) ==
    \/ Cardinality(Gain(lines, w, S)) > Cardinality(Gain(lines, d, S))
    \/ Cardinality(Gain(lines, w, S)) = Cardinality(Gain(lines, d, S)) /\ w <= d

Best(lines, S) == CHOOSE w \in Warehouses : \A d \in Warehouses : Better(lines, w, d, S)

\* Each turn takes the warehouse that covers most of what is pending.
PlanBySource(lines) ==
    LET covered == DOMAIN lines \ MissingLines(lines)
        plan[S \in SUBSET covered] ==
            LET gain == Gain(lines, Best(lines, S), S) IN
            [v \in S |-> IF v \in gain THEN Best(lines, S) ELSE plan[S \ gain][v]]
    IN plan[covered]

-----------------------------------------------------------------------------
(* A charge *)

\* The rows of the counter are locked when the units leave: charges of the same
\* variant follow one another.
Selling(c) == charge[c].stage # "NONE"
Sold(c) == IF Selling(c) THEN charge[c].sold ELSE NoUnits

\* "Qué surtir": the models under their minimum, over what is committed, which the
\* charges in progress have not taken from yet.
AvailableOf(m) ==
    MapThenSumSet(LAMBDA v : counter[v] + MapThenSumSet(LAMBDA c : Sold(c)[v], Charges),
                  {v \in Sizes : ModelOf[v] = m})
Under == {m \in DOMAIN minimum : AvailableOf(m) < minimum[m]}

\* What left the counter, less what is on its way, and what to bring for it.  The
\* models under their minimum are read outside of the transaction.
Choose(c, units) ==
    LET needed == [v \in {x \in Sizes : units[x] > OnTheWay[x]} |-> units[v] - OnTheWay[v]]
    IN
    /\ ~Selling(c) /\ units # NoUnits /\ Covers(counter, units)
    /\ \A v \in Sizes : sold[v] + units[v] <= MaxSales
    /\ \A d \in Charges : \A v \in Sizes : Sold(d)[v] = 0 \/ units[v] = 0
    /\ \E source \in [DOMAIN needed -> Sizes \cup {0}] :
        /\ \A v \in DOMAIN needed :
            LET found == RestockSource(v, needed[v]) IN
            IF found = {} THEN source[v] = 0 ELSE source[v] \in found
        /\ charge' = [charge EXCEPT ![c] =
               [stage |-> "CHOSEN", sold |-> units, needed |-> needed,
                lines |-> [v \in {x \in DOMAIN needed : source[x] # 0} |->
                              [source |-> source[v], quantity |-> needed[v]]],
                unsolved |-> {v \in DOMAIN needed : source[v] = 0},
                urgent |-> \E v \in DOMAIN needed : source[v] # 0 /\ ModelOf[v] \in Under]]
    /\ counter' = Minus(counter, units)
    /\ UNCHANGED <<informed, sold, stockVars, restock, binVars, bagVars, minimum>>

\* Mutant: what no warehouse covers any more is forgotten.
PlanForgetting(c) ==
    /\ charge[c].stage = "CHOSEN"
    /\ charge' = [charge EXCEPT ![c] =
           [stage |-> "PLANNED", sold |-> @.sold, needed |-> @.needed, lines |-> @.lines,
            urgent |-> @.urgent, unsolved |-> @.unsolved, plan |-> PlanBySource(@.lines)]]
    /\ UNCHANGED <<counter, informed, sold, stockVars, restock, binVars, bagVars, minimum>>

\* The warehouses are read again, together.  What none covers any more is told by the
\* size that was to be brought, which need not be the one that was sold.
Plan(c) ==
    /\ charge[c].stage = "CHOSEN"
    /\ charge' = [charge EXCEPT ![c] =
           [stage |-> "PLANNED", sold |-> @.sold, needed |-> @.needed, lines |-> @.lines,
            urgent |-> @.urgent, plan |-> PlanBySource(@.lines),
            unsolved |-> @.unsolved \cup {@.lines[v].source : v \in MissingLines(@.lines)}]]
    /\ UNCHANGED <<counter, informed, sold, stockVars, restock, binVars, bagVars, minimum>>

\* quantitiesOf the lines that come from warehouse w
AskedOf(c, w) ==
    [x \in Sizes |-> SumFunctionOnSet([v \in DOMAIN charge[c].lines |-> charge[c].lines[v].quantity],
        {v \in DOMAIN charge[c].plan : charge[c].plan[v] = w /\ charge[c].lines[v].source = x})]

Groups(c) == Range(charge[c].plan)

\* reserveAt finds everything it needs free in the oldest box.
CanReserve(c, w) == ActiveBoxes(w) # {} /\ Covers(FreeIn(FindStock(w)), AskedOf(c, w))

Unused == {o \in Orders : restock[o].status = "NONE"}
Next1(S) == CHOOSE o \in S : \A d \in S : o <= d

\* The orders of the groups, one for each warehouse, in turn.
OrderOf(c, w) == Next1({o \in Unused : Cardinality({d \in Unused : d < o}) =
                                       Cardinality({g \in Groups(c) : g < w})})

\* notifyRestockNeeded: the administrators of the store, or all of them.
NotifyRestockNeeded(variants) == informed' = variants

Charged(c) ==
    /\ charge[c].stage = "PLANNED"
    /\ Cardinality(Groups(c)) <= Cardinality(Unused)
    /\ \A w \in Groups(c) : CanReserve(c, w)
    /\ restock' = [o \in Orders |->
           IF \E w \in Groups(c) : o = OrderOf(c, w)
           THEN LET w == CHOOSE g \in Groups(c) : o = OrderOf(c, g) IN
                [status |-> "RESTOCK_REQUESTED", from |-> w, at |-> FindStock(w),
                 lines |-> AskedOf(c, w), urgent |-> charge[c].urgent, claimed |-> FALSE]
           ELSE restock[o]]
    /\ NotifyRestockNeeded(charge[c].unsolved)
    /\ sold' = Plus(sold, charge[c].sold)
    /\ charge' = [charge EXCEPT ![c] = NoCharge]
    /\ UNCHANGED <<counter, stockVars, binVars, bagVars, minimum>>

\* A reservation that does not fit undoes the whole charge.
Undone(c) ==
    /\ charge[c].stage = "PLANNED" /\ \E w \in Groups(c) : ~CanReserve(c, w)
    /\ counter' = Plus(counter, charge[c].sold)
    /\ charge' = [charge EXCEPT ![c] = NoCharge]
    /\ UNCHANGED <<informed, sold, stockVars, restock, binVars, bagVars, minimum>>

-----------------------------------------------------------------------------
(* The way of a restock *)

\* Whether the row of the order is free.
Unlocked(o) == picking[o] = 0

Step(o, from, row) ==
    /\ restock[o].status = from /\ Unlocked(o)
    /\ restock' = [restock EXCEPT ![o] = row]

\* claimForWarehouse and releaseFromWarehouse: a keeper takes it, or lets go of it,
\* and the status stays as it is.
ClaimRestock(o) ==
    /\ ~restock[o].claimed
    /\ Step(o, "RESTOCK_REQUESTED", [restock[o] EXCEPT !.claimed = TRUE])
    /\ UNCHANGED <<chargeVars, stockVars, binVars, bagVars, minimum>>

ReleaseRestock(o) ==
    /\ restock[o].claimed
    /\ Step(o, "RESTOCK_REQUESTED", [restock[o] EXCEPT !.claimed = FALSE])
    /\ UNCHANGED <<chargeVars, stockVars, binVars, bagVars, minimum>>

\* The warehouse counts what it found, and reserves only that; if no keeper had taken
\* it, it is now of the one who did.
Ready(o, found) ==
    LET b == FindStock(restock[o].from)
        others == IF b = restock[o].at THEN Plus(FreeIn(b), restock[o].lines) ELSE FreeIn(b)
    IN
    /\ Covers(restock[o].lines, found) /\ found # NoUnits
    /\ ActiveBoxes(restock[o].from) # {} /\ Covers(others, found)
    /\ Step(o, "RESTOCK_REQUESTED",
            [restock[o] EXCEPT !.status = "WAITING_FOR_RUNNER", !.lines = found, !.at = b,
                               !.claimed = TRUE])
    /\ UNCHANGED <<chargeVars, stockVars, binVars, bagVars, minimum>>

CancelRestock(o) ==
    /\ \E from \in Reserving : Step(o, from, [restock[o] EXCEPT !.status = "CANCELLED"])
    /\ UNCHANGED <<chargeVars, stockVars, binVars, bagVars, minimum>>

ActiveBags == {g \in Bags : bag[g].status = "ACTIVE"}
NewBags == {g \in Bags : bag[g].status = "NONE"} \ Range(picking)

\* findOrCreateRunnerLocation: the oldest active bag that is committed.
FindOrCreateBag(o) == IF ActiveBags = {} THEN Next1(NewBags) ELSE Next1(ActiveBags)

LookForBag(o) ==
    /\ restock[o].status = "WAITING_FOR_RUNNER" /\ Unlocked(o)
    /\ ActiveBags \cup NewBags # {}
    /\ picking' = [picking EXCEPT ![o] = FindOrCreateBag(o)]
    /\ disturbed' = (disturbed \/ (ActiveBags = {} /\ Range(picking) # {0}))
    /\ UNCHANGED <<chargeVars, stockVars, restock, binVars, bag, minimum>>

\* The order lets go of what it reserved, and it leaves the box it is found in now.
\* If it is not free there, the pick-up is undone.
PickUp(o) ==
    LET b == FindStock(restock[o].from)
        others == IF b = restock[o].at THEN Plus(FreeIn(b), restock[o].lines) ELSE FreeIn(b)
        fits == ActiveBoxes(restock[o].from) # {} /\ Covers(others, restock[o].lines)
    IN
    /\ picking[o] # 0
    /\ picking' = [picking EXCEPT ![o] = 0]
    /\ IF fits
       THEN /\ restock' = [restock EXCEPT ![o].status = "IN_TRANSIT"]
            /\ onHand' = [onHand EXCEPT ![b] = Minus(@, restock[o].lines)]
            /\ bag' = [bag EXCEPT ![picking[o]] = [status |-> IF @.status = "NONE" THEN "ACTIVE" ELSE @.status,
                                                   units |-> Plus(@.units, restock[o].lines)]]
       ELSE UNCHANGED <<restock, onHand, bag>>
    /\ UNCHANGED <<chargeVars, box, binVars, minimum, disturbed>>

Deliver(o) ==
    /\ Step(o, "IN_TRANSIT", [restock[o] EXCEPT !.status = "DELIVERED_TO_STORE"])
    /\ UNCHANGED <<chargeVars, stockVars, binVars, bagVars, minimum>>

\* From the bag that is found now to the counter; an empty one is created, and refused.
Receive(o) ==
    /\ Step(o, "DELIVERED_TO_STORE", [restock[o] EXCEPT !.status = "RECEIVED_BY_STORE"])
    /\ ActiveBags # {}
    /\ Covers(bag[Next1(ActiveBags)].units, restock[o].lines)
    /\ bag' = [bag EXCEPT ![Next1(ActiveBags)].units = Minus(@, restock[o].lines)]
    /\ counter' = Plus(counter, restock[o].lines)
    /\ UNCHANGED <<charge, informed, sold, stockVars, binVars, picking, disturbed, minimum>>

Finish(o) ==
    /\ Step(o, "RECEIVED_BY_STORE", [restock[o] EXCEPT !.status = "RESTOCKED"])
    /\ UNCHANGED <<chargeVars, stockVars, binVars, bagVars, minimum>>

-----------------------------------------------------------------------------
(* What was sold comes back *)

\* External: a return approved with its goods, or an order not bought (ReturnsBinService.hold).
ComeBack(v) ==
    /\ bin[v] + kept[v] + keeping.taken[v] < sold[v]
    /\ bin' = [bin EXCEPT ![v] = @ + 1]
    /\ UNCHANGED <<chargeVars, stockVars, restock, keeping, kept, dropped, bagVars, minimum>>

\* The rows of the bin are locked and taken, and the orders nobody touched are read.
TakeFromBin(S) ==
    LET taken == [v \in Sizes |-> IF v \in S THEN bin[v] ELSE 0] IN
    /\ keeping = NoKeeping /\ taken # NoUnits
    /\ keeping' = [taken |-> taken, read |-> {o \in Orders : restock[o].status = "RESTOCK_REQUESTED"}]
    /\ bin' = Minus(bin, taken)
    /\ UNCHANGED <<chargeVars, stockVars, restock, kept, dropped, bagVars, minimum>>

\* Mutant: every order that fits in what came back falls.
FallsAlone(S, moved) == {o \in S \ moved : Covers(keeping.taken, restock[o].lines)}

\* The newest first, and whole: an order falls if what came back, less what the newer
\* ones that fall took of it, covers it.  One that moved on is left alone.
Falls(S, moved) ==
    CHOOSE F \in SUBSET (S \ moved) :
        \A o \in S \ moved :
            o \in F <=> Covers(Minus(keeping.taken, Total(RestockLines, {x \in F : x > o})),
                              restock[o].lines)

\* Mutant: the status is not read again under the lock.
MovedIgnored == {}

\* What is no longer waiting for anybody to touch it.
Moved == {o \in keeping.read : restock[o].status # "RESTOCK_REQUESTED"}

\* cancelUntouchedRestock: untouched is what is still requested, whether or not a keeper
\* has taken it.
KeepInStore ==
    LET fall == Falls(keeping.read, Moved) IN
    /\ keeping # NoKeeping /\ \A o \in keeping.read : Unlocked(o)
    /\ restock' = [o \in Orders |->
           IF o \in fall THEN [restock[o] EXCEPT !.status = "CANCELLED"] ELSE restock[o]]
    /\ counter' = Plus(counter, keeping.taken)
    /\ kept' = Plus(kept, keeping.taken)
    /\ dropped' = Plus(dropped, Total(RestockLines, fall))
    /\ keeping' = NoKeeping
    /\ UNCHANGED <<charge, informed, sold, stockVars, bin, bagVars, minimum>>

-----------------------------------------------------------------------------
(* Boxes, bags and minimums *)

\* Nothing is asked of a box to deactivate it.
SwitchBox(b) ==
    /\ box' = [box EXCEPT ![b] = ~@]
    /\ UNCHANGED <<chargeVars, onHand, restock, binVars, bagVars, minimum>>

SwitchBag(g) ==
    /\ bag[g].status # "NONE"
    /\ bag' = [bag EXCEPT ![g].status = IF @ = "ACTIVE" THEN "INACTIVE" ELSE "ACTIVE"]
    /\ disturbed' = TRUE
    /\ UNCHANGED <<chargeVars, stockVars, restock, binVars, picking, minimum>>

\* StoreModelMinimumService.apply: one statement, the last one stays.
SetMinimum(m, n) ==
    /\ minimum[m] # n
    /\ minimum' = [minimum EXCEPT ![m] = n]
    /\ UNCHANGED <<chargeVars, stockVars, restock, binVars, bagVars>>

\* External: other documents take units of a box, which its reservations allow.
TakeElsewhere(b, v) ==
    /\ FreeIn(b)[v] > 0
    /\ onHand' = [onHand EXCEPT ![b][v] = @ - 1]
    /\ UNCHANGED <<chargeVars, box, restock, binVars, bagVars, minimum>>

-----------------------------------------------------------------------------
(* Specification *)

RestockInit ==
    /\ counter = Shelf /\ onHand = Stocked /\ box = [b \in Boxes |-> TRUE]
    /\ restock = [o \in Orders |-> [status |-> "NONE", from |-> CHOOSE w \in Warehouses : TRUE,
                                    at |-> CHOOSE b \in Boxes : TRUE, lines |-> NoUnits, urgent |-> FALSE,
                                    claimed |-> FALSE]]
    /\ charge = [c \in Charges |-> NoCharge] /\ informed = {}
    /\ bin = NoUnits /\ keeping = NoKeeping
    /\ bag = [g \in Bags |-> [status |-> "NONE", units |-> NoUnits]]
    /\ picking = [o \in Orders |-> 0]
    /\ minimum = [m \in Range(ModelOf) |-> 0]
    /\ sold = NoUnits /\ kept = NoUnits /\ dropped = NoUnits /\ disturbed = FALSE

ChargeStep ==
    \/ \E c \in Charges :
        \/ \E units \in [Sizes -> 0 .. MaxSold] : Choose(c, units)
        \/ Plan(c)
        \/ Charged(c)
        \/ Undone(c)
    \/ \E b \in Boxes : SwitchBox(b) \/ \E v \in Sizes : TakeElsewhere(b, v)
    \/ \E m \in Range(ModelOf), n \in Minimums : SetMinimum(m, n)

PrepareStep ==
    \E o \in Orders :
        \/ ClaimRestock(o)
        \/ ReleaseRestock(o)
        \/ \E found \in [Sizes -> 0 .. MaxSold] : Ready(o, found)
        \/ CancelRestock(o)

CarryStep ==
    \/ \E o \in Orders :
        \/ LookForBag(o)
        \/ PickUp(o)
        \/ Deliver(o)
        \/ Receive(o)
        \/ Finish(o)
    \/ \E g \in Bags : SwitchBag(g)

BackStep ==
    \/ \E v \in Sizes : ComeBack(v)
    \/ \E S \in SUBSET Sizes : TakeFromBin(S)
    \/ KeepInStore

RestockNext ==
    ChargeStep \/ PrepareStep \/ BackStep \/ CarryStep

RestockSpec == RestockInit /\ [][RestockNext]_restockVars

-----------------------------------------------------------------------------
(* Properties *)

\* Each size a charge left short, over what was already on its way, is either asked of
\* a warehouse, in the size of the same model that was chosen for it, or named to the
\* administrators: the size sold if there was nothing to choose, the one chosen if the
\* warehouses lost it while the charge was looking (restockStore, planBySource).
NoGapForgotten ==
    [][\A c \in Charges :
        charge[c].stage = "PLANNED" /\ charge'[c].stage = "NONE" /\ sold' # sold =>
            \A v \in DOMAIN charge[c].needed :
                \/ v \notin DOMAIN charge[c].lines /\ v \in informed'
                \/ \E x \in Sizes :
                      /\ v \in DOMAIN charge[c].lines /\ x = charge[c].lines[v].source
                      /\ ModelOf[x] = ModelOf[v]
                      /\ \/ x \in informed'
                         \/ \E o \in Orders :
                               /\ restock[o].status = "NONE"
                               /\ restock'[o].status = "RESTOCK_REQUESTED"
                               /\ restock'[o].lines[x] >= charge[c].needed[v]]_restockVars

\* What comes back cancels at most as much restock as it is (cancelUntouchedRestock).
ReturnsCancelTheirShare == Covers(kept, dropped)

\* A restock that was made ready, or is on its way, does not fall because something
\* came back, even if it was only requested when it was looked for.  One that a keeper
\* has only taken does fall, in his hands.
TouchedRestockGoesOn ==
    [][\A o \in Orders : kept' # kept /\ restock'[o].status = "CANCELLED" =>
           restock[o].status \in {"RESTOCK_REQUESTED", "CANCELLED"}]_restockVars

\* What a runner carries is in the bag it will be received from, while no bag is
\* deactivated and no two are created at the same time (findOrCreateRunnerLocation).
BagFoundAgain ==
    LET inHand == {o \in Orders : restock[o].status \in Carried} IN
    ~disturbed /\ inHand # {} =>
        /\ ActiveBags # {}
        /\ bag[Next1(ActiveBags)].units = Total(RestockLines, inHand)

\* What the restocks reserve in a box is in it, although charges, counts, pick-ups and
\* other documents take from it at once and the box in use changes (reserveAt).
ReservedIsThere == \A b \in Boxes : Covers(onHand[b], ReservedIn(b))

\* The goods of a restock are where its status says, in the box it reserves in or in
\* the bag it will be received from, and no more of it falls than what came back.
RestocksAddUp ==
    RestockTypeOK /\ ReturnsCancelTheirShare /\ BagFoundAgain /\ ReservedIsThere
=============================================================================
