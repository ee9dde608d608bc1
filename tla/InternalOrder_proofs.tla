------------------------ MODULE InternalOrder_proofs ------------------------
(***************************************************************************)
(* For any number of orders, references and runners, whatever is reserved  *)
(* and carried is what the orders say; an order that waits for a change    *)
(* has who brings it; and what ended stays ended: proofs about             *)
(* InternalOrder.                                                          *)
(*                                                                         *)
(* A transaction is a state built step by step, so each step has a lemma   *)
(* that says what it leaves (Leaves): a row written, what its order holds, *)
(* every balance still enough for all that is held in it (Sound).  Each    *)
(* operation is a chain of those, and of what it leaves only the rows it   *)
(* touched are looked at (RowFits) and the one bag it touched (BagFits).   *)
(* GoodsIInv is what all of them keep (Committed).                         *)
(***************************************************************************)
EXTENDS InternalOrder, Sums, TLAPS

AllPlaces == Places \cup {"RETURNS"} \cup Runners

LineSets == UNION {[S -> Nat] : S \in SUBSET Variants}

Statuses == {"NONE", "WAITING_FOR_RUNNER"} \cup InWarehouse \cup InRunnerHands
              \cup InStore \cup FinalStatuses

RowSet ==
    [type : {"NONE", "SO", "RE"}, status : Statuses, lines : LineSets, source : Places,
     runner : Runners \cup {None}, parent : Orders \cup {None}, sibling : BOOLEAN, left : BOOLEAN]

\* The states of a transaction; a balance that was not checked may be below zero.
State ==
    [order : [Orders -> RowSet], onHand : [AllPlaces -> [Variants -> Int]],
     held : [Orders -> HeldRow], bin : [Orders -> Units], aside : [Places -> Units],
     draft : [Orders -> Units \cup {None}], ok : BOOLEAN]

\* If nothing was refused no balance is below zero, nor below what is reserved there.
Sound(t) ==
    /\ t \in State
    /\ t.ok => /\ \A p \in AllPlaces, v \in Variants : t.onHand[p][v] >= 0
               /\ \A p \in Places, v \in Variants : Free(t, p)[v] >= 0

-----------------------------------------------------------------------------
(* Rows, one by one *)

BeforeArrival == InWarehouse \cup InRunnerHands \cup {"WAITING_FOR_RUNNER"}

HoldRow(p, units) == IF units = Zero THEN NothingHeld ELSE [at |-> p, units |-> units]

\* Holding, of a row and of what its draft holds.
HoldingOf(row, d) ==
    IF row.status \in InWarehouse THEN HoldRow("WAREHOUSE", QuantitiesOf(row.lines))
    ELSE IF (row.status \in InStore /\ d = None) \/ row.status = "WAITING_FOR_RUNNER"
    THEN HoldRow("STORE", QuantitiesOf(row.lines))
    ELSE NothingHeld

\* Where the goods of a row are, and that they have not left the bag before they arrive.
HoldsRight(row, h, d) ==
    /\ h = HoldingOf(row, d)
    /\ d # None => row.status = "PENDING_PAYMENT" /\ d = QuantitiesOf(row.lines)
    /\ row.status \in BeforeArrival => ~row.left

\* An order is at a stage of its type, in somebody's hands once picked up.
RowOK(x, row) ==
    /\ row.type = "NONE" <=> row.status = "NONE"
    /\ row.type = "NONE" => row.runner = None
    /\ row.type = "SO" =>
         /\ row.status \in InWarehouse \cup InStore \cup FinalStatuses
                             \cup {"IN_TRANSIT", "DELIVERED_TO_STORE"}
         /\ row.status \in InWarehouse => row.source = "WAREHOUSE"
    /\ row.type = "RE" =>
         /\ row.status \in {"WAITING_FOR_RUNNER", "IN_TRANSIT_TO_WAREHOUSE",
                            "DELIVERED_TO_WAREHOUSE", "RETURNED", "CANCELLED"}
         /\ row.source = "STORE"
    /\ row.status \in InRunnerHands => row.runner \in Runners
    /\ row.parent # x

\* What no operation changes of a row.
RowKept(old, new) ==
    /\ old.status \in FinalStatuses => new = old
    /\ old.runner # None => new.runner = old.runner
    /\ old.type # "NONE" => /\ new.type = old.type /\ new.parent = old.parent
                            /\ new.sibling = old.sibling

\* A sub-order on its way with a change for order p.
Bringing(row, p) ==
    /\ row.type = "SO" /\ row.parent = p /\ ~row.sibling
    /\ row.status \in InWarehouse \cup {"IN_TRANSIT", "DELIVERED_TO_STORE"}

EmptiedRow(row) == row.status = "CANCELLED" /\ row.lines = NoLines

Waits ==
    \A p \in Orders : order[p].status = "ITEM_CHANGE_REQUESTED" =>
        \E sub \in Orders :
            \/ Bringing(order[sub], p)
            \/ order[sub].parent = p /\ (EmptiedRow(order[sub]) \/ sub \in altered)

\* What a row puts in a runner's bag.
Carries(row, r, v) ==
    IF row.runner = r /\ row.status \in InRunnerHands THEN QuantitiesOf(row.lines)[v] ELSE 0

Bags(t) == [r \in Runners |-> t.onHand[r]]

GoodsIInv ==
    /\ Sound(Now) /\ altered \subseteq Orders
    /\ \A x \in Orders : RowOK(x, order[x])
    /\ \A x \in altered : order[x].type # "NONE"
    /\ \A x \in Orders \ altered : HoldsRight(order[x], held[x], draft[x])
    /\ BagMatchesOrders /\ Waits

-----------------------------------------------------------------------------
(* What a transaction may do to the rows *)

SameRow(u, x) == u.order[x] = order[x] /\ u.held[x] = held[x] /\ u.draft[x] = draft[x]

RowFits(u, changed, x) ==
    /\ RowOK(x, u.order[x]) /\ RowKept(order[x], u.order[x])
    /\ x \notin altered \cup changed => HoldsRight(u.order[x], u.held[x], u.draft[x])
    /\ x \in changed => u.order[x].type # "NONE"
    /\ u.order[x].status = "ITEM_CHANGE_REQUESTED" =>
         \/ order[x].status = "ITEM_CHANGE_REQUESTED"
         \/ \E sub \in Orders : Bringing(u.order[sub], x)
    /\ \A p \in Orders :
         Bringing(order[x], p) /\ u.order[p].status = "ITEM_CHANGE_REQUESTED" =>
             Bringing(u.order[x], p) \/ EmptiedRow(u.order[x]) \/ x \in altered \cup changed

\* A bag, before and after the goods of one order entered it or left it.
OneCarries(old, new, r, o, b, c) ==
    \A v \in Variants :
        /\ \A x \in Orders \ {o} : Carries(new[x], r, v) = Carries(old[x], r, v)
        /\ c[v] = b[v] + Carries(new[o], r, v) - Carries(old[o], r, v)

\* One order at most puts into a bag or takes out of it.
BagFits(u, changed) ==
    \A r \in Runners :
        (\A x \in altered \cup changed : u.order[x].runner # r) =>
            \/ u.order = order /\ u.onHand[r] = onHand[r]
            \/ \E o \in Orders : OneCarries(order, u.order, r, o, onHand[r], u.onHand[r])

Fits(u, changed) ==
    /\ Sound(u) /\ changed \subseteq Orders
    /\ \A x \in Orders : RowFits(u, changed, x)
    /\ BagFits(u, changed)

-----------------------------------------------------------------------------
(* Lines *)

LEMMA ZeroUnits == Zero \in Units /\ \A v \in Variants : Zero[v] = 0
BY DEF Zero, Units

LEMMA NoLinesMoveNothing == NoLines \in LineSets /\ QuantitiesOf(NoLines) = Zero
BY DEF NoLines, LineSets, QuantitiesOf, Zero

LEMMA LinesAre ==
  ASSUME NEW l
  PROVE  l \in LineSets <=> \E S \in SUBSET Variants : l \in [S -> Nat]
BY DEF LineSets

LEMMA LinesAreLines ==
  ASSUME NEW l \in LineSets
  PROVE  IsLines(l) /\ QuantitiesOf(l) \in Units
<1>1. PICK S \in SUBSET Variants : l \in [S -> Nat]
  BY LinesAre
<1> QED
  BY <1>1 DEF IsLines, QuantitiesOf, Units

LEMMA JoinIsLines ==
  ASSUME NEW l \in LineSets, NEW m \in LineSets
  PROVE  Join(l, m) \in LineSets
<1>1. /\ DOMAIN l \cup DOMAIN m \in SUBSET Variants
      /\ QuantitiesOf(l) \in Units /\ QuantitiesOf(m) \in Units
  BY LinesAreLines DEF IsLines
<1>2. Join(l, m) \in [DOMAIN l \cup DOMAIN m -> Nat]
  BY <1>1 DEF Join, Units
<1> QED
  BY <1>1, <1>2, LinesAre

LEMMA PartIsLines ==
  ASSUME NEW l \in LineSets, NEW S
  PROVE  Only(l, S) \in LineSets /\ Without(l, S) \in LineSets
<1>1. IsLines(l)
  BY LinesAreLines
<1>2. /\ Only(l, S) \in [S \cap DOMAIN l -> Nat] /\ Without(l, S) \in [DOMAIN l \ S -> Nat]
      /\ S \cap DOMAIN l \in SUBSET Variants /\ DOMAIN l \ S \in SUBSET Variants
  BY <1>1 DEF Only, Without, Restrict, IsLines
<1> QED
  BY <1>2, LinesAre

LEMMA InputsAreLines == Inputs \subseteq LineSets
<1> SUFFICES ASSUME NEW l \in Inputs PROVE l \in LineSets
  OBVIOUS
<1>1. PICK S \in SUBSET Variants : l \in [S -> 1 .. MaxUnits]
  BY DEF Inputs
<1>2. l \in [S -> Nat]
  BY <1>1, InternalOrderAssumption
<1> QED
  BY <1>2, LinesAre

-----------------------------------------------------------------------------
(* What is reserved and what is free *)

LEMMA StateFields ==
  ASSUME NEW t \in State
  PROVE  /\ t.order \in [Orders -> RowSet] /\ t.onHand \in [AllPlaces -> [Variants -> Int]]
         /\ t.held \in [Orders -> HeldRow] /\ t.bin \in [Orders -> Units]
         /\ t.aside \in [Places -> Units] /\ t.draft \in [Orders -> Units \cup {None}]
         /\ t.ok \in BOOLEAN
BY DEF State

LEMMA RowFields ==
  ASSUME NEW row \in RowSet
  PROVE  /\ row.type \in {"NONE", "SO", "RE"} /\ row.status \in Statuses /\ row.lines \in LineSets
         /\ row.source \in Places /\ row.runner \in Runners \cup {None}
         /\ row.parent \in Orders \cup {None} /\ row.sibling \in BOOLEAN /\ row.left \in BOOLEAN
BY DEF RowSet

LEMMA HeldFields ==
  ASSUME NEW h \in HeldRow
  PROVE  h.at \in Places \cup {None} /\ h.units \in Units /\ \A v \in Variants : h.units[v] \in Nat
BY DEF HeldRow, Units

LEMMA NothingHeldRow ==
  /\ NothingHeld \in HeldRow /\ NothingHeld.units = Zero
  /\ \A p \in Places, units \in Units : HoldRow(p, units) \in HeldRow
BY ZeroUnits DEF NothingHeld, HeldRow, HoldRow

LEMMA PlaceNames ==
  /\ "STORE" \in Places /\ "WAREHOUSE" \in Places /\ Places = {"WAREHOUSE", "STORE"}
  /\ "RETURNS" \in AllPlaces \ Places /\ Places \subseteq AllPlaces
  /\ Runners \subseteq AllPlaces \ Places /\ "RETURNS" \notin Runners
  /\ None \notin Orders /\ None \notin Runners /\ None \notin Units /\ IsFiniteSet(Orders)
BY InternalOrderAssumption DEF Places, AllPlaces, Units

\* Sums over all orders of what each has set apart.
Booked(t, p, v) == SumFunctionOnSet([o \in Orders |-> Apart(t, o, p)[v]], Orders)

\* The three parts of it.
HeldAt(h, p, v)  == IF h.at = p THEN h.units[v] ELSE 0
BinAt(b, p, v)   == IF p = "STORE" THEN b[v] ELSE 0
DraftAt(d, p, v) == IF p = "STORE" /\ d # None THEN d[v] ELSE 0

LEMMA PartsAre ==
  /\ \A p : \A h \in HeldRow, v \in Variants : HeldAt(h, p, v) \in Nat
  /\ \A p : \A b \in Units, v \in Variants : BinAt(b, p, v) \in Nat
  /\ \A p : \A d \in Units \cup {None}, v \in Variants : DraftAt(d, p, v) \in Nat
  /\ \A p \in Places, v \in Variants : HeldAt(NothingHeld, p, v) = 0 /\ DraftAt(None, p, v) = 0
  /\ \A p, q \in Places, units \in Units, v \in Variants :
       HeldAt(HoldRow(p, units), q, v) = IF q = p THEN units[v] ELSE 0
  /\ \A p : \A a \in Units, b \in Units, v \in Variants :
       BinAt(Add(a, b), p, v) = BinAt(a, p, v) + (IF p = "STORE" THEN b[v] ELSE 0)
<1>1. \A p : \A h \in HeldRow, v \in Variants : HeldAt(h, p, v) \in Nat
  BY HeldFields DEF HeldAt
<1>2. \A p : \A b \in Units, v \in Variants : BinAt(b, p, v) \in Nat
  BY DEF BinAt, Units
<1>3. \A p : \A d \in Units \cup {None}, v \in Variants : DraftAt(d, p, v) \in Nat
  BY DEF DraftAt, Units
<1>4. \A p \in Places, v \in Variants : HeldAt(NothingHeld, p, v) = 0 /\ DraftAt(None, p, v) = 0
  BY ZeroUnits, NothingHeldRow DEF HeldAt, DraftAt
<1>5. ASSUME NEW p \in Places, NEW q \in Places, NEW units \in Units, NEW v \in Variants
      PROVE  HeldAt(HoldRow(p, units), q, v) = IF q = p THEN units[v] ELSE 0
  <2>1. CASE units = Zero
    BY <1>4, <2>1, ZeroUnits DEF HoldRow
  <2>2. CASE units # Zero
    BY <2>2 DEF HoldRow, HeldAt
  <2> QED
    BY <2>1, <2>2
<1>6. \A p : \A a \in Units, b \in Units, v \in Variants :
       BinAt(Add(a, b), p, v) = BinAt(a, p, v) + (IF p = "STORE" THEN b[v] ELSE 0)
  BY DEF BinAt, Add, Units
<1> QED
  BY <1>1, <1>2, <1>3, <1>4, <1>5, <1>6

LEMMA ApartIs ==
  ASSUME NEW t \in State, NEW o \in Orders, NEW p, NEW v \in Variants
  PROVE  /\ Apart(t, o, p)[v] =
              HeldAt(t.held[o], p, v) + BinAt(t.bin[o], p, v) + DraftAt(t.draft[o], p, v)
         /\ HeldAt(t.held[o], p, v) \in Nat /\ BinAt(t.bin[o], p, v) \in Nat
         /\ DraftAt(t.draft[o], p, v) \in Nat /\ Apart(t, o, p)[v] \in Nat
<1>1. t.held[o] \in HeldRow /\ t.bin[o] \in Units /\ t.draft[o] \in Units \cup {None}
  BY StateFields
<1>2. /\ HeldAt(t.held[o], p, v) \in Nat /\ BinAt(t.bin[o], p, v) \in Nat
      /\ DraftAt(t.draft[o], p, v) \in Nat
  BY <1>1, PartsAre
<1>3. Apart(t, o, p)[v] =
        HeldAt(t.held[o], p, v) + BinAt(t.bin[o], p, v) + DraftAt(t.draft[o], p, v)
  BY DEF Apart, HeldAt, BinAt, DraftAt
<1> QED
  BY <1>2, <1>3

LEMMA FreeIs ==
  ASSUME NEW t \in State, NEW p \in Places, NEW v \in Variants
  PROVE  /\ Free(t, p)[v] = t.onHand[p][v] - t.aside[p][v] - Booked(t, p, v)
         /\ Booked(t, p, v) \in Nat /\ t.onHand[p][v] \in Int /\ t.aside[p][v] \in Nat
         /\ Free(t, p)[v] \in Int
<1> DEFINE f == [o \in Orders |-> Apart(t, o, p)[v]]
<1>1. f = [o \in Orders |-> [x \in Orders |-> Apart(t, x, p)][o][v]]
  OBVIOUS
<1>2. Booked(t, p, v) = SumFunctionOnSet(f, Orders)
  BY DEF Booked
<1>3. Booked(t, p, v) \in Nat
  <2>1. \A o \in Orders : f[o] \in Nat
    BY ApartIs
  <2>2. IsFiniteSet(Orders)
    BY PlaceNames
  <2> HIDE DEF f
  <2> QED
    BY <1>2, <2>1, <2>2, SumNat
<1>4. t.onHand[p][v] \in Int /\ t.aside[p][v] \in Nat
  <2>1. p \in AllPlaces
    BY PlaceNames
  <2>2. t.onHand \in [AllPlaces -> [Variants -> Int]] /\ t.aside \in [Places -> [Variants -> Nat]]
    BY StateFields DEF Units
  <2> QED
    BY <2>1, <2>2
<1>5. DOMAIN f = Orders
  OBVIOUS
<1>6. SumUnits([x \in Orders |-> Apart(t, x, p)], Orders)[v] = Booked(t, p, v)
  BY <1>1, <1>2, <1>5 DEF SumUnits, SumFunction
<1>7. Free(t, p)[v] = t.onHand[p][v] - t.aside[p][v] - Booked(t, p, v)
  BY <1>6 DEF Free, Sub
<1> QED
  BY <1>3, <1>4, <1>7

LEMMA FreeElsewhere ==
  ASSUME NEW t, NEW p \in AllPlaces \ Places
  PROVE  Free(t, p) = t.onHand[p]
BY DEF Free

LEMMA FreeType ==
  ASSUME NEW t \in State, NEW p \in AllPlaces, NEW v \in Variants
  PROVE  Free(t, p)[v] \in Int /\ Free(t, p)[v] <= t.onHand[p][v] /\ t.onHand[p][v] \in Int
<1>1. t.onHand[p][v] \in Int
  BY StateFields
<1>2. CASE p \in Places
  BY <1>1, <1>2, FreeIs
<1>3. CASE p \notin Places
  BY <1>1, <1>3, FreeElsewhere
<1> QED
  BY <1>2, <1>3

LEMMA BookedSame ==
  ASSUME NEW t \in State, NEW u \in State, NEW p \in Places, NEW v \in Variants,
         \A x \in Orders : Apart(u, x, p)[v] = Apart(t, x, p)[v]
  PROVE  Booked(u, p, v) = Booked(t, p, v)
BY PlaceNames, SumSame DEF Booked

LEMMA BookedChange ==
  ASSUME NEW t \in State, NEW u \in State, NEW p \in Places, NEW v \in Variants, NEW o \in Orders,
         \A x \in Orders \ {o} : Apart(u, x, p)[v] = Apart(t, x, p)[v]
  PROVE  Booked(u, p, v) = Booked(t, p, v) - Apart(t, o, p)[v] + Apart(u, o, p)[v]
<1> DEFINE f == [x \in Orders |-> Apart(t, x, p)[v]]
           g == [x \in Orders |-> Apart(u, x, p)[v]]
<1>1. /\ \A x \in Orders : f[x] \in Int /\ g[x] \in Int
      /\ \A x \in Orders \ {o} : f[x] = g[x]
      /\ f[o] = Apart(t, o, p)[v] /\ g[o] = Apart(u, o, p)[v]
  BY ApartIs
<1>2. Booked(t, p, v) = SumFunctionOnSet(f, Orders) /\ Booked(u, p, v) = SumFunctionOnSet(g, Orders)
  BY DEF Booked
<1> HIDE DEF f, g
<1> QED
  BY <1>1, <1>2, PlaceNames, SumChange

\* One order sets more or less apart; balances and damages may change too.
LEMMA FreeChange ==
  ASSUME NEW t \in State, NEW u \in State, NEW p \in Places, NEW v \in Variants, NEW o \in Orders,
         \A x \in Orders \ {o} :
             u.held[x] = t.held[x] /\ u.bin[x] = t.bin[x] /\ u.draft[x] = t.draft[x]
  PROVE  Free(u, p)[v] = Free(t, p)[v] + (u.onHand[p][v] - t.onHand[p][v])
                           - (u.aside[p][v] - t.aside[p][v])
                           - (Apart(u, o, p)[v] - Apart(t, o, p)[v])
<1>1. \A x \in Orders \ {o} : Apart(u, x, p)[v] = Apart(t, x, p)[v]
  BY ApartIs
<1>2. Booked(u, p, v) = Booked(t, p, v) - Apart(t, o, p)[v] + Apart(u, o, p)[v]
  BY <1>1, BookedChange
<1>3. Apart(t, o, p)[v] \in Nat /\ Apart(u, o, p)[v] \in Nat
  BY ApartIs
<1> QED
  BY <1>2, <1>3, FreeIs

\* What is written in the rows of orders changes nothing of that.
LEMMA FreeSame ==
  ASSUME NEW t \in State, NEW u \in State, NEW p \in AllPlaces, NEW v \in Variants,
         u.onHand[p][v] = t.onHand[p][v], u.aside = t.aside,
         u.held = t.held, u.bin = t.bin, u.draft = t.draft
  PROVE  Free(u, p)[v] = Free(t, p)[v]
<1>1. CASE p \in Places
  <2>1. \A x \in Orders : Apart(u, x, p)[v] = Apart(t, x, p)[v]
    BY ApartIs
  <2> QED
    BY <1>1, <2>1, BookedSame, FreeIs
<1>2. CASE p \notin Places
  BY <1>2, FreeElsewhere
<1> QED
  BY <1>1, <1>2

-----------------------------------------------------------------------------
(* The steps that transactions are built of *)

OnlyRows(u, t) ==
    /\ u.onHand = t.onHand /\ u.held = t.held /\ u.bin = t.bin
    /\ u.aside = t.aside /\ u.draft = t.draft /\ u.ok = t.ok

LEMMA OnlyRowsSound ==
  ASSUME NEW t, Sound(t), NEW u \in State, OnlyRows(u, t)
  PROVE  Sound(u)
<1>1. /\ t \in State /\ u.onHand = t.onHand /\ u.held = t.held /\ u.bin = t.bin
      /\ u.aside = t.aside /\ u.draft = t.draft /\ u.ok = t.ok
  BY DEF OnlyRows, Sound
<1>2. ASSUME NEW p \in Places, NEW v \in Variants PROVE Free(u, p)[v] = Free(t, p)[v]
  <2>1. p \in AllPlaces
    BY PlaceNames
  <2> QED
    BY <1>1, <2>1, FreeSame
<1> QED
  BY <1>1, <1>2 DEF Sound

Wrote(u, t, o, row) ==
    /\ OnlyRows(u, t) /\ u.order[o] = row /\ row \in RowSet
    /\ \A x \in Orders \ {o} : u.order[x] = t.order[x]

\* Writing the row of an order.
LEMMA Rewritten ==
  ASSUME NEW t, Sound(t), NEW o \in Orders, NEW row \in RowSet
  PROVE  /\ Sound([t EXCEPT !.order = [@ EXCEPT ![o] = row]])
         /\ Wrote([t EXCEPT !.order = [@ EXCEPT ![o] = row]], t, o, row)
<1>a. PICK u : u = [t EXCEPT !.order = [@ EXCEPT ![o] = row]]
  OBVIOUS
<1>1. t \in State /\ t.order \in [Orders -> RowSet]
  BY StateFields DEF Sound
<1>2. u \in State /\ OnlyRows(u, t) /\ u.order = [t.order EXCEPT ![o] = row]
  BY <1>a, <1>1 DEF State, OnlyRows
<1>3. Sound(u)
  BY <1>2, OnlyRowsSound
<1>4. Wrote(u, t, o, row)
  BY <1>1, <1>2 DEF Wrote
<1> QED
  BY <1>a, <1>3, <1>4

LEMMA SetStatusDoes ==
  ASSUME NEW t, Sound(t), NEW o \in Orders, NEW status \in Statuses
  PROVE  /\ Sound(SetStatus(t, o, status))
         /\ Wrote(SetStatus(t, o, status), t, o, [t.order[o] EXCEPT !.status = status])
<1>a. PICK row : row = [t.order[o] EXCEPT !.status = status]
  OBVIOUS
<1>1. t \in State /\ t.order[o] \in RowSet
  BY StateFields DEF Sound
<1>2. row \in RowSet
  BY <1>a, <1>1 DEF RowSet
<1>3. SetStatus(t, o, status) = [t EXCEPT !.order = [@ EXCEPT ![o] = row]]
  BY <1>a DEF SetStatus
<1> QED
  BY <1>a, <1>2, <1>3, Rewritten

LEMMA NewVersionDoes ==
  ASSUME NEW t, Sound(t), NEW o \in Orders, NEW lines \in LineSets
  PROVE  /\ Sound(NewVersion(t, o, lines))
         /\ Wrote(NewVersion(t, o, lines), t, o, [t.order[o] EXCEPT !.lines = lines])
<1>a. PICK row : row = [t.order[o] EXCEPT !.lines = lines]
  OBVIOUS
<1>1. t \in State /\ t.order[o] \in RowSet
  BY StateFields DEF Sound
<1>2. row \in RowSet
  BY <1>a, <1>1 DEF RowSet
<1>3. NewVersion(t, o, lines) = [t EXCEPT !.order = [@ EXCEPT ![o] = row]]
  BY <1>a DEF NewVersion
<1> QED
  BY <1>a, <1>2, <1>3, Rewritten

LEMMA CreateDoes ==
  ASSUME NEW t, Sound(t), NEW o \in Orders, NEW row \in RowSet
  PROVE  Sound(Create(t, o, row)) /\ Wrote(Create(t, o, row), t, o, row)
<1>1. Create(t, o, row) = [t EXCEPT !.order = [@ EXCEPT ![o] = row]]
  BY DEF Create
<1> QED
  BY <1>1, Rewritten

\* One order sets more apart than it did, and there was enough.
LEMMA Books ==
  ASSUME NEW t, Sound(t), NEW u \in State, NEW o \in Orders,
         u.onHand = t.onHand, u.aside = t.aside,
         \A x \in Orders \ {o} :
             u.held[x] = t.held[x] /\ u.bin[x] = t.bin[x] /\ u.draft[x] = t.draft[x],
         u.ok => t.ok /\ \A p \in Places, v \in Variants :
                            Apart(u, o, p)[v] - Apart(t, o, p)[v] <= Free(t, p)[v]
  PROVE  Sound(u)
<1> SUFFICES ASSUME u.ok PROVE /\ \A p \in AllPlaces, v \in Variants : u.onHand[p][v] >= 0
                               /\ \A p \in Places, v \in Variants : Free(u, p)[v] >= 0
  BY DEF Sound
<1>1. t \in State /\ t.ok
  BY DEF Sound
<1>2. ASSUME NEW p \in Places, NEW v \in Variants PROVE Free(u, p)[v] >= 0
  <2>1. Free(u, p)[v] = Free(t, p)[v] + (u.onHand[p][v] - t.onHand[p][v])
                           - (u.aside[p][v] - t.aside[p][v])
                           - (Apart(u, o, p)[v] - Apart(t, o, p)[v])
    BY <1>1, FreeChange
  <2>2. /\ Free(t, p)[v] \in Int /\ t.onHand[p][v] \in Int /\ t.aside[p][v] \in Nat
        /\ Apart(u, o, p)[v] \in Nat /\ Apart(t, o, p)[v] \in Nat
    BY <1>1, FreeIs, ApartIs
  <2>3. Apart(u, o, p)[v] - Apart(t, o, p)[v] <= Free(t, p)[v]
    OBVIOUS
  <2> QED
    BY <2>1, <2>2, <2>3
<1> QED
  BY <1>1, <1>2 DEF Sound

SameBut(u, t, o) ==
    \A x \in Orders \ {o} :
        u.held[x] = t.held[x] /\ u.bin[x] = t.bin[x] /\ u.draft[x] = t.draft[x]

\* What the order o holds for itself becomes h, and nothing else changes.
Holds(u, t, o, h) ==
    /\ u.order = t.order /\ u.onHand = t.onHand /\ u.bin = t.bin
    /\ u.aside = t.aside /\ u.draft = t.draft /\ (u.ok => t.ok)
    /\ u.held[o] = h /\ \A x \in Orders \ {o} : u.held[x] = t.held[x]

LEMMA ReleaseDoes ==
  ASSUME NEW t, Sound(t), NEW o \in Orders
  PROVE  Sound(Release(t, o)) /\ Holds(Release(t, o), t, o, NothingHeld)
<1>a. PICK u : u = Release(t, o)
  OBVIOUS
<1>1. t \in State /\ t.held \in [Orders -> HeldRow] /\ NothingHeld \in HeldRow
  BY StateFields, NothingHeldRow DEF Sound
<1>2. /\ u \in State /\ u.ok = t.ok /\ u.order = t.order /\ u.onHand = t.onHand
      /\ u.bin = t.bin /\ u.aside = t.aside /\ u.draft = t.draft
      /\ u.held = [t.held EXCEPT ![o] = NothingHeld]
  BY <1>a, <1>1 DEF State, Release
<1>3. u.held[o] = NothingHeld /\ \A x \in Orders \ {o} : u.held[x] = t.held[x]
  BY <1>1, <1>2
<1>4. ASSUME t.ok, NEW p \in Places, NEW v \in Variants
      PROVE  Apart(u, o, p)[v] - Apart(t, o, p)[v] <= Free(t, p)[v]
  <2>1. Free(t, p)[v] >= 0 /\ Free(t, p)[v] \in Int
    BY <1>1, <1>4, FreeIs DEF Sound
  <2>2. /\ HeldAt(u.held[o], p, v) = 0 /\ u.bin[o] = t.bin[o] /\ u.draft[o] = t.draft[o]
    BY <1>2, <1>3, PartsAre
  <2>3. Apart(u, o, p)[v] <= Apart(t, o, p)[v]
    BY <1>1, <1>2, <2>2, ApartIs
  <2> QED
    BY <1>1, <1>2, <2>1, <2>3, ApartIs
<1>5. Sound(u)
  BY <1>1, <1>2, <1>3, <1>4, Books
<1> QED
  BY <1>a, <1>2, <1>3, <1>5 DEF Holds

LEMMA ReserveAtDoes ==
  ASSUME NEW t, Sound(t), NEW o \in Orders, NEW p \in Places, NEW units \in Units
  PROVE  /\ Sound(ReserveAt(t, o, p, units))
         /\ Holds(ReserveAt(t, o, p, units), t, o, HoldRow(p, units))
<1>a. PICK r : r = Release(t, o)
  OBVIOUS
<1>b. PICK u : u = ReserveAt(t, o, p, units)
  OBVIOUS
<1>c. PICK h : h = HoldRow(p, units)
  OBVIOUS
<1>1. /\ Sound(r) /\ Holds(r, t, o, NothingHeld)
  BY <1>a, ReleaseDoes
<1>2. r \in State /\ r.held \in [Orders -> HeldRow] /\ h \in HeldRow
  BY <1>1, <1>c, StateFields, NothingHeldRow DEF Sound
<1>3. u = [r EXCEPT !.held[o] = h, !.ok = Needs(r, p, units)]
  BY <1>a, <1>b, <1>c DEF ReserveAt, HoldRow
<1>4. Needs(r, p, units) \in BOOLEAN
  BY <1>2, StateFields DEF Needs, Covers
<1>5. /\ u \in State /\ u.ok = Needs(r, p, units) /\ u.order = r.order /\ u.onHand = r.onHand
      /\ u.bin = r.bin /\ u.aside = r.aside /\ u.draft = r.draft
      /\ u.held = [r.held EXCEPT ![o] = h]
  <2> HIDE <1>4
  <2>1. PICK ok \in BOOLEAN : ok = Needs(r, p, units)
    BY <1>4
  <2>2. u = [r EXCEPT !.held[o] = h, !.ok = ok]
    BY <1>3, <2>1
  <2>3. /\ u \in State /\ u.ok = ok /\ u.order = r.order /\ u.onHand = r.onHand
        /\ u.bin = r.bin /\ u.aside = r.aside /\ u.draft = r.draft
        /\ u.held = [r.held EXCEPT ![o] = h]
    BY <1>2, <2>2 DEF State
  <2> QED
    BY <2>1, <2>3
<1>6. u.held[o] = h /\ \A x \in Orders \ {o} : u.held[x] = r.held[x]
  BY <1>2, <1>5
<1>7. ASSUME u.ok, NEW q \in Places, NEW v \in Variants
      PROVE  Apart(u, o, q)[v] - Apart(r, o, q)[v] <= Free(r, q)[v]
  <2>1. r.ok /\ Free(r, p)[v] >= units[v] /\ units[v] \in Nat
    BY <1>5, <1>7 DEF Needs, Covers, Units
  <2>2. Free(r, q)[v] >= 0 /\ Free(r, q)[v] \in Int
    BY <1>1, <1>2, <2>1, FreeIs DEF Sound
  <2>3. /\ HeldAt(u.held[o], q, v) = IF q = p THEN units[v] ELSE 0
        /\ HeldAt(r.held[o], q, v) = 0
        /\ u.bin[o] = r.bin[o] /\ u.draft[o] = r.draft[o]
    BY <1>1, <1>5, <1>6, <1>c, PartsAre DEF Holds
  <2>4. Apart(u, o, q)[v] - Apart(r, o, q)[v] = IF q = p THEN units[v] ELSE 0
    BY <1>2, <1>5, <2>1, <2>3, ApartIs
  <2> QED
    BY <2>1, <2>2, <2>4
<1>8. u.ok => r.ok
  BY <1>5 DEF Needs
<1>9. Sound(u)
  BY <1>1, <1>5, <1>6, <1>7, <1>8, Books
<1> QED
  BY <1>1, <1>5, <1>6, <1>8, <1>9, <1>b, <1>c DEF Holds

\* The bin, in the name of the order, and nothing else.
Binned(u, t) ==
    /\ u.order = t.order /\ u.onHand = t.onHand /\ u.held = t.held
    /\ u.aside = t.aside /\ u.draft = t.draft /\ (u.ok => t.ok)

LEMMA HoldInBinDoes ==
  ASSUME NEW t, Sound(t), NEW o \in Orders, NEW units \in Units
  PROVE  Sound(HoldInBin(t, o, units)) /\ Binned(HoldInBin(t, o, units), t)
<1>a. PICK u : u = HoldInBin(t, o, units)
  OBVIOUS
<1>b. PICK b : b = Add(t.bin[o], units)
  OBVIOUS
<1>1. t \in State /\ t.bin \in [Orders -> Units]
  BY StateFields DEF Sound
<1>2. b \in Units
  BY <1>1, <1>b DEF Add, Units
<1>3. PICK ok \in BOOLEAN : ok = Needs(t, "STORE", units)
  BY <1>1, StateFields DEF Needs, Covers
<1>4. u = [t EXCEPT !.ok = ok, !.bin[o] = b]
  BY <1>a, <1>b, <1>3 DEF HoldInBin
<1>5. /\ u \in State /\ u.ok = ok /\ u.order = t.order /\ u.onHand = t.onHand
      /\ u.held = t.held /\ u.aside = t.aside /\ u.draft = t.draft
      /\ u.bin = [t.bin EXCEPT ![o] = b]
  BY <1>1, <1>2, <1>4 DEF State
<1>6. u.bin[o] = b /\ \A x \in Orders \ {o} : u.bin[x] = t.bin[x]
  BY <1>1, <1>5
<1>7. ASSUME u.ok, NEW p \in Places, NEW v \in Variants
      PROVE  Apart(u, o, p)[v] - Apart(t, o, p)[v] <= Free(t, p)[v]
  <2>1. t.ok /\ Free(t, "STORE")[v] >= units[v] /\ units[v] \in Nat
    BY <1>3, <1>5, <1>7 DEF Needs, Covers, Units
  <2>2. Free(t, p)[v] >= 0 /\ Free(t, p)[v] \in Int
    BY <1>1, <2>1, FreeIs DEF Sound
  <2>3. BinAt(u.bin[o], p, v) = BinAt(t.bin[o], p, v) + (IF p = "STORE" THEN units[v] ELSE 0)
    BY <1>1, <1>6, <1>b, PartsAre
  <2>4. Apart(u, o, p)[v] - Apart(t, o, p)[v] = IF p = "STORE" THEN units[v] ELSE 0
    BY <1>1, <1>5, <2>1, <2>3, ApartIs
  <2> QED
    BY <2>1, <2>2, <2>4
<1>8. u.ok => t.ok
  BY <1>3, <1>5 DEF Needs
<1>9. Sound(u)
  BY <1>5, <1>6, <1>7, <1>8, Books
<1> QED
  BY <1>a, <1>5, <1>8, <1>9 DEF Binned

-----------------------------------------------------------------------------
(* What the steps leave in the row of an order, and in what it holds *)

WithStatus(row, status) == [row EXCEPT !.status = status]
WithLines(row, lines)   == [row EXCEPT !.lines = lines]
WithRunner(row, r)      == [row EXCEPT !.runner = r]
WithLeft(row, left)     == [row EXCEPT !.left = left]

SameBut4(new, old) ==
    new.type = old.type /\ new.source = old.source /\ new.parent = old.parent
    /\ new.sibling = old.sibling

LEMMA StatusFields ==
  ASSUME NEW row \in RowSet, NEW status \in Statuses
  PROVE  LET new == WithStatus(row, status)
         IN  /\ new \in RowSet /\ SameBut4(new, row) /\ new.status = status
             /\ new.lines = row.lines /\ new.runner = row.runner /\ new.left = row.left
BY DEF WithStatus, RowSet, SameBut4

LEMMA LinesFields ==
  ASSUME NEW row \in RowSet, NEW lines \in LineSets
  PROVE  LET new == WithLines(row, lines)
         IN  /\ new \in RowSet /\ SameBut4(new, row) /\ new.status = row.status
             /\ new.lines = lines /\ new.runner = row.runner /\ new.left = row.left
BY DEF WithLines, RowSet, SameBut4

LEMMA RunnerFields ==
  ASSUME NEW row \in RowSet, NEW r \in Runners
  PROVE  LET new == WithRunner(row, r)
         IN  /\ new \in RowSet /\ SameBut4(new, row) /\ new.status = row.status
             /\ new.lines = row.lines /\ new.runner = r /\ new.left = row.left
BY DEF WithRunner, RowSet, SameBut4

LEMMA LeftFields ==
  ASSUME NEW row \in RowSet, NEW left \in BOOLEAN
  PROVE  LET new == WithLeft(row, left)
         IN  /\ new \in RowSet /\ SameBut4(new, row) /\ new.status = row.status
             /\ new.lines = row.lines /\ new.runner = row.runner /\ new.left = left
BY DEF WithLeft, RowSet, SameBut4

\* A step that writes row in the order o, which holds h from now on.
Leaves(u, t, o, row, h) ==
    /\ Sound(u) /\ (u.ok => t.ok) /\ row \in RowSet
    /\ u.onHand = t.onHand /\ u.draft = t.draft
    /\ u.order[o] = row /\ u.held[o] = h
    /\ \A x \in Orders \ {o} : u.order[x] = t.order[x] /\ u.held[x] = t.held[x]

LEMMA LeavesAgain ==
  ASSUME NEW t, NEW u, NEW w, NEW o, NEW row, NEW h, NEW later, NEW kept,
         Leaves(u, t, o, row, h), Leaves(w, u, o, later, kept)
  PROVE  Leaves(w, t, o, later, kept)
BY DEF Leaves

LEMMA SoundRows ==
  ASSUME NEW t, Sound(t), NEW o \in Orders
  PROVE  /\ t.order[o] \in RowSet /\ t.held[o] \in HeldRow /\ t.draft[o] \in Units \cup {None}
         /\ t.order[o].lines \in LineSets /\ QuantitiesOf(t.order[o].lines) \in Units
         /\ t.order[o].status \in Statuses
<1>1. t.order[o] \in RowSet /\ t.held[o] \in HeldRow /\ t.draft[o] \in Units \cup {None}
  BY StateFields DEF Sound
<1> QED
  BY <1>1, RowFields, LinesAreLines

LEMMA SetStatusLeaves ==
  ASSUME NEW t, Sound(t), NEW o \in Orders, NEW status \in Statuses
  PROVE  Leaves(SetStatus(t, o, status), t, o, WithStatus(t.order[o], status), t.held[o])
BY SetStatusDoes DEF Leaves, Wrote, OnlyRows, WithStatus

LEMMA NewVersionLeaves ==
  ASSUME NEW t, Sound(t), NEW o \in Orders, NEW lines \in LineSets
  PROVE  Leaves(NewVersion(t, o, lines), t, o, WithLines(t.order[o], lines), t.held[o])
BY NewVersionDoes DEF Leaves, Wrote, OnlyRows, WithLines

LEMMA CreateLeaves ==
  ASSUME NEW t, Sound(t), NEW o \in Orders, NEW row \in RowSet
  PROVE  Leaves(Create(t, o, row), t, o, row, t.held[o])
BY CreateDoes DEF Leaves, Wrote, OnlyRows

LEMMA ReleaseLeaves ==
  ASSUME NEW t, Sound(t), NEW o \in Orders
  PROVE  Leaves(Release(t, o), t, o, t.order[o], NothingHeld)
BY ReleaseDoes, SoundRows DEF Leaves, Holds

LEMMA ReserveAllLeaves ==
  ASSUME NEW t, Sound(t), NEW o \in Orders, NEW p \in Places
  PROVE  Leaves(ReserveAll(t, o, p), t, o, t.order[o], HoldRow(p, QuantitiesOf(t.order[o].lines)))
<1>1. QuantitiesOf(t.order[o].lines) \in Units /\ t.order[o] \in RowSet
  BY SoundRows
<1>2. ReserveAll(t, o, p) = ReserveAt(t, o, p, QuantitiesOf(t.order[o].lines))
  BY DEF ReserveAll, MovedBy, LinesOf
<1> QED
  BY <1>1, <1>2, ReserveAtDoes DEF Leaves, Holds

LEMMA HoldInBinLeaves ==
  ASSUME NEW t, Sound(t), NEW o \in Orders, NEW units \in Units
  PROVE  Leaves(HoldInBin(t, o, units), t, o, t.order[o], t.held[o])
BY HoldInBinDoes, SoundRows DEF Leaves, Binned

LEMMA CancelEmptiedLeaves ==
  ASSUME NEW t, Sound(t), NEW o \in Orders
  PROVE  Leaves(CancelEmptied(t, o), t, o, WithStatus(t.order[o], "CANCELLED"), NothingHeld)
<1>a. PICK r : r = Release(t, o)
  OBVIOUS
<1>1. Leaves(r, t, o, t.order[o], NothingHeld)
  BY <1>a, ReleaseLeaves
<1>2. Sound(r) /\ r.order[o] = t.order[o] /\ r.held[o] = NothingHeld
  BY <1>1 DEF Leaves
<1>3. Leaves(SetStatus(r, o, "CANCELLED"), r, o, WithStatus(t.order[o], "CANCELLED"), NothingHeld)
  BY <1>2, SetStatusLeaves DEF Statuses, FinalStatuses
<1> QED
  BY <1>1, <1>3, <1>a, LeavesAgain DEF CancelEmptied

LEMMA RowIs ==
  ASSUME NEW type \in {"SO", "RE"}, NEW status \in Statuses, NEW lines \in LineSets,
         NEW source \in Places
  PROVE  /\ Row(type, status, lines, source) \in RowSet
         /\ Row(type, status, lines, source).type = type
         /\ Row(type, status, lines, source).status = status
         /\ Row(type, status, lines, source).lines = lines
         /\ Row(type, status, lines, source).source = source
         /\ Row(type, status, lines, source).runner = None
         /\ Row(type, status, lines, source).parent = None
         /\ ~Row(type, status, lines, source).left
BY DEF Row, RowSet

SubRow(lines, parent, sibling) == Child(Row("SO", "NEW", lines, "WAREHOUSE"), parent, sibling)

LEMMA SubRowIs ==
  ASSUME NEW lines \in LineSets, NEW parent \in Orders \cup {None}, NEW sibling \in BOOLEAN
  PROVE  LET row == SubRow(lines, parent, sibling)
         IN  /\ row \in RowSet /\ row.type = "SO" /\ row.status = "NEW" /\ row.lines = lines
             /\ row.source = "WAREHOUSE" /\ row.runner = None /\ row.parent = parent
             /\ row.sibling = sibling /\ ~row.left
<1>1. "NEW" \in Statuses /\ "WAREHOUSE" \in Places
  BY DEF Statuses, InWarehouse, Places
<1> QED
  BY <1>1 DEF SubRow, Child, Row, RowSet

LEMMA CreateFromWarehouseLeaves ==
  ASSUME NEW t, Sound(t), NEW o \in Orders, NEW lines \in LineSets,
         NEW parent \in Orders \cup {None}, NEW sibling \in BOOLEAN
  PROVE  Leaves(CreateFromWarehouse(t, o, lines, parent, sibling), t, o,
                SubRow(lines, parent, sibling), HoldRow("WAREHOUSE", QuantitiesOf(lines)))
<1>a. PICK row : row = SubRow(lines, parent, sibling)
  OBVIOUS
<1>b. PICK c : c = Create(t, o, row)
  OBVIOUS
<1>1. row \in RowSet /\ row.lines = lines /\ "WAREHOUSE" \in Places
  BY <1>a, SubRowIs DEF Places
<1>2. Leaves(c, t, o, row, t.held[o])
  BY <1>1, <1>b, CreateLeaves
<1>3. Sound(c) /\ c.order[o] = row
  BY <1>2 DEF Leaves
<1>4. Leaves(ReserveAll(c, o, "WAREHOUSE"), c, o, row, HoldRow("WAREHOUSE", QuantitiesOf(lines)))
  BY <1>1, <1>3, ReserveAllLeaves
<1>5. Leaves(ReserveAll(c, o, "WAREHOUSE"), t, o, row, HoldRow("WAREHOUSE", QuantitiesOf(lines)))
  BY <1>2, <1>4, LeavesAgain
<1>6. CreateFromWarehouse(t, o, lines, parent, sibling) = ReserveAll(c, o, "WAREHOUSE")
  BY <1>a, <1>b DEF CreateFromWarehouse, SubRow
<1> QED
  BY <1>5, <1>6, <1>a

LEMMA SplitIsLines ==
  ASSUME NEW t, Sound(t), NEW wanted \in LineSets
  PROVE  HasHere(t, wanted) \in LineSets /\ ToBring(t, wanted) \in LineSets
<1>1. IsLines(wanted) /\ t \in State /\ "STORE" \in Places
  BY LinesAreLines DEF Sound, Places
<1>2. \A v \in Variants : Free(t, "STORE")[v] \in Int
  BY <1>1, FreeIs
<1> DEFINE here == {x \in DOMAIN wanted : Free(t, "STORE")[x] > 0}
           rest == {x \in DOMAIN wanted : Free(t, "STORE")[x] < wanted[x]}
<1>3. here \in SUBSET Variants /\ rest \in SUBSET Variants
  BY <1>1 DEF IsLines
<1>4. HasHere(t, wanted) \in [here -> Nat]
  BY <1>1, <1>2 DEF HasHere, IsLines
<1>5. ASSUME NEW v \in rest PROVE wanted[v] - QuantitiesOf(HasHere(t, wanted))[v] \in Nat
  <2>1. v \in Variants /\ v \in DOMAIN wanted /\ wanted[v] \in Nat /\ Free(t, "STORE")[v] \in Int
        /\ Free(t, "STORE")[v] < wanted[v]
    BY <1>1, <1>2 DEF IsLines
  <2>2. QuantitiesOf(HasHere(t, wanted))[v] = IF Free(t, "STORE")[v] > 0 THEN Free(t, "STORE")[v] ELSE 0
    BY <2>1 DEF QuantitiesOf, HasHere
  <2> QED
    BY <2>1, <2>2
<1>6. ToBring(t, wanted) \in [rest -> Nat]
  BY <1>5 DEF ToBring
<1> QED
  BY <1>3, <1>4, <1>6, LinesAre

-----------------------------------------------------------------------------
(* Balances that move *)

\* Only balances changed, and nowhere by more than was free.
LEMMA Ships ==
  ASSUME NEW t, Sound(t), NEW u \in State,
         u.held = t.held, u.bin = t.bin, u.draft = t.draft, u.aside = t.aside,
         u.ok => t.ok /\ \A p \in AllPlaces, v \in Variants :
                            t.onHand[p][v] - u.onHand[p][v] <= Free(t, p)[v]
  PROVE  Sound(u)
<1>1. t \in State
  BY DEF Sound
<1>2. ASSUME u.ok, NEW p \in AllPlaces, NEW v \in Variants
      PROVE  u.onHand[p][v] >= 0 /\ (p \in Places => Free(u, p)[v] >= 0)
  <2>1. t.onHand[p][v] - u.onHand[p][v] <= Free(t, p)[v]
    BY <1>2
  <2>2. /\ Free(t, p)[v] \in Int /\ Free(t, p)[v] <= t.onHand[p][v] /\ t.onHand[p][v] \in Int
        /\ u.onHand[p][v] \in Int
    BY <1>1, FreeType
  <2>3. u.onHand[p][v] >= 0
    BY <2>1, <2>2
  <2>4. ASSUME p \in Places PROVE Free(u, p)[v] >= 0
    <3>1. \A x \in Orders : Apart(u, x, p)[v] = Apart(t, x, p)[v]
      BY <1>1, ApartIs
    <3>2. Booked(u, p, v) = Booked(t, p, v)
      BY <1>1, <2>4, <3>1, BookedSame
    <3> QED
      BY <1>1, <2>1, <2>2, <2>4, <3>2, FreeIs
  <2> QED
    BY <2>3, <2>4
<1> QED
  BY <1>2, PlaceNames DEF Sound

Moved(u, t, from, to, units) ==
    /\ (u.ok => t.ok) /\ u.order = t.order /\ u.held = t.held /\ u.draft = t.draft
    /\ \A v \in Variants : /\ u.onHand[from][v] = t.onHand[from][v] - units[v]
                           /\ u.onHand[to][v] = t.onHand[to][v] + units[v]
    /\ \A p \in AllPlaces \ {from, to} : u.onHand[p] = t.onHand[p]

LEMMA MoveDoes ==
  ASSUME NEW t, Sound(t), NEW from \in AllPlaces, NEW to \in AllPlaces, from # to,
         NEW units \in Units
  PROVE  Sound(Move(t, from, to, units)) /\ Moved(Move(t, from, to, units), t, from, to, units)
<1>a. PICK u : u = Move(t, from, to, units)
  OBVIOUS
<1>b. PICK less : less = Sub(t.onHand[from], units)
  OBVIOUS
<1>c. PICK more : more = Add(t.onHand[to], units)
  OBVIOUS
<1>1. t \in State /\ t.onHand \in [AllPlaces -> [Variants -> Int]] /\ t.ok \in BOOLEAN
  BY StateFields DEF Sound
<1>2. /\ less \in [Variants -> Int] /\ more \in [Variants -> Int]
      /\ \A v \in Variants : /\ less[v] = t.onHand[from][v] - units[v] /\ units[v] \in Nat
                             /\ more[v] = t.onHand[to][v] + units[v]
  BY <1>1, <1>b, <1>c DEF Sub, Add, Units
<1>3. PICK ok \in BOOLEAN : ok = Needs(t, from, units)
  BY <1>1 DEF Needs, Covers
<1>4. u = [t EXCEPT !.ok = ok, !.onHand = [@ EXCEPT ![from] = less, ![to] = more]]
  <2>1. PICK after : after = [t.onHand EXCEPT ![from] = Sub(@, units), ![to] = Add(@, units)]
    OBVIOUS
  <2>2. after = [t.onHand EXCEPT ![from] = less, ![to] = more]
    BY <1>1, <1>b, <1>c, <2>1
  <2>3. u = [t EXCEPT !.ok = Needs(t, from, units), !.onHand = after]
    BY <1>a, <2>1 DEF Move
  <2> QED
    BY <1>3, <2>2, <2>3
<1>5. [t.onHand EXCEPT ![from] = less, ![to] = more] \in [AllPlaces -> [Variants -> Int]]
  BY <1>1, <1>2
<1>6. /\ u \in State /\ u.ok = ok /\ u.order = t.order /\ u.held = t.held /\ u.bin = t.bin
      /\ u.aside = t.aside /\ u.draft = t.draft
      /\ u.onHand = [t.onHand EXCEPT ![from] = less, ![to] = more]
  BY <1>1, <1>4, <1>5 DEF State
<1>7. /\ u.onHand[from] = less /\ u.onHand[to] = more
      /\ \A p \in AllPlaces \ {from, to} : u.onHand[p] = t.onHand[p]
  BY <1>1, <1>6
<1>8. u.ok => t.ok /\ \A v \in Variants : Free(t, from)[v] >= units[v]
  BY <1>3, <1>6 DEF Needs, Covers
<1>9. ASSUME u.ok, NEW p \in AllPlaces, NEW v \in Variants
      PROVE  t.onHand[p][v] - u.onHand[p][v] <= Free(t, p)[v]
  <2>1. t.onHand[p][v] \in Int /\ Free(t, p)[v] \in Int /\ Free(t, p)[v] >= 0
    <3>1. CASE p \in Places
      BY <1>1, <1>8, <1>9, <3>1, FreeType DEF Sound
    <3>2. CASE p \notin Places
      BY <1>1, <1>8, <1>9, <3>2, FreeType, FreeElsewhere DEF Sound
    <3> QED
      BY <3>1, <3>2
  <2>2. CASE p = from
    BY <1>1, <1>2, <1>7, <1>8, <1>9, <2>1, <2>2
  <2>3. CASE p = to
    BY <1>1, <1>2, <1>7, <2>1, <2>3
  <2>4. CASE p \notin {from, to}
    BY <1>7, <2>1, <2>4
  <2> QED
    BY <2>2, <2>3, <2>4
<1>10. Sound(u)
  BY <1>6, <1>8, <1>9, Ships
<1> QED
  BY <1>2, <1>6, <1>7, <1>8, <1>10, <1>a DEF Moved

\* A step that takes units out of the bag of who carries the order.
LeavesBag(u, t, o, row, h, units) ==
    /\ Sound(u) /\ (u.ok => t.ok) /\ row \in RowSet /\ u.draft = t.draft
    /\ u.order[o] = row /\ u.held[o] = h
    /\ \A x \in Orders \ {o} : u.order[x] = t.order[x] /\ u.held[x] = t.held[x]
    /\ \A r \in Runners, v \in Variants :
         u.onHand[r][v] = t.onHand[r][v] - (IF t.order[o].runner = r THEN units[v] ELSE 0)

LEMMA LeavesThenBag ==
  ASSUME NEW t, NEW u, NEW w, NEW o, NEW row, NEW h, NEW later, NEW kept, NEW units,
         LeavesBag(u, t, o, row, h, units), Leaves(w, u, o, later, kept)
  PROVE  LeavesBag(w, t, o, later, kept, units)
BY DEF Leaves, LeavesBag

LEMMA BagUntouched ==
  ASSUME NEW t, Sound(t), NEW u, NEW o, NEW row, NEW h, Leaves(u, t, o, row, h)
  PROVE  LeavesBag(u, t, o, row, h, Zero)
<1>1. /\ t.onHand \in [AllPlaces -> [Variants -> Int]]
      /\ \A r \in Runners : r \in AllPlaces
  BY PlaceNames, StateFields DEF Sound
<1>2. \A r \in Runners, v \in Variants : t.onHand[r][v] \in Int
  BY <1>1
<1> QED
  BY <1>2, ZeroUnits DEF Leaves, LeavesBag

LEMMA FromRunnerLeaves ==
  ASSUME NEW t, Sound(t), NEW o \in Orders, t.order[o].runner \in Runners,
         NEW to \in AllPlaces \ Runners, NEW units \in Units
  PROVE  \E left \in BOOLEAN :
            LeavesBag(FromRunner(t, o, to, units), t, o, WithLeft(t.order[o], left),
                      t.held[o], units)
<1>a. PICK r : r = t.order[o].runner
  OBVIOUS
<1>b. PICK m : m = Move(t, r, to, units)
  OBVIOUS
<1>c. PICK left \in BOOLEAN : left = (t.order[o].left \/ units # Zero)
  BY RowFields, SoundRows
<1>d. PICK u : u = FromRunner(t, o, to, units)
  OBVIOUS
<1>1. r \in Runners /\ r \in AllPlaces /\ r # to
  BY <1>a, PlaceNames
<1>2. Sound(m) /\ Moved(m, t, r, to, units)
  BY <1>1, <1>b, MoveDoes
<1>3. t.order[o] \in RowSet /\ WithLeft(t.order[o], left) \in RowSet /\ m.order = t.order
  BY <1>2, SoundRows, LeftFields DEF Moved
<1>4. u = [m EXCEPT !.order = [@ EXCEPT ![o] = WithLeft(t.order[o], left)]]
  <2>1. m \in State
    BY <1>2 DEF Sound
  <2>2. u = [m EXCEPT !.order[o].left = @ \/ units # Zero]
    BY <1>a, <1>b, <1>d DEF FromRunner
  <2> QED
    BY <1>3, <1>c, <2>1, <2>2 DEF WithLeft
<1>5. Sound(u) /\ Wrote(u, m, o, WithLeft(t.order[o], left))
  BY <1>2, <1>3, <1>4, Rewritten
<1>6. \A q \in Runners, v \in Variants :
        u.onHand[q][v] = t.onHand[q][v] - (IF t.order[o].runner = q THEN units[v] ELSE 0)
  <2> TAKE q \in Runners, v \in Variants
  <2>1. u.onHand = m.onHand
    BY <1>5 DEF Wrote, OnlyRows
  <2>2. CASE q = r
    BY <1>2, <1>a, <2>1, <2>2 DEF Moved
  <2>3. CASE q # r
    <3>1. q \in AllPlaces \ {r, to} /\ t.onHand[q][v] \in Int
      BY <2>3, PlaceNames, StateFields DEF Sound
    <3> QED
      BY <1>2, <1>a, <2>1, <2>3, <3>1 DEF Moved
  <2> QED
    BY <2>2, <2>3
<1>7. LeavesBag(u, t, o, WithLeft(t.order[o], left), t.held[o], units)
  BY <1>2, <1>3, <1>5, <1>6 DEF LeavesBag, Wrote, OnlyRows, Moved
<1> QED
  BY <1>7, <1>d

\* A row that differs in its status and in whether it left the bag.
Arrives(row, old, status) ==
    /\ SameBut4(row, old) /\ row.lines = old.lines /\ row.runner = old.runner
    /\ row.status = status

LEMMA HandOverLeaves ==
  ASSUME NEW t, Sound(t), NEW o \in Orders, t.order[o].runner \in Runners
  PROVE  \E row \in RowSet, units \in Units :
            /\ LeavesBag(HandOver(t, o), t, o, row,
                         IF order[o].type = "SO"
                         THEN HoldRow("STORE", QuantitiesOf(t.order[o].lines)) ELSE t.held[o],
                         units)
            /\ Arrives(row, t.order[o], t.order[o].status)
            /\ ~t.order[o].left => units = QuantitiesOf(t.order[o].lines)
<1>a. PICK to : to = IF order[o].type = "RE" THEN "RETURNS" ELSE "STORE"
  OBVIOUS
<1>b. PICK m : m = IF t.order[o].left THEN t ELSE FromRunner(t, o, to, MovedBy(t, o))
  OBVIOUS
<1>1. /\ to \in AllPlaces \ Runners /\ t.order[o] \in RowSet /\ "STORE" \in Places
      /\ MovedBy(t, o) = QuantitiesOf(t.order[o].lines) /\ MovedBy(t, o) \in Units
  BY <1>a, PlaceNames, InternalOrderAssumption, SoundRows DEF MovedBy, LinesOf
<1>2. PICK row \in RowSet, units \in Units :
        /\ LeavesBag(m, t, o, row, t.held[o], units)
        /\ Arrives(row, t.order[o], t.order[o].status)
        /\ ~t.order[o].left => units = QuantitiesOf(t.order[o].lines)
  <2>1. CASE t.order[o].left
    <3>1. m = t
      BY <1>b, <2>1
    <3>2. Leaves(m, t, o, t.order[o], t.held[o])
      BY <1>1, <3>1 DEF Leaves
    <3>3. LeavesBag(m, t, o, t.order[o], t.held[o], Zero)
      BY <3>2, BagUntouched
    <3> QED
      BY <1>1, <2>1, <3>3, ZeroUnits DEF Arrives, SameBut4
  <2>2. CASE ~t.order[o].left
    <3>1. m = FromRunner(t, o, to, MovedBy(t, o))
      BY <1>b, <2>2
    <3>2. PICK left \in BOOLEAN :
            LeavesBag(m, t, o, WithLeft(t.order[o], left), t.held[o], MovedBy(t, o))
      BY <1>1, <3>1, FromRunnerLeaves
    <3>3. /\ WithLeft(t.order[o], left) \in RowSet
          /\ Arrives(WithLeft(t.order[o], left), t.order[o], t.order[o].status)
      BY <1>1, LeftFields DEF Arrives
    <3> QED
      BY <1>1, <3>2, <3>3
  <2> QED
    BY <2>1, <2>2
<1>3. HandOver(t, o) = IF order[o].type = "SO" THEN ReserveAll(m, o, "STORE") ELSE m
  BY <1>a, <1>b DEF HandOver
<1>4. CASE order[o].type = "SO"
  <2>1. Sound(m) /\ m.order[o] = row /\ row.lines = t.order[o].lines
    BY <1>2 DEF LeavesBag, Arrives
  <2>2. Leaves(ReserveAll(m, o, "STORE"), m, o, row, HoldRow("STORE", QuantitiesOf(t.order[o].lines)))
    BY <1>1, <2>1, ReserveAllLeaves
  <2>3. LeavesBag(ReserveAll(m, o, "STORE"), t, o, row,
                  HoldRow("STORE", QuantitiesOf(t.order[o].lines)), units)
    BY <1>2, <2>2, LeavesThenBag
  <2> QED
    BY <1>2, <1>3, <1>4, <2>3
<1>5. CASE order[o].type # "SO"
  BY <1>2, <1>3, <1>5
<1> QED
  BY <1>4, <1>5

-----------------------------------------------------------------------------
(* Damages, drafts and the bin *)

\* Less is set apart, and nothing moved.
LEMMA Frees ==
  ASSUME NEW t, Sound(t), NEW u \in State, u.onHand = t.onHand, u.ok => t.ok,
         \A p \in Places, v \in Variants : u.aside[p][v] <= t.aside[p][v],
         \A p \in Places, v \in Variants, x \in Orders : Apart(u, x, p)[v] <= Apart(t, x, p)[v]
  PROVE  Sound(u)
<1>1. t \in State /\ IsFiniteSet(Orders)
  BY PlaceNames DEF Sound
<1>2. ASSUME u.ok, NEW p \in Places, NEW v \in Variants PROVE Free(u, p)[v] >= 0
  <2> DEFINE f == [x \in Orders |-> Apart(u, x, p)[v]]
             g == [x \in Orders |-> Apart(t, x, p)[v]]
  <2>1. \A x \in Orders : f[x] \in Int /\ g[x] \in Int /\ f[x] <= g[x]
    BY <1>1, ApartIs
  <2>2. Booked(u, p, v) = SumFunctionOnSet(f, Orders) /\ Booked(t, p, v) = SumFunctionOnSet(g, Orders)
    BY DEF Booked
  <2> HIDE DEF f, g
  <2>3. Booked(u, p, v) <= Booked(t, p, v)
    BY <1>1, <2>1, <2>2, SumBounds
  <2>4. Free(t, p)[v] >= 0 /\ t.ok /\ u.aside[p][v] <= t.aside[p][v]
    BY <1>2 DEF Sound
  <2> QED
    BY <1>1, <2>3, <2>4, FreeIs
<1> QED
  BY <1>2 DEF Sound

SetAside(t, p, units) == [t EXCEPT !.ok = Needs(t, p, units), !.aside[p] = Add(@, units)]

LEMMA SetAsideLeaves ==
  ASSUME NEW t, Sound(t), NEW o \in Orders, NEW p \in Places, NEW units \in Units
  PROVE  Leaves(SetAside(t, p, units), t, o, t.order[o], t.held[o])
<1>a. PICK u : u = SetAside(t, p, units)
  OBVIOUS
<1>b. PICK more : more = Add(t.aside[p], units)
  OBVIOUS
<1>1. t \in State /\ t.aside \in [Places -> Units] /\ t.order[o] \in RowSet
  BY StateFields, SoundRows DEF Sound
<1>2. more \in Units /\ \A v \in Variants : more[v] = t.aside[p][v] + units[v]
  BY <1>1, <1>b DEF Add, Units
<1>3. PICK ok \in BOOLEAN : ok = Needs(t, p, units)
  BY StateFields DEF Needs, Covers, Sound
<1>4. u = [t EXCEPT !.ok = ok, !.aside[p] = more]
  BY <1>a, <1>b, <1>3 DEF SetAside
<1>5. /\ u \in State /\ u.ok = ok /\ u.order = t.order /\ u.onHand = t.onHand
      /\ u.held = t.held /\ u.bin = t.bin /\ u.draft = t.draft
      /\ u.aside = [t.aside EXCEPT ![p] = more]
  BY <1>1, <1>2, <1>4 DEF State
<1>6. u.ok => t.ok /\ \A v \in Variants : Free(t, p)[v] >= units[v]
  BY <1>3, <1>5 DEF Needs, Covers
<1>7. ASSUME u.ok, NEW q \in Places, NEW v \in Variants PROVE Free(u, q)[v] >= 0
  <2>1. \A x \in Orders : Apart(u, x, q)[v] = Apart(t, x, q)[v]
    BY <1>1, <1>5, ApartIs
  <2>2. Booked(u, q, v) = Booked(t, q, v)
    BY <1>1, <1>5, <2>1, BookedSame
  <2>3. u.aside[q][v] = t.aside[q][v] + (IF q = p THEN units[v] ELSE 0)
    <3>1. t.aside[q][v] \in Nat
      BY <1>1 DEF Units
    <3> QED
      BY <1>1, <1>2, <1>5, <3>1
  <2>4. Free(t, q)[v] >= 0 /\ Free(t, q)[v] \in Int /\ units[v] \in Nat
    BY <1>1, <1>6, <1>7, FreeIs DEF Sound, Units
  <2>5. Free(u, q)[v] = Free(t, q)[v] - (IF q = p THEN units[v] ELSE 0)
    <3>1. Free(u, q)[v] = t.onHand[q][v] - u.aside[q][v] - Booked(t, q, v)
      BY <1>5, <2>2, FreeIs
    <3>2. /\ Free(t, q)[v] = t.onHand[q][v] - t.aside[q][v] - Booked(t, q, v)
          /\ t.onHand[q][v] \in Int /\ t.aside[q][v] \in Nat /\ Booked(t, q, v) \in Nat
      BY <1>1, FreeIs
    <3> QED
      BY <2>3, <2>4, <3>1, <3>2
  <2> QED
    BY <1>6, <1>7, <2>4, <2>5
<1>8. Sound(u)
  BY <1>5, <1>6, <1>7 DEF Sound
<1> QED
  BY <1>1, <1>5, <1>6, <1>8, <1>a DEF Leaves

\* The draft of an order takes or leaves its units, and nothing else.
Drafts(u, t, o, d) ==
    /\ Sound(u) /\ (u.ok => t.ok) /\ u.order = t.order /\ u.held = t.held
    /\ u.draft[o] = d /\ \A x \in Orders \ {o} : u.draft[x] = t.draft[x]
    /\ \A r \in Runners : u.onHand[r] = t.onHand[r]

LEMMA DraftTakes ==
  ASSUME NEW t, Sound(t), NEW o \in Orders, t.draft[o] = None, NEW units \in Units
  PROVE  Drafts([t EXCEPT !.draft[o] = units, !.ok = Needs(t, "STORE", units)], t, o, units)
<1>a. PICK u : u = [t EXCEPT !.draft[o] = units, !.ok = Needs(t, "STORE", units)]
  OBVIOUS
<1>1. t \in State /\ t.draft \in [Orders -> Units \cup {None}] /\ None \notin Units
  BY StateFields, PlaceNames DEF Sound
<1>3. PICK ok \in BOOLEAN : ok = Needs(t, "STORE", units)
  BY StateFields DEF Needs, Covers, Sound
<1>4. u = [t EXCEPT !.draft[o] = units, !.ok = ok]
  BY <1>a, <1>3
<1>5. /\ u \in State /\ u.ok = ok /\ u.order = t.order /\ u.onHand = t.onHand
      /\ u.held = t.held /\ u.bin = t.bin /\ u.aside = t.aside
      /\ u.draft = [t.draft EXCEPT ![o] = units]
  BY <1>1, <1>4 DEF State
<1>6. u.draft[o] = units /\ \A x \in Orders \ {o} : u.draft[x] = t.draft[x]
  BY <1>1, <1>5
<1>7. u.ok => t.ok /\ \A v \in Variants : Free(t, "STORE")[v] >= units[v]
  BY <1>3, <1>5 DEF Needs, Covers
<1>8. ASSUME u.ok, NEW p \in Places, NEW v \in Variants
      PROVE  Apart(u, o, p)[v] - Apart(t, o, p)[v] <= Free(t, p)[v]
  <2>1. /\ DraftAt(t.draft[o], p, v) = 0
        /\ DraftAt(u.draft[o], p, v) = IF p = "STORE" THEN units[v] ELSE 0
    BY <1>1, <1>6 DEF DraftAt
  <2>2. Apart(u, o, p)[v] - Apart(t, o, p)[v] = IF p = "STORE" THEN units[v] ELSE 0
    <3>1. units[v] \in Nat
      BY DEF Units
    <3> QED
      BY <1>1, <1>5, <2>1, <3>1, ApartIs
  <2>3. Free(t, p)[v] >= 0
    BY <1>7, <1>8 DEF Sound
  <2> QED
    BY <1>7, <1>8, <2>2, <2>3
<1>9. \A x \in Orders \ {o} :
         u.held[x] = t.held[x] /\ u.bin[x] = t.bin[x] /\ u.draft[x] = t.draft[x]
  BY <1>5, <1>6
<1>10. u.ok => t.ok /\ \A p \in Places, v \in Variants :
                          Apart(u, o, p)[v] - Apart(t, o, p)[v] <= Free(t, p)[v]
  BY <1>7, <1>8
<1>11. Sound(u)
  BY <1>5, <1>9, <1>10, Books
<1> QED
  BY <1>5, <1>6, <1>7, <1>11, <1>a DEF Drafts

LEMMA DraftEnds ==
  ASSUME NEW t, Sound(t), NEW o \in Orders
  PROVE  Drafts([t EXCEPT !.draft[o] = None], t, o, None)
<1>a. PICK u : u = [t EXCEPT !.draft[o] = None]
  OBVIOUS
<1>1. t \in State /\ t.draft \in [Orders -> Units \cup {None}]
  BY StateFields DEF Sound
<1>2. /\ u \in State /\ u.ok = t.ok /\ u.order = t.order /\ u.onHand = t.onHand
      /\ u.held = t.held /\ u.bin = t.bin /\ u.aside = t.aside
      /\ u.draft = [t.draft EXCEPT ![o] = None]
  BY <1>1, <1>a DEF State
<1>3. u.draft[o] = None /\ \A x \in Orders \ {o} : u.draft[x] = t.draft[x]
  BY <1>1, <1>2
<1>4. ASSUME NEW p \in Places, NEW v \in Variants, NEW x \in Orders
      PROVE  Apart(u, x, p)[v] <= Apart(t, x, p)[v]
  <2>1. DraftAt(u.draft[x], p, v) <= DraftAt(t.draft[x], p, v)
    <3>1. CASE x = o
      <4>1. DraftAt(u.draft[x], p, v) = 0
        BY <1>3, <3>1, PartsAre
      <4>2. DraftAt(t.draft[x], p, v) \in Nat
        BY <1>1, ApartIs
      <4> QED
        BY <4>1, <4>2
    <3>2. CASE x # o
      <4>1. u.draft[x] = t.draft[x] /\ DraftAt(t.draft[x], p, v) \in Nat
        BY <1>1, <1>3, <1>4, <3>2, ApartIs
      <4> QED
        BY <4>1
    <3> QED
      BY <3>1, <3>2
  <2> QED
    BY <1>1, <1>2, <2>1, ApartIs
<1>5. \A p \in Places, v \in Variants : u.aside[p][v] <= t.aside[p][v]
  <2>1. \A p \in Places, v \in Variants : t.aside[p][v] \in Nat
    BY <1>1, StateFields DEF Units
  <2> QED
    BY <1>2, <2>1
<1>6. Sound(u)
  BY <1>2, <1>4, <1>5, Frees
<1> QED
  BY <1>2, <1>3, <1>6, <1>a DEF Drafts

\* Charged: what the draft had leaves the store.
LEMMA DraftLeaves ==
  ASSUME NEW t, Sound(t), NEW o \in Orders, NEW d \in Units, t.draft[o] = d
  PROVE  Drafts([t EXCEPT !.onHand["STORE"] = Sub(@, d), !.draft[o] = None], t, o, None)
<1>a. PICK u : u = [t EXCEPT !.onHand["STORE"] = Sub(@, d), !.draft[o] = None]
  OBVIOUS
<1>b. PICK less : less = Sub(t.onHand["STORE"], d)
  OBVIOUS
<1>1. /\ t \in State /\ t.draft \in [Orders -> Units \cup {None}] /\ "STORE" \in AllPlaces
      /\ t.onHand \in [AllPlaces -> [Variants -> Int]] /\ None \notin Units
  BY StateFields, PlaceNames DEF Sound
<1>2. less \in [Variants -> Int] /\ \A v \in Variants : less[v] = t.onHand["STORE"][v] - d[v] /\ d[v] \in Nat
  BY <1>1, <1>b DEF Sub, Units
<1>3. u = [t EXCEPT !.onHand["STORE"] = less, !.draft[o] = None]
  BY <1>a, <1>b
<1>4. /\ u \in State /\ u.ok = t.ok /\ u.order = t.order /\ u.held = t.held
      /\ u.bin = t.bin /\ u.aside = t.aside
      /\ u.draft = [t.draft EXCEPT ![o] = None] /\ u.onHand = [t.onHand EXCEPT !["STORE"] = less]
  BY <1>1, <1>2, <1>3 DEF State
<1>5. /\ u.draft[o] = None /\ \A x \in Orders \ {o} : u.draft[x] = t.draft[x]
      /\ u.onHand["STORE"] = less /\ \A p \in AllPlaces \ {"STORE"} : u.onHand[p] = t.onHand[p]
  BY <1>1, <1>4
<1>6. ASSUME NEW p \in Places, NEW v \in Variants
      PROVE  Free(u, p)[v] = Free(t, p)[v]
  <2>1. Free(u, p)[v] = Free(t, p)[v] + (u.onHand[p][v] - t.onHand[p][v])
                           - (u.aside[p][v] - t.aside[p][v])
                           - (Apart(u, o, p)[v] - Apart(t, o, p)[v])
    <3>1. \A x \in Orders \ {o} :
            u.held[x] = t.held[x] /\ u.bin[x] = t.bin[x] /\ u.draft[x] = t.draft[x]
      BY <1>4, <1>5
    <3>2. t \in State /\ u \in State
      BY <1>1, <1>4
    <3> QED
      BY <1>6, <3>1, <3>2, FreeChange
  <2>2. /\ DraftAt(t.draft[o], p, v) = IF p = "STORE" THEN d[v] ELSE 0
        /\ DraftAt(u.draft[o], p, v) = 0
    BY <1>1, <1>5 DEF DraftAt
  <2>3. /\ p \in AllPlaces /\ t.onHand[p][v] \in Int
        /\ u.onHand[p][v] = t.onHand[p][v] - (IF p = "STORE" THEN d[v] ELSE 0)
    <3>1. p \in AllPlaces
      BY PlaceNames
    <3>2. t.onHand[p][v] \in Int /\ t.onHand["STORE"][v] \in Int
      <4>1. t.onHand[p] \in [Variants -> Int] /\ t.onHand["STORE"] \in [Variants -> Int]
        BY <1>1, <3>1
      <4> QED
        BY <4>1
    <3>3. CASE p = "STORE"
      BY <1>2, <1>5, <3>1, <3>2, <3>3
    <3>4. CASE p # "STORE"
      BY <1>5, <3>1, <3>2, <3>4
    <3> QED
      BY <3>3, <3>4
  <2>4. Apart(u, o, p)[v] - Apart(t, o, p)[v] = 0 - (IF p = "STORE" THEN d[v] ELSE 0)
    <3>1. t \in State /\ u \in State /\ u.held[o] = t.held[o] /\ u.bin[o] = t.bin[o] /\ d[v] \in Nat
      BY <1>1, <1>2, <1>4, <1>6
    <3> QED
      BY <1>6, <2>2, <3>1, ApartIs
  <2>5. Free(t, p)[v] \in Int /\ t.aside[p][v] \in Nat
    BY <1>1, FreeIs
  <2>6. u.aside[p][v] = t.aside[p][v] /\ d[v] \in Nat
    BY <1>2, <1>4
  <2> QED
    BY <2>1, <2>3, <2>4, <2>5, <2>6
<1>7. ASSUME u.ok, NEW p \in AllPlaces, NEW v \in Variants PROVE u.onHand[p][v] >= 0
  <2>1. CASE p = "STORE"
    <3>1. p \in Places /\ Free(u, p)[v] >= 0
      BY <1>4, <1>6, <1>7, <2>1, PlaceNames DEF Sound
    <3>2. Free(u, p)[v] <= u.onHand[p][v] /\ Free(u, p)[v] \in Int /\ u.onHand[p][v] \in Int
      BY <1>4, FreeType
    <3> QED
      BY <3>1, <3>2
  <2>2. CASE p # "STORE"
    BY <1>4, <1>5, <1>7, <2>2 DEF Sound
  <2> QED
    BY <2>1, <2>2
<1>8. Sound(u)
  BY <1>4, <1>6, <1>7 DEF Sound
<1>9. \A r \in Runners : u.onHand[r] = t.onHand[r]
  BY <1>5, PlaceNames
<1> QED
  BY <1>4, <1>5, <1>8, <1>9, <1>a DEF Drafts

\* The bin and what damages hold, emptied in part.
LEMMA BinEmptied ==
  ASSUME NEW t, Sound(t), NEW b \in [Orders -> Units], NEW a \in [Places -> Units],
         \A x \in Orders, v \in Variants : b[x][v] <= t.bin[x][v],
         \A p \in Places, v \in Variants : a[p][v] <= t.aside[p][v]
  PROVE  LET u == [t EXCEPT !.bin = b, !.aside = a]
         IN  /\ Sound(u) /\ u.ok = t.ok /\ u.order = t.order /\ u.held = t.held
             /\ u.draft = t.draft /\ u.onHand = t.onHand
<1>a. PICK u : u = [t EXCEPT !.bin = b, !.aside = a]
  OBVIOUS
<1>1. t \in State
  BY DEF Sound
<1>2. /\ u \in State /\ u.ok = t.ok /\ u.order = t.order /\ u.onHand = t.onHand
      /\ u.held = t.held /\ u.bin = b /\ u.aside = a /\ u.draft = t.draft
  BY <1>1, <1>a DEF State
<1>3. ASSUME NEW p \in Places, NEW v \in Variants, NEW x \in Orders
      PROVE  Apart(u, x, p)[v] <= Apart(t, x, p)[v]
  <2>1. BinAt(u.bin[x], p, v) <= BinAt(t.bin[x], p, v)
    <3>1. b[x][v] <= t.bin[x][v]
      OBVIOUS
    <3> QED
      BY <1>2, <3>1 DEF BinAt
  <2> QED
    BY <1>1, <1>2, <2>1, ApartIs
<1>4. Sound(u)
  BY <1>2, <1>3, Frees
<1> QED
  BY <1>2, <1>4, <1>a

-----------------------------------------------------------------------------
(* What a transaction leaves is what the invariant says *)

LEMMA NowIs ==
  /\ Now.order = order /\ Now.onHand = onHand /\ Now.held = held /\ Now.bin = bin
  /\ Now.aside = aside /\ Now.draft = draft /\ Now.ok
BY DEF Now

Goods(rows)    == [x \in Orders |-> QuantitiesOf(rows[x].lines)]
InBag(rows, r) == {x \in Orders : rows[x].runner = r /\ rows[x].status \in InRunnerHands}

LEMMA CarriedSum ==
  ASSUME NEW rows \in [Orders -> RowSet], NEW r, NEW v \in Variants
  PROVE  SumUnits(Goods(rows), InBag(rows, r))[v]
           = SumFunctionOnSet([x \in Orders |-> Carries(rows[x], r, v)], Orders)
<1>a. PICK S : S = InBag(rows, r)
  OBVIOUS
<1> DEFINE f == [x \in S |-> QuantitiesOf(rows[x].lines)[v]]
           g == [x \in Orders |-> Carries(rows[x], r, v)]
<1>1. IsFiniteSet(Orders) /\ S \in SUBSET Orders
  BY <1>a, PlaceNames DEF InBag
<1>2. IsFiniteSet(S) /\ IsFiniteSet(Orders \ S)
  BY <1>1, FS_Subset
<1>3. \A x \in Orders : QuantitiesOf(rows[x].lines)[v] \in Nat
  <2> TAKE x \in Orders
  <2>1. QuantitiesOf(rows[x].lines) \in [Variants -> Nat]
    BY RowFields, LinesAreLines DEF Units
  <2> QED
    BY <2>1
<1>4. /\ \A x \in Orders : g[x] \in Int
      /\ \A x \in S : f[x] = g[x]
      /\ \A x \in Orders \ S : g[x] = 0
  BY <1>1, <1>3, <1>a DEF Carries, InBag
<1>5. SumUnits(Goods(rows), S)[v] = SumFunctionOnSet(f, S)
  <2>1. f = [x \in S |-> Goods(rows)[x][v]]
    BY <1>1 DEF Goods
  <2>2. DOMAIN f = S
    OBVIOUS
  <2> HIDE DEF f
  <2> QED
    BY <2>1, <2>2 DEF SumUnits, SumFunction
<1> HIDE DEF f, g
<1>6. SumFunctionOnSet(f, S) = SumFunctionOnSet(g, S)
  BY <1>2, <1>4, SumSame
<1>7. SumFunctionOnSet(g, Orders \ S) = 0
  BY <1>2, <1>4, SumZero
<1>8. SumFunctionOnSet(g, Orders) = SumFunctionOnSet(g, S) + SumFunctionOnSet(g, Orders \ S)
  BY <1>1, <1>4, SumSplit
<1>9. SumFunctionOnSet(g, S) \in Int
  <2>1. \A x \in S : g[x] \in Int
    BY <1>1, <1>4
  <2> QED
    BY <1>2, <2>1, SumType
<1> QED
  BY <1>5, <1>6, <1>7, <1>8, <1>9, <1>a DEF g

LEMMA CarriesType ==
  ASSUME NEW row \in RowSet, NEW r, NEW v \in Variants PROVE Carries(row, r, v) \in Nat
<1>1. QuantitiesOf(row.lines) \in [Variants -> Nat]
  BY RowFields, LinesAreLines DEF Units
<1> QED
  BY <1>1 DEF Carries

LEMMA BagGoesOn ==
  ASSUME NEW old \in [Orders -> RowSet], NEW new \in [Orders -> RowSet], NEW r, NEW o \in Orders,
         NEW b \in [Variants -> Int], NEW c \in [Variants -> Int],
         b = SumUnits(Goods(old), InBag(old, r)), OneCarries(old, new, r, o, b, c)
  PROVE  c = SumUnits(Goods(new), InBag(new, r))
<1>1. ASSUME NEW v \in Variants
      PROVE  c[v] = SumUnits(Goods(new), InBag(new, r))[v]
  <2> DEFINE f == [x \in Orders |-> Carries(old[x], r, v)]
             g == [x \in Orders |-> Carries(new[x], r, v)]
  <2>1. \A x \in Orders : f[x] \in Int /\ g[x] \in Int
    BY CarriesType
  <2>2. /\ f[o] = Carries(old[o], r, v) /\ g[o] = Carries(new[o], r, v)
        /\ \A x \in Orders \ {o} : f[x] = g[x]
    BY <1>1 DEF OneCarries
  <2>3. b[v] = SumFunctionOnSet(f, Orders)
    BY CarriedSum
  <2>4. SumUnits(Goods(new), InBag(new, r))[v] = SumFunctionOnSet(g, Orders)
    BY CarriedSum
  <2> HIDE DEF f, g
  <2>5. SumFunctionOnSet(g, Orders) = SumFunctionOnSet(f, Orders) - f[o] + g[o]
    BY <2>1, <2>2, PlaceNames, SumChange
  <2>6. c[v] = b[v] + g[o] - f[o] /\ b[v] \in Int /\ f[o] \in Int /\ g[o] \in Int
    BY <1>1, <2>1, <2>2 DEF OneCarries
  <2> QED
    BY <2>3, <2>4, <2>5, <2>6
<1>2. SumUnits(Goods(new), InBag(new, r))
        = [v \in Variants |-> SumUnits(Goods(new), InBag(new, r))[v]]
  BY DEF SumUnits
<1> QED
  BY <1>1, <1>2

LEMMA Committed ==
  ASSUME GoodsIInv, NEW u, NEW changed, CommitAltering(u, changed), Fits(u, changed)
  PROVE  /\ GoodsIInv'
         /\ \A x \in Orders : order[x].status \in FinalStatuses => order'[x] = order[x]
<1>1. /\ order' = u.order /\ onHand' = u.onHand /\ held' = u.held /\ bin' = u.bin
      /\ aside' = u.aside /\ draft' = u.draft /\ altered' = altered \cup changed /\ u.ok
  BY DEF CommitAltering
<1>2. /\ Sound(u) /\ changed \subseteq Orders /\ BagFits(u, changed)
      /\ \A x \in Orders : RowFits(u, changed, x)
  BY DEF Fits
<1>3. u \in State /\ u.order \in [Orders -> RowSet] /\ order \in [Orders -> RowSet]
      /\ onHand \in [AllPlaces -> [Variants -> Int]] /\ u.onHand \in [AllPlaces -> [Variants -> Int]]
  BY <1>2, NowIs, StateFields DEF GoodsIInv, Sound
<1>4. Sound(Now)'
  <2>1. u = [order |-> u.order, onHand |-> u.onHand, held |-> u.held, bin |-> u.bin,
             aside |-> u.aside, draft |-> u.draft, ok |-> TRUE]
    BY <1>1, <1>3 DEF State
  <2>2. Now' = u
    BY <1>1, <2>1 DEF Now
  <2> QED
    BY <1>2, <2>2
<1>5. altered' \subseteq Orders
  BY <1>1, <1>2 DEF GoodsIInv
<1>6. \A x \in Orders : RowOK(x, order'[x])
  BY <1>1, <1>2 DEF RowFits
<1>7. ASSUME NEW x \in altered' PROVE order'[x].type # "NONE"
  <2>1. CASE x \in changed
    BY <1>1, <1>2, <2>1 DEF RowFits
  <2>2. CASE x \in altered
    <3>1. x \in Orders /\ order[x].type # "NONE"
      BY <2>2 DEF GoodsIInv
    <3> QED
      BY <1>1, <1>2, <3>1 DEF RowFits, RowKept
  <2> QED
    BY <1>1, <1>7, <2>1, <2>2
<1>8. \A x \in Orders \ altered' : HoldsRight(order'[x], held'[x], draft'[x])
  BY <1>1, <1>2 DEF RowFits
<1>9. Waits'
  <2>1. ASSUME NEW p \in Orders, order'[p].status = "ITEM_CHANGE_REQUESTED"
        PROVE  \E sub \in Orders :
                  \/ Bringing(order'[sub], p)
                  \/ order'[sub].parent = p /\ (EmptiedRow(order'[sub]) \/ sub \in altered')
    <3>1. CASE \E sub \in Orders : Bringing(u.order[sub], p)
      BY <1>1, <3>1
    <3>2. CASE order[p].status = "ITEM_CHANGE_REQUESTED"
      <4>1. PICK sub \in Orders :
              \/ Bringing(order[sub], p)
              \/ order[sub].parent = p /\ (EmptiedRow(order[sub]) \/ sub \in altered)
        BY <3>2 DEF GoodsIInv, Waits
      <4>2. RowFits(u, changed, sub)
        BY <1>2
      <4>3. CASE Bringing(order[sub], p)
        <5>1. u.order[sub].parent = p
          BY <4>2, <4>3 DEF RowFits, RowKept, Bringing
        <5>2. Bringing(u.order[sub], p) \/ EmptiedRow(u.order[sub]) \/ sub \in altered \cup changed
          BY <1>1, <2>1, <4>2, <4>3 DEF RowFits
        <5> QED
          BY <1>1, <5>1, <5>2
      <4>4. CASE order[sub].parent = p /\ EmptiedRow(order[sub])
        <5>1. u.order[sub] = order[sub]
          BY <4>2, <4>4 DEF RowFits, RowKept, EmptiedRow, FinalStatuses
        <5> QED
          BY <1>1, <4>4, <5>1
      <4>5. CASE order[sub].parent = p /\ sub \in altered
        <5>1. order[sub].type # "NONE"
          BY <4>5 DEF GoodsIInv
        <5>2. u.order[sub].parent = p
          BY <4>2, <4>5, <5>1 DEF RowFits, RowKept
        <5> QED
          BY <1>1, <4>5, <5>2
      <4> QED
        BY <4>1, <4>3, <4>4, <4>5
    <3> QED
      BY <1>1, <1>2, <2>1, <3>1, <3>2 DEF RowFits
  <2> QED
    BY <2>1 DEF Waits
<1>10. BagMatchesOrders'
  <2>1. ASSUME NEW r \in Runners, {x \in altered' : order'[x].runner = r} = {}
        PROVE  onHand'[r] = SumUnits(Goods(order'), InBag(order', r))
    <3>1. \A x \in altered \cup changed : u.order[x].runner # r
      BY <1>1, <2>1
    <3>2. {x \in altered : order[x].runner = r} = {}
      <4>1. ASSUME NEW x \in altered PROVE order[x].runner # r
        <5>1. x \in Orders /\ r # None /\ u.order[x].runner # r
          BY <3>1, <4>1, PlaceNames DEF GoodsIInv
        <5> QED
          BY <1>2, <5>1 DEF RowFits, RowKept
      <4> QED
        BY <4>1
    <3>3. onHand[r] = SumUnits(Goods(order), InBag(order, r))
      BY <3>2, NowIs DEF GoodsIInv, BagMatchesOrders, MovedBy, LinesOf, Goods, InBag, Carried
    <3>4. onHand[r] \in [Variants -> Int] /\ u.onHand[r] \in [Variants -> Int]
      BY <1>3, PlaceNames
    <3>5. CASE u.order = order /\ u.onHand[r] = onHand[r]
      BY <1>1, <3>3, <3>5
    <3>6. CASE \E o \in Orders : OneCarries(order, u.order, r, o, onHand[r], u.onHand[r])
      <4>1. PICK o \in Orders : OneCarries(order, u.order, r, o, onHand[r], u.onHand[r])
        BY <3>6
      <4>2. u.onHand[r] = SumUnits(Goods(u.order), InBag(u.order, r))
        BY <1>3, <3>3, <3>4, <4>1, BagGoesOn
      <4> QED
        BY <1>1, <4>2
    <3> QED
      BY <1>2, <3>1, <3>5, <3>6 DEF BagFits
  <2> QED
    BY <2>1 DEF BagMatchesOrders, MovedBy, LinesOf, Now, Goods, InBag, Carried
<1>11. \A x \in Orders : order[x].status \in FinalStatuses => order'[x] = order[x]
  BY <1>1, <1>2 DEF RowFits, RowKept
<1> QED
  BY <1>4, <1>5, <1>6, <1>7, <1>8, <1>9, <1>10, <1>11 DEF GoodsIInv

-----------------------------------------------------------------------------
(* Steps of one order *)

\* What every operation does: the invariant holds again, what ended is as it was.
GoodStep ==
    /\ GoodsIInv'
    /\ \A x \in Orders : order[x].status \in FinalStatuses => order'[x] = order[x]

\* A row that waits for nothing new, and goes on with what it brings.
RowStays(u, changed, x) ==
    /\ RowOK(x, u.order[x]) /\ RowKept(order[x], u.order[x])
    /\ x \notin altered \cup changed => HoldsRight(u.order[x], u.held[x], u.draft[x])
    /\ x \in changed => u.order[x].type # "NONE"
    /\ u.order[x].status = "ITEM_CHANGE_REQUESTED" => order[x].status = "ITEM_CHANGE_REQUESTED"
    /\ \A p \in Orders : Bringing(order[x], p) =>
          Bringing(u.order[x], p) \/ EmptiedRow(u.order[x]) \/ x \in altered \cup changed

LEMMA StaysFits ==
  ASSUME NEW u, NEW changed, NEW x, RowStays(u, changed, x)
  PROVE  RowFits(u, changed, x)
BY DEF RowStays, RowFits

LEMMA SameStays ==
  ASSUME GoodsIInv, NEW u, NEW changed, NEW x \in Orders, x \notin changed, SameRow(u, x)
  PROVE  RowStays(u, changed, x)
BY DEF GoodsIInv, RowStays, SameRow, RowKept

LEMMA RowFacts ==
  ASSUME GoodsIInv, NEW o \in Orders
  PROVE  /\ order[o] \in RowSet /\ order[o].lines \in LineSets /\ QuantitiesOf(order[o].lines) \in Units
         /\ order[o].status \in Statuses /\ order[o].type \in {"NONE", "SO", "RE"}
         /\ order[o].source \in Places /\ order[o].parent \in Orders \cup {None}
         /\ order[o].runner \in Runners \cup {None} /\ order[o].sibling \in BOOLEAN
         /\ order[o].left \in BOOLEAN
         /\ draft[o] \in Units \cup {None} /\ held[o] \in HeldRow
         /\ RowOK(o, order[o])
         /\ o \notin altered => HoldsRight(order[o], held[o], draft[o])
         /\ o \in altered => order[o].type # "NONE"
BY NowIs, SoundRows, RowFields DEF GoodsIInv

\* The other orders are in no bag, before and after.
Uncarried(u, o) ==
    \A x \in Orders \ {o} :
        \/ u.order[x] = order[x]
        \/ order[x].status \notin InRunnerHands /\ u.order[x].status \notin InRunnerHands

LEMMA UncarriedDoes ==
  ASSUME NEW u, NEW o, Uncarried(u, o), NEW r, NEW v, NEW x \in Orders \ {o}
  PROVE  Carries(u.order[x], r, v) = Carries(order[x], r, v)
BY DEF Uncarried, Carries

LEMMA BagsStay ==
  ASSUME GoodsIInv, NEW u, Sound(u), NEW changed, NEW o \in Orders, Uncarried(u, o),
         \A r \in Runners : u.onHand[r] = onHand[r],
         \/ order[o].status \notin InRunnerHands /\ u.order[o].status \notin InRunnerHands
         \/ /\ u.order[o].runner = order[o].runner
            /\ \/ o \in altered \cup changed
               \/ /\ u.order[o].lines = order[o].lines
                  /\ order[o].status \in InRunnerHands /\ u.order[o].status \in InRunnerHands
  PROVE  BagFits(u, changed)
<1> SUFFICES ASSUME NEW r \in Runners, \A x \in altered \cup changed : u.order[x].runner # r
             PROVE  OneCarries(order, u.order, r, o, onHand[r], u.onHand[r])
  BY DEF BagFits
<1>1. \A x \in Orders \ {o} : \A v \in Variants : Carries(u.order[x], r, v) = Carries(order[x], r, v)
  BY UncarriedDoes
<1>2. \A v \in Variants : Carries(u.order[o], r, v) = Carries(order[o], r, v)
  BY DEF Carries
<1>3. \A v \in Variants : onHand[r][v] \in Int /\ Carries(order[o], r, v) \in Int
  <2>1. r \in AllPlaces /\ onHand \in [AllPlaces -> [Variants -> Int]]
    BY PlaceNames, NowIs, StateFields DEF GoodsIInv, Sound
  <2>2. onHand[r] \in [Variants -> Int]
    BY <2>1
  <2> QED
    BY <2>2, RowFacts, CarriesType
<1> QED
  BY <1>1, <1>2, <1>3 DEF OneCarries

\* The bag of who carries the order has that much less.
BagTaken(u, o, units) ==
    \A r \in Runners, v \in Variants :
       u.onHand[r][v] = onHand[r][v] - (IF order[o].runner = r THEN units[v] ELSE 0)

LEMMA BagsEmptied ==
  ASSUME GoodsIInv, NEW u, Sound(u), NEW changed, NEW o \in Orders, Uncarried(u, o),
         NEW units \in Units, BagTaken(u, o, units),
         u.order[o].runner = order[o].runner, order[o].status \in InRunnerHands,
         \/ o \in altered \cup changed
         \/ u.order[o].status \notin InRunnerHands /\ units = QuantitiesOf(order[o].lines)
  PROVE  BagFits(u, changed)
<1> SUFFICES ASSUME NEW r \in Runners, \A x \in altered \cup changed : u.order[x].runner # r
             PROVE  OneCarries(order, u.order, r, o, onHand[r], u.onHand[r])
  BY DEF BagFits
<1>1. \A x \in Orders \ {o} : \A v \in Variants : Carries(u.order[x], r, v) = Carries(order[x], r, v)
  BY UncarriedDoes
<1>2. \A v \in Variants : onHand[r][v] \in Int /\ Carries(order[o], r, v) \in Int
  <2>1. r \in AllPlaces /\ onHand \in [AllPlaces -> [Variants -> Int]]
    BY PlaceNames, NowIs, StateFields DEF GoodsIInv, Sound
  <2>2. onHand[r] \in [Variants -> Int]
    BY <2>1
  <2> QED
    BY <2>2, RowFacts, CarriesType
<1>3. ASSUME NEW v \in Variants
      PROVE  u.onHand[r][v] = onHand[r][v] + Carries(u.order[o], r, v) - Carries(order[o], r, v)
  <2>1. CASE order[o].runner = r
    <3>1. u.order[o].status \notin InRunnerHands /\ units = QuantitiesOf(order[o].lines)
      BY <2>1
    <3>2. Carries(u.order[o], r, v) = 0 /\ Carries(order[o], r, v) = units[v]
      BY <2>1, <3>1 DEF Carries
    <3> QED
      BY <1>2, <1>3, <2>1, <3>2 DEF BagTaken
  <2>2. CASE order[o].runner # r
    <3>1. Carries(u.order[o], r, v) = 0 /\ Carries(order[o], r, v) = 0
      BY <2>2 DEF Carries
    <3> QED
      BY <1>2, <1>3, <2>2, <3>1 DEF BagTaken
  <2> QED
    BY <2>1, <2>2
<1> QED
  BY <1>1, <1>3 DEF OneCarries

LEMMA OneOrder ==
  ASSUME GoodsIInv, NEW o \in Orders, NEW u, NEW changed \in SUBSET {o},
         CommitAltering(u, changed), Sound(u), BagFits(u, changed), RowFits(u, changed, o),
         \A x \in Orders \ {o} : SameRow(u, x)
  PROVE  GoodStep
<1>1. \A x \in Orders : RowFits(u, changed, x)
  <2> TAKE x \in Orders
  <2>1. CASE x = o
    BY <2>1
  <2>2. CASE x # o
    BY <2>2, SameStays, StaysFits
  <2> QED
    BY <2>1, <2>2
<1>2. Fits(u, changed)
  BY <1>1 DEF Fits
<1> QED
  BY <1>2, Committed DEF GoodStep

\* An order whose row is written, with what it holds, and no balance that moves.
LEMMA OneLeaves ==
  ASSUME GoodsIInv, NEW o \in Orders, NEW u, NEW changed \in SUBSET {o}, CommitAltering(u, changed),
         NEW row, NEW h, Leaves(u, Now, o, row, h),
         RowFits(u, changed, o),
         \/ order[o].status \notin InRunnerHands /\ row.status \notin InRunnerHands
         \/ /\ row.runner = order[o].runner
            /\ \/ o \in altered \cup changed
               \/ /\ row.lines = order[o].lines
                  /\ order[o].status \in InRunnerHands /\ row.status \in InRunnerHands
  PROVE  GoodStep
<1>1. /\ Sound(u) /\ u.order[o] = row /\ u.onHand = onHand
      /\ \A x \in Orders \ {o} : SameRow(u, x)
  BY NowIs DEF Leaves, SameRow
<1>2. Uncarried(u, o)
  BY <1>1 DEF Uncarried, SameRow
<1>3. BagFits(u, changed)
  BY <1>1, <1>2, BagsStay
<1> QED
  BY <1>1, <1>3, OneOrder

LEMMA PackGood ==
  ASSUME GoodsIInv, NEW o \in Orders, Pack(o) PROVE GoodStep
<1>a. PICK u : u = SetStatus(Now, o, "PACKING")
  OBVIOUS
<1>b. PICK row : row = WithStatus(order[o], "PACKING")
  OBVIOUS
<1>1. /\ CommitAltering(u, {}) /\ order[o].type = "SO" /\ order[o].status = "NEW"
  BY <1>a DEF Pack, Commit, At
<1>2. Leaves(u, Now, o, row, held[o])
  BY <1>a, <1>b, NowIs, SetStatusLeaves DEF GoodsIInv, Statuses, InWarehouse
<1>3. /\ SameBut4(row, order[o]) /\ row.status = "PACKING" /\ row.lines = order[o].lines
      /\ row.runner = order[o].runner /\ row.left = order[o].left
  BY <1>b, RowFacts, StatusFields DEF Statuses, InWarehouse
<1>4. u.order[o] = row /\ u.held[o] = held[o] /\ u.draft[o] = draft[o]
  BY <1>2, NowIs DEF Leaves
<1>5. RowFits(u, {}, o)
  BY <1>1, <1>3, <1>4, RowFacts
     DEF RowFits, RowOK, RowKept, HoldsRight, HoldingOf, Bringing, SameBut4, InWarehouse,
         InRunnerHands, InStore, FinalStatuses, BeforeArrival
<1> QED
  BY <1>1, <1>2, <1>3, <1>5, OneLeaves DEF InRunnerHands

LEMMA CountsAreLines ==
  ASSUME GoodsIInv, NEW o \in Orders, NEW l \in Counts(o) PROVE l \in LineSets
<1>1. IsLines(order[o].lines)
  BY RowFacts, LinesAreLines
<1>2. l \in [DOMAIN order[o].lines -> Nat] /\ DOMAIN order[o].lines \in SUBSET Variants
  BY <1>1, InternalOrderAssumption DEF Counts, IsLines
<1> QED
  BY <1>2, LinesAre

LEMMA ReadyGood ==
  ASSUME GoodsIInv, NEW o \in Orders, NEW found \in Counts(o), Ready(o, found) PROVE GoodStep
<1>a. PICK n : n = NewVersion(Now, o, found)
  OBVIOUS
<1>b. PICK k : k = ReserveAll(n, o, "WAREHOUSE")
  OBVIOUS
<1>c. PICK u : u = SetStatus(k, o, "READY_FOR_RUNNER")
  OBVIOUS
<1>d. PICK counted : counted = WithLines(order[o], found)
  OBVIOUS
<1>e. PICK row : row = WithStatus(counted, "READY_FOR_RUNNER")
  OBVIOUS
<1>f. PICK h : h = HoldRow("WAREHOUSE", QuantitiesOf(found))
  OBVIOUS
<1>1. /\ CommitAltering(u, {}) /\ order[o].type = "SO" /\ order[o].status = "PACKING"
      /\ found \in LineSets
  BY <1>a, <1>b, <1>c, CountsAreLines DEF Ready, Commit, At
<1>2. /\ SameBut4(counted, order[o]) /\ counted.status = "PACKING" /\ counted.lines = found
      /\ counted.runner = order[o].runner /\ counted.left = order[o].left /\ counted \in RowSet
  BY <1>1, <1>d, RowFacts, LinesFields
<1>3. /\ SameBut4(row, order[o]) /\ row.status = "READY_FOR_RUNNER" /\ row.lines = found
      /\ row.runner = order[o].runner /\ row.left = order[o].left
  BY <1>2, <1>e, StatusFields DEF Statuses, InWarehouse, SameBut4
<1>4. Leaves(n, Now, o, counted, held[o])
  BY <1>1, <1>a, <1>d, NowIs, NewVersionLeaves DEF GoodsIInv
<1>5. Leaves(k, n, o, counted, h)
  <2>1. Sound(n) /\ n.order[o] = counted
    BY <1>4 DEF Leaves
  <2> QED
    BY <1>2, <1>b, <1>f, <2>1, PlaceNames, ReserveAllLeaves
<1>6. Leaves(u, k, o, row, h)
  <2>1. Sound(k) /\ k.order[o] = counted /\ k.held[o] = h
    BY <1>5 DEF Leaves
  <2> QED
    BY <1>c, <1>e, <2>1, SetStatusLeaves DEF Statuses, InWarehouse
<1>7. Leaves(u, Now, o, row, h)
  BY <1>4, <1>5, <1>6, LeavesAgain
<1>8. u.order[o] = row /\ u.held[o] = h /\ u.draft[o] = draft[o]
  BY <1>7, NowIs DEF Leaves
<1>9. RowFits(u, {}, o)
  BY <1>1, <1>3, <1>8, <1>f, RowFacts
     DEF RowFits, RowOK, RowKept, HoldsRight, HoldingOf, Bringing, SameBut4, InWarehouse,
         InRunnerHands, InStore, FinalStatuses, BeforeArrival
<1> QED
  BY <1>1, <1>7, <1>3, <1>9, OneLeaves DEF InRunnerHands

LEMMA ClaimGood ==
  ASSUME GoodsIInv, NEW o \in Orders, NEW r \in Runners, Claim(o, r) PROVE GoodStep
<1>a. PICK u : u = [Now EXCEPT !.order[o].runner = r]
  OBVIOUS
<1>b. PICK row : row = WithRunner(order[o], r)
  OBVIOUS
<1>1. CommitAltering(u, {}) /\ order[o].status \in Waiting /\ order[o].runner = None
  BY <1>a DEF Claim, Commit
<1>2. /\ SameBut4(row, order[o]) /\ row.status = order[o].status /\ row.lines = order[o].lines
      /\ row.runner = r /\ row.left = order[o].left /\ row \in RowSet
  BY <1>b, RowFacts, RunnerFields
<1>3. u = [Now EXCEPT !.order = [@ EXCEPT ![o] = row]]
  BY <1>a, <1>b DEF WithRunner, Now
<1>4. Sound(u) /\ Wrote(u, Now, o, row)
  BY <1>2, <1>3, Rewritten DEF GoodsIInv
<1>5. Leaves(u, Now, o, row, held[o])
  BY <1>2, <1>4, NowIs DEF Leaves, Wrote, OnlyRows
<1>6. u.order[o] = row /\ u.held[o] = held[o] /\ u.draft[o] = draft[o]
  BY <1>5, NowIs DEF Leaves
<1>7. RowFits(u, {}, o)
  BY <1>1, <1>2, <1>6, RowFacts, PlaceNames
     DEF RowFits, RowOK, RowKept, HoldsRight, HoldingOf, Bringing, SameBut4, InWarehouse, Waiting,
         InRunnerHands, InStore, FinalStatuses, BeforeArrival
<1> QED
  BY <1>1, <1>2, <1>5, <1>7, OneLeaves DEF InRunnerHands, Waiting

LEMMA DeliverGood ==
  ASSUME GoodsIInv, NEW o \in Orders, Deliver(o) PROVE GoodStep
<1>a. PICK status : status = IF order[o].type = "SO" THEN "DELIVERED_TO_STORE"
                             ELSE "DELIVERED_TO_WAREHOUSE"
  OBVIOUS
<1>b. PICK u : u = SetStatus(Now, o, status)
  OBVIOUS
<1>c. PICK row : row = WithStatus(order[o], status)
  OBVIOUS
<1>1. CommitAltering(u, {}) /\ order[o].status \in {"IN_TRANSIT", "IN_TRANSIT_TO_WAREHOUSE"}
  BY <1>a, <1>b DEF Deliver, Commit
<1>2. /\ status \in Statuses /\ status \in InRunnerHands /\ order[o].status \in InRunnerHands
      /\ status \in {"DELIVERED_TO_STORE", "DELIVERED_TO_WAREHOUSE"}
  BY <1>1, <1>a DEF Statuses, InRunnerHands
<1>3. Leaves(u, Now, o, row, held[o])
  BY <1>2, <1>b, <1>c, NowIs, SetStatusLeaves DEF GoodsIInv
<1>4. /\ SameBut4(row, order[o]) /\ row.status = status /\ row.lines = order[o].lines
      /\ row.runner = order[o].runner /\ row.left = order[o].left
  BY <1>2, <1>c, RowFacts, StatusFields
<1>5. u.order[o] = row /\ u.held[o] = held[o] /\ u.draft[o] = draft[o]
  BY <1>3, NowIs DEF Leaves
<1>6. RowFits(u, {}, o)
  BY <1>1, <1>2, <1>4, <1>5, <1>a, RowFacts
     DEF RowFits, RowOK, RowKept, HoldsRight, HoldingOf, Bringing, SameBut4, InWarehouse,
         InRunnerHands, InStore, FinalStatuses, BeforeArrival
<1> QED
  BY <1>1, <1>2, <1>3, <1>4, <1>6, OneLeaves

LEMMA BackToSellerGood ==
  ASSUME GoodsIInv, NEW o \in Orders, BackToSeller(o) PROVE GoodStep
<1>a. PICK u : u = SetStatus(Now, o, "RECEIVED_BY_SELLER")
  OBVIOUS
<1>b. PICK row : row = WithStatus(order[o], "RECEIVED_BY_SELLER")
  OBVIOUS
<1>1. /\ CommitAltering(u, {}) /\ order[o].type = "SO" /\ order[o].status = "PENDING_PAYMENT"
      /\ draft[o] = None
  BY <1>a DEF BackToSeller, Commit, At, NoOpenSale
<1>2. Leaves(u, Now, o, row, held[o])
  BY <1>a, <1>b, NowIs, SetStatusLeaves DEF GoodsIInv, Statuses, InStore
<1>3. /\ SameBut4(row, order[o]) /\ row.status = "RECEIVED_BY_SELLER" /\ row.lines = order[o].lines
      /\ row.runner = order[o].runner /\ row.left = order[o].left
  BY <1>b, RowFacts, StatusFields DEF Statuses, InStore
<1>4. u.order[o] = row /\ u.held[o] = held[o] /\ u.draft[o] = draft[o]
  BY <1>2, NowIs DEF Leaves
<1>5. RowFits(u, {}, o)
  BY <1>1, <1>3, <1>4, RowFacts
     DEF RowFits, RowOK, RowKept, HoldsRight, HoldingOf, Bringing, SameBut4, InWarehouse,
         InRunnerHands, InStore, FinalStatuses, BeforeArrival
<1> QED
  BY <1>1, <1>2, <1>3, <1>5, OneLeaves DEF InRunnerHands

\* What an order held goes to the bin, and it ends.
LEMMA GivenBack ==
  ASSUME GoodsIInv, NEW o \in Orders, NEW status \in FinalStatuses,
         Commit(SetStatus(HoldInBin(Release(Now, o), o, MovedBy(Now, o)), o, status)),
         o \notin altered => draft[o] = None,
         order[o].status \in InStore \cup {"WAITING_FOR_RUNNER"},
         order[o].type = "RE" => status = "CANCELLED"
  PROVE  GoodStep
<1>a. PICK r : r = Release(Now, o)
  OBVIOUS
<1>b. PICK k : k = HoldInBin(r, o, MovedBy(Now, o))
  OBVIOUS
<1>c. PICK u : u = SetStatus(k, o, status)
  OBVIOUS
<1>d. PICK row : row = WithStatus(order[o], status)
  OBVIOUS
<1>1. CommitAltering(u, {}) /\ status \in Statuses /\ MovedBy(Now, o) \in Units
  BY <1>a, <1>b, <1>c, NowIs, RowFacts DEF Commit, MovedBy, LinesOf, Statuses
<1>2. Leaves(r, Now, o, order[o], NothingHeld)
  BY <1>a, NowIs, ReleaseLeaves DEF GoodsIInv
<1>3. Leaves(k, r, o, order[o], NothingHeld)
  <2>1. Sound(r) /\ r.order[o] = order[o] /\ r.held[o] = NothingHeld
    BY <1>2 DEF Leaves
  <2> QED
    BY <1>1, <1>b, <2>1, HoldInBinLeaves
<1>4. Leaves(u, k, o, row, NothingHeld)
  <2>1. Sound(k) /\ k.order[o] = order[o] /\ k.held[o] = NothingHeld
    BY <1>3 DEF Leaves
  <2> QED
    BY <1>1, <1>c, <1>d, <2>1, SetStatusLeaves
<1>5. Leaves(u, Now, o, row, NothingHeld)
  BY <1>2, <1>3, <1>4, LeavesAgain
<1>6. u.order[o] = row /\ u.held[o] = NothingHeld /\ u.draft[o] = draft[o]
  BY <1>5, NowIs DEF Leaves
<1>7. /\ SameBut4(row, order[o]) /\ row.status = status /\ row.lines = order[o].lines
      /\ row.runner = order[o].runner /\ row.left = order[o].left
  BY <1>1, <1>d, RowFacts, StatusFields
<1>8. RowFits(u, {}, o)
  BY <1>6, <1>7, RowFacts
     DEF RowFits, RowOK, RowKept, HoldsRight, HoldingOf, Bringing, SameBut4, InWarehouse,
         InRunnerHands, InStore, FinalStatuses, BeforeArrival
<1>9. order[o].status \notin InRunnerHands /\ row.status \notin InRunnerHands
  BY <1>7 DEF InRunnerHands, InStore, FinalStatuses
<1> QED
  BY <1>1, <1>5, <1>8, <1>9, OneLeaves

LEMMA ReturnRequestGood ==
  ASSUME GoodsIInv, NEW o \in Orders, ReturnRequest(o) PROVE GoodStep
BY GivenBack DEF ReturnRequest, At, NoOpenSale, InStore, FinalStatuses

LEMMA CancelReturnGood ==
  ASSUME GoodsIInv, NEW o \in Orders, CancelReturn(o) PROVE GoodStep
<1>1. /\ order[o].status = "WAITING_FOR_RUNNER"
      /\ Commit(SetStatus(HoldInBin(Release(Now, o), o, MovedBy(Now, o)), o, "CANCELLED"))
  BY DEF CancelReturn, At
<1>2. o \notin altered => draft[o] = None
  BY <1>1, RowFacts DEF HoldsRight
<1> QED
  BY <1>1, <1>2, GivenBack DEF FinalStatuses

-----------------------------------------------------------------------------
(* The cash desk *)

LEMMA DraftStep ==
  ASSUME GoodsIInv, NEW o \in Orders, NEW t, NEW row, NEW h, Leaves(t, Now, o, row, h),
         NEW k, NEW d, Drafts(k, t, o, d)
  PROVE  /\ Sound(k) /\ k.order[o] = row /\ k.held[o] = h /\ k.draft[o] = d
         /\ \A x \in Orders \ {o} : SameRow(k, x)
         /\ \A r \in Runners : k.onHand[r] = onHand[r]
BY NowIs DEF Leaves, Drafts, SameRow

LEMMA OpenChargeGood ==
  ASSUME GoodsIInv, NEW o \in Orders, OpenCharge(o) PROVE GoodStep
<1>a. PICK t : t = Release(Now, o)
  OBVIOUS
<1>b. PICK units : units = QuantitiesOf(order[o].lines)
  OBVIOUS
<1>c. PICK u : u = [t EXCEPT !.draft[o] = units, !.ok = Needs(t, "STORE", units)]
  OBVIOUS
<1>1. Leaves(t, Now, o, order[o], NothingHeld)
  BY <1>a, NowIs, ReleaseLeaves DEF GoodsIInv
<1>2. Sound(t) /\ t.order[o] = order[o] /\ t.draft[o] = draft[o]
  BY <1>1, NowIs DEF Leaves
<1>3. /\ CommitAltering(u, {}) /\ order[o].type = "SO" /\ order[o].status = "PENDING_PAYMENT"
      /\ draft[o] = None /\ units \in Units
  <2>1. MovedBy(t, o) = units
    BY <1>2, <1>b DEF MovedBy, LinesOf
  <2> QED
    BY <1>a, <1>b, <1>c, <2>1, RowFacts DEF OpenCharge, Commit, At, NoOpenSale
<1>4. Drafts(u, t, o, units)
  BY <1>2, <1>3, <1>c, DraftTakes
<1>5. /\ Sound(u) /\ u.order[o] = order[o] /\ u.held[o] = NothingHeld /\ u.draft[o] = units
      /\ \A x \in Orders \ {o} : SameRow(u, x)
      /\ \A r \in Runners : u.onHand[r] = onHand[r]
  BY <1>1, <1>4, DraftStep
<1>6. RowFits(u, {}, o)
  BY <1>3, <1>5, <1>b, RowFacts, PlaceNames
     DEF RowFits, RowOK, RowKept, HoldsRight, HoldingOf, Bringing, InWarehouse,
         InRunnerHands, InStore, FinalStatuses, BeforeArrival
<1>7. Uncarried(u, o)
  BY <1>5 DEF Uncarried, SameRow
<1>8. BagFits(u, {})
  BY <1>3, <1>5, <1>7, BagsStay DEF InRunnerHands
<1> QED
  BY <1>3, <1>5, <1>6, <1>8, OneOrder

LEMMA PayGood ==
  ASSUME GoodsIInv, NEW o \in Orders, Pay(o) PROVE GoodStep
<1>a. PICK d : d = draft[o]
  OBVIOUS
<1>b. PICK t : t = [Now EXCEPT !.onHand["STORE"] = Sub(@, d), !.draft[o] = None]
  OBVIOUS
<1>c. PICK u : u = SetStatus(t, o, "PAID")
  OBVIOUS
<1>d. PICK row : row = WithStatus(order[o], "PAID")
  OBVIOUS
<1>1. /\ CommitAltering(u, {}) /\ order[o].type = "SO" /\ order[o].status = "PENDING_PAYMENT"
      /\ d # None /\ d \in Units /\ Now.draft[o] = d /\ Sound(Now)
  BY <1>a, <1>b, <1>c, RowFacts, NowIs DEF Pay, Commit, At, NoOpenSale, GoodsIInv
<1>2. Drafts(t, Now, o, None)
  BY <1>1, <1>b, DraftLeaves
<1>3. /\ Sound(t) /\ t.order = order /\ t.held = held /\ t.draft[o] = None
      /\ \A x \in Orders \ {o} : t.draft[x] = draft[x]
      /\ \A r \in Runners : t.onHand[r] = onHand[r]
  BY <1>2, NowIs DEF Drafts
<1>4. Leaves(u, t, o, row, held[o])
  BY <1>3, <1>c, <1>d, SetStatusLeaves DEF Statuses, FinalStatuses
<1>5. /\ Sound(u) /\ u.order[o] = row /\ u.held[o] = held[o] /\ u.draft[o] = None
      /\ \A x \in Orders \ {o} : SameRow(u, x)
      /\ \A r \in Runners : u.onHand[r] = onHand[r]
  BY <1>3, <1>4 DEF Leaves, SameRow
<1>6. /\ SameBut4(row, order[o]) /\ row.status = "PAID" /\ row.lines = order[o].lines
      /\ row.runner = order[o].runner /\ row.left = order[o].left
  BY <1>d, RowFacts, StatusFields DEF Statuses, FinalStatuses
<1>7. RowFits(u, {}, o)
  BY <1>1, <1>5, <1>6, <1>a, RowFacts
     DEF RowFits, RowOK, RowKept, HoldsRight, HoldingOf, Bringing, SameBut4, InWarehouse,
         InRunnerHands, InStore, FinalStatuses, BeforeArrival
<1>8. Uncarried(u, o)
  BY <1>5 DEF Uncarried, SameRow
<1>9. BagFits(u, {})
  BY <1>1, <1>5, <1>6, <1>8, BagsStay DEF InRunnerHands
<1> QED
  BY <1>1, <1>5, <1>7, <1>9, OneOrder

LEMMA DiscardChargeGood ==
  ASSUME GoodsIInv, NEW o \in Orders, DiscardCharge(o) PROVE GoodStep
<1>a. PICK t : t = [Now EXCEPT !.draft[o] = None]
  OBVIOUS
<1>b. PICK u : u = IF order[o].status = "PENDING_PAYMENT" THEN ReserveAll(t, o, "STORE") ELSE t
  OBVIOUS
<1>c. PICK h : h = IF order[o].status = "PENDING_PAYMENT"
                   THEN HoldRow("STORE", QuantitiesOf(order[o].lines)) ELSE held[o]
  OBVIOUS
<1>1. CommitAltering(u, {}) /\ draft[o] # None /\ Sound(Now)
  BY <1>a, <1>b DEF DiscardCharge, Commit, NoOpenSale, GoodsIInv
<1>2. Drafts(t, Now, o, None)
  BY <1>1, <1>a, DraftEnds
<1>3. /\ Sound(t) /\ t.order = order /\ t.held = held /\ t.draft[o] = None
      /\ \A x \in Orders \ {o} : t.draft[x] = draft[x]
      /\ \A r \in Runners : t.onHand[r] = onHand[r]
  BY <1>2, NowIs DEF Drafts
<1>4. Leaves(u, t, o, order[o], h)
  <2>1. CASE order[o].status = "PENDING_PAYMENT"
    BY <1>3, <1>b, <1>c, <2>1, PlaceNames, ReserveAllLeaves
  <2>2. CASE order[o].status # "PENDING_PAYMENT"
    BY <1>3, <1>b, <1>c, <2>2, RowFacts DEF Leaves
  <2> QED
    BY <2>1, <2>2
<1>5. /\ Sound(u) /\ u.order[o] = order[o] /\ u.held[o] = h /\ u.draft[o] = None
      /\ \A x \in Orders \ {o} : SameRow(u, x)
      /\ \A r \in Runners : u.onHand[r] = onHand[r]
  BY <1>3, <1>4 DEF Leaves, SameRow
<1>6. RowFits(u, {}, o)
  BY <1>1, <1>5, <1>c, RowFacts
     DEF RowFits, RowOK, RowKept, HoldsRight, HoldingOf, Bringing, InWarehouse,
         InRunnerHands, InStore, FinalStatuses, BeforeArrival
<1>7. Uncarried(u, o)
  BY <1>5 DEF Uncarried, SameRow
<1>8. BagFits(u, {})
  BY <1>5, <1>7, BagsStay
<1> QED
  BY <1>1, <1>5, <1>6, <1>8, OneOrder

-----------------------------------------------------------------------------
(* The road *)

LEMMA PickUpGood ==
  ASSUME GoodsIInv, NEW o \in Orders, NEW r \in Runners, PickUp(o, r) PROVE GoodStep
<1>a. PICK k : k = Release(Now, o)
  OBVIOUS
<1>b. PICK taken : taken = WithRunner(order[o], r)
  OBVIOUS
<1>c. PICK t : t = [k EXCEPT !.order = [@ EXCEPT ![o] = taken]]
  OBVIOUS
<1>d. PICK units : units = QuantitiesOf(order[o].lines)
  OBVIOUS
<1>e. PICK m : m = Move(t, order[o].source, r, units)
  OBVIOUS
<1>f. PICK status : status = IF order[o].type = "SO" THEN "IN_TRANSIT" ELSE "IN_TRANSIT_TO_WAREHOUSE"
  OBVIOUS
<1>g. PICK u : u = SetStatus(m, o, status)
  OBVIOUS
<1>h. PICK row : row = WithStatus(taken, status)
  OBVIOUS
<1>1. /\ order[o].status \in Waiting /\ order[o].runner \in {None, r} /\ CommitAltering(u, {})
  <2>1. [k EXCEPT !.order[o].runner = r] = t
    <3>1. k.order = order
      BY <1>a, NowIs, ReleaseDoes DEF GoodsIInv, Holds
    <3> QED
      BY <1>b, <1>c, <3>1 DEF WithRunner
  <2>2. MovedBy(Now, o) = units
    BY <1>d, NowIs DEF MovedBy, LinesOf
  <2> QED
    BY <1>a, <1>e, <1>f, <1>g, <2>1, <2>2 DEF PickUp, Commit
<1>2. /\ status \in Statuses /\ status \in InRunnerHands /\ units \in Units
      /\ order[o].status \notin InRunnerHands
      /\ order[o].source \in AllPlaces /\ r \in AllPlaces /\ order[o].source # r
  BY <1>1, <1>d, <1>f, RowFacts, PlaceNames DEF Statuses, InRunnerHands, Waiting
<1>3. /\ SameBut4(taken, order[o]) /\ taken.status = order[o].status
      /\ taken.lines = order[o].lines /\ taken.runner = r /\ taken.left = order[o].left
      /\ taken \in RowSet
  BY <1>b, RowFacts, RunnerFields
<1>4. /\ SameBut4(row, order[o]) /\ row.status = status /\ row.lines = order[o].lines
      /\ row.runner = r /\ row.left = order[o].left
  BY <1>2, <1>3, <1>h, StatusFields DEF SameBut4
<1>5. Leaves(k, Now, o, order[o], NothingHeld)
  BY <1>a, NowIs, ReleaseLeaves DEF GoodsIInv
<1>6. Sound(t) /\ Wrote(t, k, o, taken)
  <2>1. Sound(k)
    BY <1>5 DEF Leaves
  <2> QED
    BY <1>3, <1>c, <2>1, Rewritten
<1>7. Sound(m) /\ Moved(m, t, order[o].source, r, units)
  BY <1>2, <1>6, <1>e, MoveDoes
<1>8. Leaves(u, m, o, row, NothingHeld)
  <2>1. Sound(m) /\ m.order[o] = taken /\ m.held[o] = NothingHeld
    BY <1>5, <1>6, <1>7 DEF Leaves, Wrote, OnlyRows, Moved
  <2> QED
    BY <1>2, <1>g, <1>h, <2>1, SetStatusLeaves
<1>9. /\ Sound(u) /\ u.order[o] = row /\ u.held[o] = NothingHeld /\ u.draft = draft
      /\ \A x \in Orders \ {o} : SameRow(u, x)
  BY <1>5, <1>6, <1>7, <1>8, NowIs DEF Leaves, Wrote, OnlyRows, Moved, SameRow
<1>10. RowFits(u, {}, o)
  BY <1>1, <1>2, <1>4, <1>9, <1>f, RowFacts, PlaceNames
     DEF RowFits, RowOK, RowKept, HoldsRight, HoldingOf, Bringing, SameBut4, InWarehouse, Waiting,
         InRunnerHands, InStore, FinalStatuses, BeforeArrival
<1>11. BagFits(u, {})
  <2> SUFFICES ASSUME NEW q \in Runners
               PROVE  OneCarries(order, u.order, q, o, onHand[q], u.onHand[q])
    BY DEF BagFits
  <2>1. Uncarried(u, o)
    BY <1>9 DEF Uncarried, SameRow
  <2>2. \A x \in Orders \ {o} : \A v \in Variants : Carries(u.order[x], q, v) = Carries(order[x], q, v)
    BY <2>1, UncarriedDoes
  <2>3. \A v \in Variants : onHand[q][v] \in Int /\ units[v] \in Nat
    <3>1. q \in AllPlaces /\ onHand \in [AllPlaces -> [Variants -> Int]]
      BY PlaceNames, NowIs, StateFields DEF GoodsIInv, Sound
    <3>2. onHand[q] \in [Variants -> Int]
      BY <3>1
    <3> QED
      BY <1>2, <3>2 DEF Units
  <2>4. t.onHand = onHand /\ u.onHand = m.onHand
    BY <1>5, <1>6, <1>8, NowIs DEF Leaves, Wrote, OnlyRows
  <2>5. ASSUME NEW v \in Variants
        PROVE  u.onHand[q][v] = onHand[q][v] + Carries(u.order[o], q, v) - Carries(order[o], q, v)
    <3>1. /\ Carries(order[o], q, v) = 0
          /\ Carries(u.order[o], q, v) = IF q = r THEN units[v] ELSE 0
      BY <1>2, <1>4, <1>9, <1>d DEF Carries
    <3>2. CASE q = r
      BY <1>7, <2>3, <2>4, <2>5, <3>1, <3>2 DEF Moved
    <3>3. CASE q # r
      <4>1. q \in AllPlaces \ {order[o].source, r}
        BY <3>3, RowFacts, PlaceNames
      <4> QED
        BY <1>7, <2>3, <2>4, <2>5, <3>1, <3>3, <4>1 DEF Moved
    <3> QED
      BY <3>2, <3>3
  <2> QED
    BY <2>2, <2>5 DEF OneCarries
<1> QED
  BY <1>1, <1>9, <1>10, <1>11, OneOrder

-----------------------------------------------------------------------------
(* The bin, the returns and what arrives for the shelf *)

\* No order is written.
LEMMA NoOrder ==
  ASSUME GoodsIInv, NEW u, Commit(u), Sound(u),
         u.order = order, u.held = held, u.draft = draft,
         \A r \in Runners : u.onHand[r] = onHand[r]
  PROVE  GoodStep
<1>1. \A x \in Orders : RowFits(u, {}, x)
  BY SameStays, StaysFits DEF SameRow
<1>2. BagFits(u, {})
  BY DEF BagFits
<1>3. Fits(u, {})
  BY <1>1, <1>2 DEF Fits
<1> QED
  BY <1>3, Committed DEF GoodStep, Commit

LEMMA RestockGood ==
  ASSUME GoodsIInv, NEW v \in Variants, Restock(v) PROVE GoodStep
<1>a. PICK one : one = [Zero EXCEPT ![v] = 1]
  OBVIOUS
<1>b. PICK u : u = Move(Now, "WAREHOUSE", "STORE", one)
  OBVIOUS
<1>1. Commit(u) /\ one \in Units
  BY <1>a, <1>b, ZeroUnits DEF Restock, Units
<1>2. Sound(u) /\ Moved(u, Now, "WAREHOUSE", "STORE", one)
  BY <1>1, <1>b, PlaceNames, MoveDoes DEF GoodsIInv
<1>3. \A r \in Runners : u.onHand[r] = onHand[r]
  BY <1>2, NowIs, PlaceNames DEF Moved
<1> QED
  BY <1>1, <1>2, <1>3, NowIs, NoOrder DEF Moved

LEMMA BinTaken ==
  ASSUME GoodsIInv, NEW b \in [Orders -> Units], NEW a \in [Places -> Units],
         \A x \in Orders, v \in Variants : b[x][v] <= bin[x][v],
         \A p \in Places, v \in Variants : a[p][v] <= aside[p][v],
         NEW u, u = [Now EXCEPT !.bin = b, !.aside = a]
  PROVE  /\ Sound(u) /\ u.order = order /\ u.held = held
         /\ u.draft = draft /\ u.onHand = onHand
<1>1. /\ Sound(Now)
      /\ \A x \in Orders, v \in Variants : b[x][v] <= Now.bin[x][v]
      /\ \A p \in Places, v \in Variants : a[p][v] <= Now.aside[p][v]
  BY NowIs DEF GoodsIInv
<1>2. PICK w : w = [Now EXCEPT !.bin = b, !.aside = a]
  OBVIOUS
<1>3. /\ Sound(w) /\ w.ok = Now.ok /\ w.order = Now.order /\ w.held = Now.held
      /\ w.draft = Now.draft /\ w.onHand = Now.onHand
  BY <1>1, <1>2, BinEmptied
<1> QED
  BY <1>2, <1>3, NowIs

LEMMA KeepBinInStoreGood ==
  ASSUME GoodsIInv, NEW S \in SUBSET Variants, KeepBinInStore(S) PROVE GoodStep
<1> DEFINE rest(units) == [v \in Variants |-> IF v \in S THEN 0 ELSE units[v]]
<1>a. PICK b : b = [x \in Orders |-> rest(bin[x])]
  OBVIOUS
<1>b. PICK a : a = [aside EXCEPT !["STORE"] = rest(aside["STORE"])]
  OBVIOUS
<1>c. PICK u : u = [Now EXCEPT !.bin = b, !.aside = a]
  OBVIOUS
<1>1. Commit(u)
  BY <1>a, <1>b, <1>c, NowIs DEF KeepBinInStore, Now
<1>2. bin \in [Orders -> Units] /\ aside \in [Places -> Units] /\ Sound(Now)
  BY NowIs, StateFields DEF GoodsIInv, Sound
<1>3. /\ \A units \in Units : rest(units) \in Units /\ \A v \in Variants : rest(units)[v] <= units[v]
      /\ \A units \in Units : \A v \in Variants : units[v] <= units[v]
  BY DEF Units
<1> HIDE DEF rest
<1>4. /\ b \in [Orders -> Units] /\ a \in [Places -> Units]
      /\ \A x \in Orders, v \in Variants : b[x][v] <= bin[x][v]
      /\ \A p \in Places, v \in Variants : a[p][v] <= aside[p][v]
  <2>1. /\ b \in [Orders -> Units]
        /\ \A x \in Orders, v \in Variants : b[x][v] <= bin[x][v]
    BY <1>2, <1>3, <1>a
  <2>2. "STORE" \in Places /\ rest(aside["STORE"]) \in Units
    BY <1>2, <1>3, PlaceNames
  <2>3. a \in [Places -> Units]
    BY <1>2, <1>b, <2>2
  <2>4. ASSUME NEW p \in Places, NEW v \in Variants PROVE a[p][v] <= aside[p][v]
    <3>1. aside[p] \in Units /\ a[p] = IF p = "STORE" THEN rest(aside[p]) ELSE aside[p]
      BY <1>2, <1>b, <2>2
    <3> QED
      BY <1>3, <3>1
  <2> QED
    BY <2>1, <2>3, <2>4
<1>5. /\ Sound(u) /\ u.order = order /\ u.held = held /\ u.draft = draft /\ u.onHand = onHand
  BY <1>4, <1>c, BinTaken
<1> QED
  BY <1>1, <1>5, NoOrder

\* The identity of what is created was used by nobody.
LEMMA UnusedFacts ==
  ASSUME GoodsIInv, NEW o \in Unused
  PROVE  /\ o \in Orders /\ order[o].type = "NONE" /\ order[o].status = "NONE" /\ o \notin altered
         /\ order[o].runner = None /\ draft[o] = None
         /\ order[o].status \notin InRunnerHands /\ order[o].status \notin FinalStatuses
BY RowFacts DEF Unused, RowOK, HoldsRight, InRunnerHands, FinalStatuses

LEMMA CreateReturnGood ==
  ASSUME GoodsIInv, NEW re \in Orders, NEW S \in SUBSET Variants, CreateReturnFromBin(re, S)
  PROVE  GoodStep
<1>a. PICK from : from = {x \in Orders : order[x].source = "WAREHOUSE"}
  OBVIOUS
<1>b. PICK all : all = SumUnits(bin, from)
  OBVIOUS
<1>c. PICK sent : sent = {v \in S : all[v] > 0}
  OBVIOUS
<1>d. PICK b : b = [x \in Orders |-> [v \in Variants |->
                       IF x \in from /\ v \in S THEN 0 ELSE bin[x][v]]]
  OBVIOUS
<1>e. PICK t : t = [Now EXCEPT !.bin = b]
  OBVIOUS
<1>f. PICK row : row = Row("RE", "WAITING_FOR_RUNNER", Restrict(all, sent), "STORE")
  OBVIOUS
<1>g. PICK c : c = Create(t, re, row)
  OBVIOUS
<1>h. PICK u : u = ReserveAll(c, re, "STORE")
  OBVIOUS
<1>1. CommitAltering(u, {}) /\ re \in Unused
  BY <1>a, <1>b, <1>c, <1>d, <1>e, <1>f, <1>g, <1>h DEF CreateReturnFromBin, Commit
<1>2. bin \in [Orders -> Units] /\ aside \in [Places -> Units] /\ Sound(Now)
  BY NowIs, StateFields DEF GoodsIInv, Sound
<1>3. \A v \in Variants : all[v] \in Nat
  <2> TAKE v \in Variants
  <2> DEFINE f == [x \in from |-> bin[x][v]]
  <2>1. all[v] = SumFunctionOnSet(f, from)
    <3>1. DOMAIN f = from
      OBVIOUS
    <3>2. f = [x \in from |-> bin[x][v]]
      OBVIOUS
    <3> HIDE DEF f
    <3> QED
      BY <1>b, <3>1, <3>2 DEF SumUnits, SumFunction
  <2>2. \A x \in from : f[x] \in Nat
    BY <1>2, <1>a DEF Units
  <2>3. IsFiniteSet(from)
    BY <1>a, PlaceNames, FS_Subset
  <2> HIDE DEF f
  <2> QED
    BY <2>1, <2>2, <2>3, SumNat
<1>4. Restrict(all, sent) \in LineSets
  <2>1. sent \in SUBSET Variants
    BY <1>c
  <2>2. Restrict(all, sent) \in [sent -> Nat]
    BY <1>3, <2>1 DEF Restrict
  <2> QED
    BY <2>1, <2>2, LinesAre
<1>5. /\ row \in RowSet /\ row.type = "RE" /\ row.status = "WAITING_FOR_RUNNER"
      /\ row.lines = Restrict(all, sent) /\ row.source = "STORE" /\ row.runner = None
      /\ row.parent = None /\ ~row.left
  BY <1>4, <1>f, PlaceNames, RowIs DEF Statuses
<1>6. /\ Sound(t) /\ t.order = order /\ t.held = held /\ t.draft = draft /\ t.onHand = onHand
  <2>1. b \in [Orders -> Units] /\ \A x \in Orders, v \in Variants : b[x][v] <= bin[x][v]
    BY <1>2, <1>d DEF Units
  <2>2. ASSUME NEW p \in Places, NEW v \in Variants PROVE aside[p][v] <= aside[p][v]
    <3>1. aside[p][v] \in Nat
      BY <1>2 DEF Units
    <3> QED
      BY <3>1
  <2>3. t = [Now EXCEPT !.bin = b, !.aside = aside]
    <3>1. PICK n \in State : n = Now
      BY DEF GoodsIInv, Sound
    <3>2. n.aside = aside /\ t = [n EXCEPT !.bin = b]
      BY <1>e, <3>1, NowIs
    <3>3. PICK a : a = aside
      OBVIOUS
    <3>4. t = [n EXCEPT !.bin = b, !.aside = a]
      BY <3>2, <3>3 DEF State
    <3> QED
      BY <3>1, <3>3, <3>4
  <2>4. aside \in [Places -> Units]
    BY <1>2
  <2> HIDE <1>2
  <2> QED
    BY <2>1, <2>2, <2>3, <2>4, BinTaken, NowIs
<1>7. Leaves(c, t, re, row, held[re])
  BY <1>5, <1>6, <1>g, CreateLeaves
<1>8. Leaves(u, c, re, row, HoldRow("STORE", QuantitiesOf(row.lines)))
  <2>1. Sound(c) /\ c.order[re] = row
    BY <1>7 DEF Leaves
  <2> QED
    BY <1>h, <2>1, PlaceNames, ReserveAllLeaves
<1>9. Leaves(u, Now, re, row, HoldRow("STORE", QuantitiesOf(row.lines)))
  BY <1>6, <1>7, <1>8, NowIs DEF Leaves
<1>10. /\ u.order[re] = row /\ u.held[re] = HoldRow("STORE", QuantitiesOf(row.lines))
       /\ u.draft[re] = draft[re]
  BY <1>9, NowIs DEF Leaves
<1>11. RowFits(u, {}, re)
  BY <1>1, <1>5, <1>10, UnusedFacts, RowFacts, PlaceNames
     DEF RowFits, RowOK, RowKept, HoldsRight, HoldingOf, Bringing, InWarehouse,
         InRunnerHands, InStore, FinalStatuses, BeforeArrival
<1> QED
  BY <1>1, <1>5, <1>9, <1>11, UnusedFacts, OneLeaves DEF InRunnerHands

LEMMA VerifyReturnGood ==
  ASSUME GoodsIInv, NEW o \in Orders, NEW counted \in Counts(o), VerifyReturn(o, counted)
  PROVE  GoodStep
<1>a. PICK k : k = HandOver(Now, o)
  OBVIOUS
<1>b. PICK n : n = NewVersion(k, o, counted)
  OBVIOUS
<1>c. PICK m : m = Move(n, "RETURNS", "WAREHOUSE", QuantitiesOf(counted))
  OBVIOUS
<1>d. PICK u : u = SetStatus(m, o, "RETURNED")
  OBVIOUS
<1>1. /\ CommitAltering(u, {}) /\ order[o].type = "RE" /\ order[o].status = "DELIVERED_TO_WAREHOUSE"
      /\ counted \in LineSets
  BY <1>a, <1>b, <1>c, <1>d, CountsAreLines DEF VerifyReturn, Commit, At
<1>2. /\ order[o].runner \in Runners /\ order[o].status \in InRunnerHands
      /\ (o \notin altered => ~order[o].left)
  BY <1>1, RowFacts DEF RowOK, HoldsRight, InRunnerHands, BeforeArrival
<1>3. PICK arrived \in RowSet, units \in Units :
        /\ LeavesBag(k, Now, o, arrived, held[o], units)
        /\ Arrives(arrived, order[o], order[o].status)
        /\ ~order[o].left => units = QuantitiesOf(order[o].lines)
  <2>1. Sound(Now) /\ Now.order = order /\ Now.held = held
    BY NowIs DEF GoodsIInv
  <2> QED
    BY <1>1, <1>2, <1>a, <2>1, HandOverLeaves
<1>e. PICK listed : listed = WithLines(arrived, counted)
  OBVIOUS
<1>f. PICK row : row = WithStatus(listed, "RETURNED")
  OBVIOUS
<1>4. /\ listed \in RowSet /\ SameBut4(row, order[o]) /\ row.status = "RETURNED"
      /\ row.runner = order[o].runner /\ row \in RowSet
  BY <1>1, <1>3, <1>e, <1>f, LinesFields, StatusFields DEF Arrives, SameBut4, Statuses, FinalStatuses
<1>5. Leaves(n, k, o, listed, held[o])
  <2>1. Sound(k) /\ k.order[o] = arrived /\ k.held[o] = held[o]
    BY <1>3 DEF LeavesBag
  <2> QED
    BY <1>1, <1>b, <1>e, <2>1, NewVersionLeaves
<1>6. LeavesBag(n, Now, o, listed, held[o], units)
  BY <1>3, <1>5, LeavesThenBag
<1>7. Sound(m) /\ Moved(m, n, "RETURNS", "WAREHOUSE", QuantitiesOf(counted))
  <2>1. Sound(n) /\ QuantitiesOf(counted) \in Units
    BY <1>1, <1>6, LinesAreLines DEF LeavesBag
  <2> QED
    BY <1>c, <2>1, PlaceNames, MoveDoes
<1>8. Leaves(u, m, o, row, held[o])
  <2>1. m.order[o] = listed /\ m.held[o] = held[o]
    BY <1>6, <1>7 DEF LeavesBag, Moved
  <2> QED
    BY <1>7, <1>d, <1>f, <2>1, SetStatusLeaves DEF Statuses, FinalStatuses
<1>9. /\ Sound(u) /\ u.order[o] = row /\ u.held[o] = held[o] /\ u.draft = draft
      /\ \A x \in Orders \ {o} : SameRow(u, x)
  BY <1>6, <1>7, <1>8, NowIs DEF Leaves, LeavesBag, Moved, SameRow
<1>10. \A r \in Runners, v \in Variants :
         u.onHand[r][v] = onHand[r][v] - (IF order[o].runner = r THEN units[v] ELSE 0)
  <2> TAKE r \in Runners, v \in Variants
  <2>1. r \in AllPlaces \ {"RETURNS", "WAREHOUSE"}
    BY PlaceNames
  <2>2. u.onHand[r] = n.onHand[r]
    BY <1>7, <1>8, <2>1 DEF Leaves, Moved
  <2> QED
    BY <1>6, <2>2, NowIs DEF LeavesBag
<1>11. RowFits(u, {}, o)
  BY <1>1, <1>4, <1>9, RowFacts
     DEF RowFits, RowOK, RowKept, HoldsRight, HoldingOf, Bringing, SameBut4, InWarehouse,
         InRunnerHands, InStore, FinalStatuses, BeforeArrival
<1>12. Uncarried(u, o)
  BY <1>9 DEF Uncarried, SameRow
<1>13. BagFits(u, {})
  <2>1. u.order[o].runner = order[o].runner /\ u.order[o].status \notin InRunnerHands
    BY <1>4, <1>9 DEF InRunnerHands
  <2>2. o \in altered \cup {} \/ units = QuantitiesOf(order[o].lines)
    BY <1>2, <1>3
  <2>3. Sound(u) /\ order[o].status \in InRunnerHands
    BY <1>2, <1>9
  <2>4. BagTaken(u, o, units)
    BY <1>10 DEF BagTaken
  <2> QED
    BY <1>12, <2>1, <2>2, <2>3, <2>4, BagsEmptied
<1> QED
  BY <1>1, <1>9, <1>11, <1>13, OneOrder

-----------------------------------------------------------------------------
(* Lines that leave an order *)

LEMMA EditInWarehouseGood ==
  ASSUME GoodsIInv, NEW o \in Orders, NEW out \in SUBSET Variants, NEW added \in Inputs,
         EditInWarehouse(o, out, added)
  PROVE  GoodStep
<1>a. PICK lines : lines = Join(Without(order[o].lines, out), added)
  OBVIOUS
<1>b. PICK t : t = NewVersion(Now, o, lines)
  OBVIOUS
<1>c. PICK again : again = IF order[o].status = "READY_FOR_RUNNER" THEN SetStatus(t, o, "PACKING") ELSE t
  OBVIOUS
<1>d. PICK u : u = IF lines = NoLines THEN CancelEmptied(t, o) ELSE ReserveAll(again, o, "WAREHOUSE")
  OBVIOUS
<1>e. PICK listed : listed = WithLines(order[o], lines)
  OBVIOUS
<1>1. /\ CommitAltering(u, {}) /\ order[o].type = "SO" /\ order[o].status \in InWarehouse
      /\ draft[o] = None
  BY <1>a, <1>b, <1>c, <1>d DEF EditInWarehouse, Editable, Commit, NoOpenSale
<1>2. lines \in LineSets
  <2>1. added \in LineSets /\ Without(order[o].lines, out) \in LineSets
    BY InputsAreLines, RowFacts, PartIsLines
  <2> QED
    BY <1>a, <2>1, JoinIsLines
<1>3. /\ listed \in RowSet /\ SameBut4(listed, order[o]) /\ listed.status = order[o].status
      /\ listed.lines = lines /\ listed.runner = order[o].runner /\ listed.left = order[o].left
  BY <1>2, <1>e, RowFacts, LinesFields
<1>4. Leaves(t, Now, o, listed, held[o])
  BY <1>2, <1>b, <1>e, NowIs, NewVersionLeaves DEF GoodsIInv
<1>5. Sound(t) /\ t.order[o] = listed /\ t.held[o] = held[o]
  BY <1>4 DEF Leaves
<1>6. PICK row, h :
        /\ Leaves(u, Now, o, row, h) /\ SameBut4(row, order[o]) /\ row.lines = lines
        /\ row.runner = order[o].runner /\ row.left = order[o].left
        /\ \/ row.status = "CANCELLED" /\ lines = NoLines /\ h = NothingHeld
           \/ row.status \in {"NEW", "PACKING"} /\ h = HoldRow("WAREHOUSE", QuantitiesOf(lines))
  <2>1. CASE lines = NoLines
    <3>a. PICK row : row = WithStatus(listed, "CANCELLED")
      OBVIOUS
    <3>1. Leaves(u, t, o, row, NothingHeld)
      BY <1>5, <1>d, <2>1, <3>a, CancelEmptiedLeaves
    <3>2. Leaves(u, Now, o, row, NothingHeld)
      BY <1>4, <3>1, LeavesAgain
    <3>3. /\ SameBut4(row, listed) /\ row.status = "CANCELLED" /\ row.lines = lines
          /\ row.runner = listed.runner /\ row.left = listed.left
      BY <1>3, <3>a, StatusFields DEF Statuses, FinalStatuses
    <3> QED
      BY <1>3, <2>1, <3>2, <3>3 DEF SameBut4
  <2>2. CASE lines # NoLines
    <3>1. PICK row :
            /\ Leaves(again, t, o, row, held[o]) /\ SameBut4(row, listed) /\ row.lines = lines
            /\ row.runner = listed.runner /\ row.left = listed.left
            /\ row.status \in {"NEW", "PACKING"}
      <4>1. CASE order[o].status = "READY_FOR_RUNNER"
        <5>a. PICK row : row = WithStatus(listed, "PACKING")
          OBVIOUS
        <5>1. Leaves(again, t, o, row, held[o])
          BY <1>5, <1>c, <4>1, <5>a, SetStatusLeaves DEF Statuses, InWarehouse
        <5>2. /\ SameBut4(row, listed) /\ row.status = "PACKING" /\ row.lines = lines
              /\ row.runner = listed.runner /\ row.left = listed.left
          BY <1>3, <5>a, StatusFields DEF Statuses, InWarehouse
        <5> QED
          BY <5>1, <5>2
      <4>2. CASE order[o].status # "READY_FOR_RUNNER"
        <5>1. again = t /\ listed.status \in {"NEW", "PACKING"}
          BY <1>1, <1>3, <1>c, <4>2 DEF InWarehouse
        <5> QED
          BY <1>3, <1>5, <5>1 DEF Leaves, SameBut4
      <4> QED
        BY <4>1, <4>2
    <3>2. Sound(again) /\ again.order[o] = row
      BY <3>1 DEF Leaves
    <3>3. Leaves(u, again, o, row, HoldRow("WAREHOUSE", QuantitiesOf(lines)))
      BY <1>d, <2>2, <3>1, <3>2, PlaceNames, ReserveAllLeaves
    <3>4. Leaves(u, Now, o, row, HoldRow("WAREHOUSE", QuantitiesOf(lines)))
      BY <1>4, <3>1, <3>3, LeavesAgain
    <3> QED
      BY <1>3, <3>1, <3>4 DEF SameBut4
  <2> QED
    BY <2>1, <2>2
<1>7. u.order[o] = row /\ u.held[o] = h /\ u.draft[o] = draft[o]
  BY <1>6, NowIs DEF Leaves
<1>8. RowFits(u, {}, o)
  BY <1>1, <1>6, <1>7, RowFacts
     DEF RowFits, RowOK, RowKept, HoldsRight, HoldingOf, Bringing, SameBut4, InWarehouse,
         InRunnerHands, InStore, FinalStatuses, BeforeArrival, EmptiedRow
<1> QED
  BY <1>1, <1>6, <1>8, OneLeaves DEF InRunnerHands, InWarehouse

\* An order that a step takes out of a bag, in whole or in part.
LEMMA OneLeavesBag ==
  ASSUME GoodsIInv, NEW o \in Orders, NEW u, NEW changed \in SUBSET {o}, CommitAltering(u, changed),
         NEW row, NEW h, NEW units \in Units, LeavesBag(u, Now, o, row, h, units),
         RowFits(u, changed, o), row.runner = order[o].runner,
         \/ units = Zero /\ order[o].status \notin InRunnerHands /\ row.status \notin InRunnerHands
         \/ /\ order[o].status \in InRunnerHands
            /\ \/ o \in altered \cup changed
               \/ row.status \notin InRunnerHands /\ units = QuantitiesOf(order[o].lines)
  PROVE  GoodStep
<1>1. /\ Sound(u) /\ u.order[o] = row /\ \A x \in Orders \ {o} : SameRow(u, x)
      /\ \A r \in Runners, v \in Variants :
           u.onHand[r][v] = onHand[r][v] - (IF order[o].runner = r THEN units[v] ELSE 0)
  BY NowIs DEF LeavesBag, SameRow
<1>2. Uncarried(u, o)
  BY <1>1 DEF Uncarried, SameRow
<1>3. BagFits(u, changed)
  <2>1. CASE units = Zero /\ order[o].status \notin InRunnerHands /\ row.status \notin InRunnerHands
    <3>1. ASSUME NEW r \in Runners PROVE u.onHand[r] = onHand[r]
      <4>1. onHand[r] \in [Variants -> Int] /\ u.onHand[r] \in [Variants -> Int]
        <5>1. /\ r \in AllPlaces /\ onHand \in [AllPlaces -> [Variants -> Int]]
              /\ u.onHand \in [AllPlaces -> [Variants -> Int]]
          BY <1>1, <3>1, PlaceNames, NowIs, StateFields DEF GoodsIInv, Sound
        <5> QED
          BY <5>1
      <4>2. \A v \in Variants : u.onHand[r][v] = onHand[r][v]
        BY <1>1, <2>1, <3>1, <4>1, ZeroUnits
      <4> QED
        BY <4>1, <4>2
    <3> QED
      BY <1>1, <1>2, <2>1, <3>1, BagsStay
  <2>2. CASE /\ order[o].status \in InRunnerHands
             /\ \/ o \in altered \cup changed
                \/ row.status \notin InRunnerHands /\ units = QuantitiesOf(order[o].lines)
    <3>1. BagTaken(u, o, units)
      BY <1>1 DEF BagTaken
    <3> QED
      BY <1>1, <1>2, <2>2, <3>1, BagsEmptied
  <2> QED
    BY <2>1, <2>2
<1> QED
  BY <1>1, <1>3, OneOrder

LEMMA SetDamagedAsideLeaves ==
  ASSUME GoodsIInv, NEW o \in Orders, order[o].status \in InRunnerHands => order[o].runner \in Runners,
         NEW wanted \in Units
  PROVE  \E row \in RowSet, units \in Units :
            /\ LeavesBag(SetDamagedAside(o, wanted), Now, o, row, held[o], units)
            /\ Arrives(row, order[o], order[o].status)
            /\ order[o].status \notin InRunnerHands => units = Zero /\ row = order[o]
<1>a. PICK to : to = Destination(o)
  OBVIOUS
<1>b. PICK there : there = IF order[o].status \in InRunnerHands
                           THEN FromRunner(Now, o, to, wanted) ELSE Now
  OBVIOUS
<1>1. /\ to \in Places /\ to \in AllPlaces \ Runners /\ order[o] \in RowSet /\ Sound(Now)
      /\ Now.order = order /\ Now.held = held
  BY <1>a, PlaceNames, RowFacts, NowIs DEF Destination, GoodsIInv
<1>2. Leaves(Now, Now, o, order[o], held[o])
  BY <1>1 DEF Leaves
<1>3. LeavesBag(Now, Now, o, order[o], held[o], Zero)
  BY <1>1, <1>2, BagUntouched
<1>4. PICK row \in RowSet, units \in Units :
        /\ LeavesBag(there, Now, o, row, held[o], units)
        /\ Arrives(row, order[o], order[o].status)
        /\ order[o].status \notin InRunnerHands => units = Zero /\ row = order[o]
  <2>1. CASE order[o].status \in InRunnerHands
    <3>1. there = FromRunner(Now, o, to, wanted) /\ Now.order[o].runner \in Runners
      BY <1>1, <1>b, <2>1
    <3>2. PICK left \in BOOLEAN :
            LeavesBag(there, Now, o, WithLeft(order[o], left), held[o], wanted)
      BY <1>1, <3>1, FromRunnerLeaves
    <3>3. WithLeft(order[o], left) \in RowSet /\ Arrives(WithLeft(order[o], left), order[o], order[o].status)
      BY <1>1, LeftFields DEF Arrives
    <3> QED
      BY <2>1, <3>2, <3>3
  <2>2. CASE order[o].status \notin InRunnerHands
    <3>1. there = Now /\ Arrives(order[o], order[o], order[o].status)
      BY <1>b, <2>2 DEF Arrives, SameBut4
    <3> QED
      BY <1>1, <1>3, <3>1, ZeroUnits
  <2> QED
    BY <2>1, <2>2
<1>5. SetDamagedAside(o, wanted) = IF PickedUp(o) THEN SetAside(there, to, wanted) ELSE Now
  BY <1>a, <1>b DEF SetDamagedAside, SetAside
<1>6. CASE PickedUp(o)
  <2>1. Sound(there) /\ there.order[o] = row /\ there.held[o] = held[o]
    BY <1>4 DEF LeavesBag
  <2>2. Leaves(SetAside(there, to, wanted), there, o, row, held[o])
    BY <1>1, <2>1, SetAsideLeaves
  <2>3. LeavesBag(SetAside(there, to, wanted), Now, o, row, held[o], units)
    BY <1>4, <2>2, LeavesThenBag
  <2> QED
    BY <1>4, <1>5, <1>6, <2>3
<1>7. CASE ~PickedUp(o)
  <2>1. SetDamagedAside(o, wanted) = Now /\ Arrives(order[o], order[o], order[o].status)
    BY <1>5, <1>7 DEF Arrives, SameBut4
  <2> QED
    BY <1>1, <1>3, <2>1, ZeroUnits
<1> QED
  BY <1>6, <1>7

\* What is left of an order, and where it is held.
LEMMA DropLinesLeaves ==
  ASSUME NEW t, Sound(t), NEW o \in Orders, order[o].lines \in LineSets, order[o].source \in Places,
         t.order[o].status = order[o].status, NEW out
  PROVE  \E row \in RowSet, h \in HeldRow :
            /\ Leaves(DropLines(t, o, out), t, o, row, h)
            /\ SameBut4(row, t.order[o]) /\ row.lines = Without(order[o].lines, out)
            /\ row.runner = t.order[o].runner /\ row.left = t.order[o].left
            /\ \/ row.status = "CANCELLED" /\ row.lines = NoLines /\ h = NothingHeld
               \/ row.status = order[o].status /\ row.status \in InRunnerHands
               \/ /\ row.status = order[o].status /\ row.status \notin InRunnerHands
                  /\ h = HoldRow(IF PickedUp(o) THEN Destination(o) ELSE order[o].source,
                                 QuantitiesOf(row.lines))
<1>a. PICK kept : kept = Without(order[o].lines, out)
  OBVIOUS
<1>b. PICK d : d = NewVersion(t, o, kept)
  OBVIOUS
<1>c. PICK place : place = IF PickedUp(o) THEN Destination(o) ELSE order[o].source
  OBVIOUS
<1>d. PICK u : u = DropLines(t, o, out)
  OBVIOUS
<1>e. PICK listed : listed = WithLines(t.order[o], kept)
  OBVIOUS
<1>1. kept \in LineSets /\ place \in Places
  BY <1>a, <1>c, PartIsLines, PlaceNames DEF Destination
<1>2. u = CASE kept = NoLines -> CancelEmptied(d, o)
            [] kept # NoLines /\ order[o].status \in InRunnerHands -> d
            [] OTHER -> ReserveAll(d, o, place)
  BY <1>a, <1>b, <1>c, <1>d DEF DropLines
<1>3. /\ listed \in RowSet /\ SameBut4(listed, t.order[o]) /\ listed.status = order[o].status
      /\ listed.lines = kept /\ listed.runner = t.order[o].runner /\ listed.left = t.order[o].left
  BY <1>1, <1>e, SoundRows, LinesFields
<1>4. Leaves(d, t, o, listed, t.held[o])
  BY <1>1, <1>b, <1>e, NewVersionLeaves
<1>5. Sound(d) /\ d.order[o] = listed /\ t.held[o] \in HeldRow
  BY <1>4, SoundRows DEF Leaves
<1>6. CASE kept = NoLines
  <2>a. PICK row : row = WithStatus(listed, "CANCELLED")
    OBVIOUS
  <2>1. /\ SameBut4(row, listed) /\ row.status = "CANCELLED" /\ row.lines = kept
        /\ row.runner = listed.runner /\ row.left = listed.left /\ row \in RowSet
    BY <1>3, <2>a, StatusFields DEF Statuses, FinalStatuses
  <2>2. u = CancelEmptied(d, o)
    BY <1>2, <1>6
  <2>3. Leaves(u, d, o, row, NothingHeld)
    BY <1>5, <2>2, <2>a, CancelEmptiedLeaves
  <2>4. Leaves(u, t, o, row, NothingHeld)
    BY <1>4, <2>3, LeavesAgain
  <2> QED
    BY <1>3, <1>6, <1>a, <1>d, <2>1, <2>4, NothingHeldRow DEF SameBut4
<1>7. CASE kept # NoLines /\ order[o].status \in InRunnerHands
  <2>1. u = d
    BY <1>2, <1>7
  <2> QED
    BY <1>3, <1>4, <1>5, <1>7, <1>a, <1>d, <2>1
<1>8. CASE kept # NoLines /\ order[o].status \notin InRunnerHands
  <2>a. PICK h : h = HoldRow(place, QuantitiesOf(kept))
    OBVIOUS
  <2>1. u = ReserveAll(d, o, place)
    BY <1>2, <1>8
  <2>2. Leaves(u, d, o, listed, h)
    BY <1>1, <1>3, <1>5, <2>1, <2>a, ReserveAllLeaves
  <2>3. Leaves(u, t, o, listed, h)
    BY <1>4, <2>2, LeavesAgain
  <2>4. h \in HeldRow
    BY <1>1, <2>a, LinesAreLines, NothingHeldRow
  <2> QED
    BY <1>3, <1>8, <1>a, <1>c, <1>d, <2>3, <2>4, <2>a
<1> QED
  BY <1>6, <1>7, <1>8

LEMMA ReportIncidentGood ==
  ASSUME GoodsIInv, NEW o \in Orders, NEW out \in SUBSET Variants, NEW damaged \in BOOLEAN,
         ReportIncident(o, out, damaged)
  PROVE  GoodStep
<1>a. PICK wanted : wanted = QuantitiesOf(Only(order[o].lines, out))
  OBVIOUS
<1>b. PICK t : t = IF damaged THEN SetDamagedAside(o, wanted) ELSE Now
  OBVIOUS
<1>c. PICK u : u = DropLines(t, o, out)
  OBVIOUS
<1>d. PICK changed : changed = {o} \cap {x \in Orders : order[x].status \in InRunnerHands \/ ~NoOpenSale(x)}
  OBVIOUS
<1>1. /\ CommitAltering(u, changed) /\ Live(o) /\ changed \in SUBSET {o}
      /\ (o \in changed <=> order[o].status \in InRunnerHands \/ draft[o] # None)
  BY <1>a, <1>b, <1>c, <1>d DEF ReportIncident, NoOpenSale
<1>2. /\ order[o].type \in {"SO", "RE"} /\ order[o].status \notin FinalStatuses
      /\ wanted \in Units /\ (order[o].status \in InRunnerHands => order[o].runner \in Runners)
  <2>1. Only(order[o].lines, out) \in LineSets
    BY RowFacts, PartIsLines
  <2>2. wanted \in Units
    BY <1>a, <2>1, LinesAreLines
  <2> QED
    BY <1>1, <2>2, RowFacts DEF Live, RowOK
<1>3. PICK aired \in RowSet, units \in Units :
        /\ LeavesBag(t, Now, o, aired, held[o], units)
        /\ Arrives(aired, order[o], order[o].status)
        /\ order[o].status \notin InRunnerHands => units = Zero /\ aired = order[o]
  <2>1. CASE damaged
    BY <1>2, <1>b, <2>1, SetDamagedAsideLeaves
  <2>2. CASE ~damaged
    <3>1. t = Now /\ Leaves(Now, Now, o, order[o], held[o]) /\ Sound(Now) /\ order[o] \in RowSet
      BY <1>b, <2>2, NowIs, RowFacts DEF Leaves, GoodsIInv
    <3>2. LeavesBag(t, Now, o, order[o], held[o], Zero)
      BY <3>1, BagUntouched
    <3> QED
      BY <3>1, <3>2, ZeroUnits DEF Arrives, SameBut4
  <2> QED
    BY <2>1, <2>2
<1>4. Sound(t) /\ t.order[o] = aired /\ aired.status = order[o].status
  BY <1>3 DEF LeavesBag, Arrives
<1>5. PICK row \in RowSet, h \in HeldRow :
        /\ Leaves(u, t, o, row, h)
        /\ SameBut4(row, aired) /\ row.lines = Without(order[o].lines, out)
        /\ row.runner = aired.runner /\ row.left = aired.left
        /\ \/ row.status = "CANCELLED" /\ row.lines = NoLines /\ h = NothingHeld
           \/ row.status = order[o].status /\ row.status \in InRunnerHands
           \/ /\ row.status = order[o].status /\ row.status \notin InRunnerHands
              /\ h = HoldRow(IF PickedUp(o) THEN Destination(o) ELSE order[o].source,
                             QuantitiesOf(row.lines))
  BY <1>4, <1>c, RowFacts, DropLinesLeaves
<1>6. LeavesBag(u, Now, o, row, h, units)
  BY <1>3, <1>5, LeavesThenBag
<1>7. /\ SameBut4(row, order[o]) /\ row.runner = order[o].runner
      /\ (order[o].status \notin InRunnerHands => row.left = order[o].left)
      /\ u.order[o] = row /\ u.held[o] = h /\ u.draft[o] = draft[o]
  BY <1>3, <1>5, <1>6, NowIs DEF Arrives, SameBut4, LeavesBag
<1>8. RowOK(o, row)
  BY <1>2, <1>5, <1>7, RowFacts
     DEF RowOK, SameBut4, InWarehouse, InRunnerHands, InStore, FinalStatuses
<1>9. RowKept(order[o], row)
  BY <1>2, <1>7 DEF RowKept, SameBut4
<1>10. ASSUME o \notin altered \cup changed PROVE HoldsRight(row, h, draft[o])
  <2>1. /\ order[o].status \notin InRunnerHands /\ draft[o] = None /\ row.left = order[o].left
        /\ HoldsRight(order[o], held[o], draft[o]) /\ RowOK(o, order[o])
    BY <1>1, <1>7, <1>10, RowFacts
  <2>2. CASE row.status = "CANCELLED" /\ row.lines = NoLines /\ h = NothingHeld
    BY <2>1, <2>2 DEF HoldsRight, HoldingOf, InWarehouse, InStore, InRunnerHands, BeforeArrival
  <2>3. CASE /\ row.status = order[o].status
             /\ h = HoldRow(IF PickedUp(o) THEN Destination(o) ELSE order[o].source,
                             QuantitiesOf(row.lines))
    BY <1>2, <2>1, <2>3
       DEF HoldsRight, HoldingOf, RowOK, PickedUp, Destination, InWarehouse, InStore, InRunnerHands,
           FinalStatuses, BeforeArrival
  <2> QED
    BY <1>5, <2>1, <2>2, <2>3
<1>11. RowFits(u, changed, o)
  BY <1>1, <1>2, <1>5, <1>7, <1>8, <1>9, <1>10
     DEF RowFits, Bringing, SameBut4, EmptiedRow, InWarehouse, InRunnerHands
<1>12. \/ units = Zero /\ order[o].status \notin InRunnerHands /\ row.status \notin InRunnerHands
       \/ order[o].status \in InRunnerHands /\ o \in altered \cup changed
  BY <1>1, <1>3, <1>5 DEF InRunnerHands
<1> QED
  BY <1>1, <1>6, <1>7, <1>11, <1>12, OneLeavesBag

-----------------------------------------------------------------------------
(* Sub-orders and their parents *)

\* Several orders are written.
LEMMA SeveralOrders ==
  ASSUME GoodsIInv, NEW S \in SUBSET Orders, NEW u, NEW changed \in SUBSET S,
         CommitAltering(u, changed), Sound(u), BagFits(u, changed),
         \A x \in S : RowFits(u, changed, x), \A x \in Orders \ S : SameRow(u, x)
  PROVE  GoodStep
<1>1. \A x \in Orders : RowFits(u, changed, x)
  <2> TAKE x \in Orders
  <2>1. CASE x \in S
    BY <2>1
  <2>2. CASE x \notin S
    BY <2>2, SameStays, StaysFits
  <2> QED
    BY <2>1, <2>2
<1>2. Fits(u, changed)
  BY <1>1 DEF Fits
<1> QED
  BY <1>2, Committed DEF GoodStep

\* The order a takes lines and holds them in the store; b ends and holds nothing.
Joins(u, t, a, b) ==
    /\ Sound(u) /\ (u.ok => t.ok) /\ u.onHand = t.onHand /\ u.draft = t.draft
    /\ \E lines \in LineSets : /\ u.order[a] = WithLines(t.order[a], lines)
                               /\ u.held[a] = HoldRow("STORE", QuantitiesOf(lines))
    /\ u.order[b] = WithStatus(t.order[b], "CLOSED_BY_CHANGE") /\ u.held[b] = NothingHeld
    /\ \A x \in Orders \ {a, b} : u.order[x] = t.order[x] /\ u.held[x] = t.held[x]

JoinInto(t, a, b) ==
    LET joined == NewVersion(Release(t, b), a, Join(LinesOf(t, a), LinesOf(t, b)))
    IN  SetStatus(ReserveAll(joined, a, "STORE"), b, "CLOSED_BY_CHANGE")

LEMMA JoinIntoDoes ==
  ASSUME NEW t, Sound(t), NEW a \in Orders, NEW b \in Orders, a # b
  PROVE  Joins(JoinInto(t, a, b), t, a, b)
<1>a. PICK lines : lines = Join(LinesOf(t, a), LinesOf(t, b))
  OBVIOUS
<1>b. PICK r : r = Release(t, b)
  OBVIOUS
<1>c. PICK n : n = NewVersion(r, a, lines)
  OBVIOUS
<1>d. PICK k : k = ReserveAll(n, a, "STORE")
  OBVIOUS
<1>e. PICK u : u = SetStatus(k, b, "CLOSED_BY_CHANGE")
  OBVIOUS
<1>f. PICK listed : listed = WithLines(t.order[a], lines)
  OBVIOUS
<1>1. lines \in LineSets
  BY <1>a, SoundRows, JoinIsLines DEF LinesOf
<1>2. listed \in RowSet /\ listed.lines = lines
  BY <1>1, <1>f, SoundRows, LinesFields
<1>3. Leaves(r, t, b, t.order[b], NothingHeld)
  BY <1>b, ReleaseLeaves
<1>4. Leaves(n, r, a, listed, r.held[a])
  <2>1. Sound(r) /\ r.order[a] = t.order[a]
    BY <1>3 DEF Leaves
  <2> QED
    BY <1>1, <1>c, <1>f, <2>1, NewVersionLeaves
<1>5. Leaves(k, n, a, listed, HoldRow("STORE", QuantitiesOf(lines)))
  <2>1. Sound(n) /\ n.order[a] = listed
    BY <1>4 DEF Leaves
  <2> QED
    BY <1>2, <1>d, <2>1, PlaceNames, ReserveAllLeaves
<1>6. Leaves(u, k, b, WithStatus(t.order[b], "CLOSED_BY_CHANGE"), NothingHeld)
  <2>1. Sound(k) /\ k.order[b] = t.order[b] /\ k.held[b] = NothingHeld
    BY <1>3, <1>4, <1>5 DEF Leaves
  <2> QED
    BY <1>e, <2>1, SetStatusLeaves DEF Statuses, FinalStatuses
<1>7. Joins(u, t, a, b)
  BY <1>1, <1>3, <1>4, <1>5, <1>6, <1>f DEF Leaves, Joins
<1> QED
  BY <1>7, <1>a, <1>b, <1>c, <1>d, <1>e DEF JoinInto

LEMMA AbsorbParentDoes ==
  ASSUME NEW t, Sound(t), NEW sub \in Orders, t.order[sub].parent # sub
  PROVE  \/ /\ AbsorbParent(t, sub) = t
            /\ \A p \in Orders : t.order[sub].parent = p /\ ~t.order[sub].sibling =>
                                    t.order[p].status # "ITEM_CHANGE_REQUESTED"
         \/ \E p \in Orders :
               /\ t.order[sub].parent = p /\ t.order[sub].sibling
               /\ t.order[p].status = "RECEIVED_BY_SELLER"
               /\ Joins(AbsorbParent(t, sub), t, p, sub)
         \/ \E p \in Orders :
               /\ t.order[sub].parent = p /\ ~t.order[sub].sibling
               /\ t.order[p].status = "ITEM_CHANGE_REQUESTED"
               /\ Joins(AbsorbParent(t, sub), t, sub, p)
<1>a. PICK p : p = t.order[sub].parent
  OBVIOUS
<1>b. PICK status : status = IF p = None THEN "NONE" ELSE t.order[p].status
  OBVIOUS
<1>1. p \in Orders \cup {None} /\ None \notin Orders
  BY <1>a, SoundRows, RowFields, PlaceNames
<1>2. AbsorbParent(t, sub) =
        CASE t.order[sub].sibling /\ status = "RECEIVED_BY_SELLER" -> JoinInto(t, p, sub)
          [] ~t.order[sub].sibling /\ status = "ITEM_CHANGE_REQUESTED" -> JoinInto(t, sub, p)
          [] OTHER -> t
  BY <1>a, <1>b DEF AbsorbParent, AbsorbIntoParent, TakeFromParent, JoinInto
<1>3. CASE t.order[sub].sibling /\ status = "RECEIVED_BY_SELLER"
  <2>1. AbsorbParent(t, sub) = JoinInto(t, p, sub) /\ p \in Orders /\ status = t.order[p].status
    BY <1>1, <1>2, <1>3, <1>b
  <2>2. Joins(AbsorbParent(t, sub), t, p, sub)
    BY <1>a, <2>1, JoinIntoDoes
  <2> QED
    BY <1>3, <1>a, <2>1, <2>2
<1>4. CASE ~t.order[sub].sibling /\ status = "ITEM_CHANGE_REQUESTED"
  <2>1. AbsorbParent(t, sub) = JoinInto(t, sub, p) /\ p \in Orders /\ status = t.order[p].status
    BY <1>1, <1>2, <1>4, <1>b
  <2>2. Joins(AbsorbParent(t, sub), t, sub, p)
    BY <1>a, <2>1, JoinIntoDoes
  <2> QED
    BY <1>4, <1>a, <2>1, <2>2
<1>5. CASE /\ ~(t.order[sub].sibling /\ status = "RECEIVED_BY_SELLER")
           /\ ~(~t.order[sub].sibling /\ status = "ITEM_CHANGE_REQUESTED")
  <2>1. AbsorbParent(t, sub) = t
    BY <1>2, <1>5
  <2>2. ASSUME NEW q \in Orders, t.order[sub].parent = q, ~t.order[sub].sibling
        PROVE  t.order[q].status # "ITEM_CHANGE_REQUESTED"
    BY <1>1, <1>5, <1>a, <1>b, <2>2
  <2> QED
    BY <2>1, <2>2
<1> QED
  BY <1>3, <1>4, <1>5

LEMMA CancelGood ==
  ASSUME GoodsIInv, NEW o \in Orders, Cancel(o) PROVE GoodStep
<1>a. PICK r : r = Release(Now, o)
  OBVIOUS
<1>b. PICK k : k = SetStatus(r, o, "CANCELLED")
  OBVIOUS
<1>c. PICK u : u = ReleaseParent(k, o)
  OBVIOUS
<1>d. PICK row : row = WithStatus(order[o], "CANCELLED")
  OBVIOUS
<1>e. PICK p : p = order[o].parent
  OBVIOUS
<1>1. CommitAltering(u, {}) /\ order[o].type = "SO" /\ order[o].status \in InWarehouse
  BY <1>a, <1>b, <1>c DEF Cancel, Commit, At
<1>2. /\ p \in Orders \cup {None} /\ p # o /\ None \notin Orders
      /\ (o \notin altered => draft[o] = None)
  BY <1>1, <1>e, RowFacts, PlaceNames DEF RowOK, HoldsRight, InWarehouse
<1>3. /\ SameBut4(row, order[o]) /\ row.status = "CANCELLED" /\ row.lines = order[o].lines
      /\ row.runner = order[o].runner /\ row.left = order[o].left
  BY <1>d, RowFacts, StatusFields DEF Statuses, FinalStatuses
<1>4. Leaves(k, Now, o, row, NothingHeld)
  <2>1. Leaves(r, Now, o, order[o], NothingHeld)
    BY <1>a, NowIs, ReleaseLeaves DEF GoodsIInv
  <2>2. Sound(r) /\ r.order[o] = order[o] /\ r.held[o] = NothingHeld
    BY <2>1 DEF Leaves
  <2>3. Leaves(k, r, o, row, NothingHeld)
    BY <1>b, <1>d, <2>2, SetStatusLeaves DEF Statuses, FinalStatuses
  <2> QED
    BY <2>1, <2>3, LeavesAgain
<1>5. Sound(k) /\ k.order[o] = row /\ \A x \in Orders \ {o} : k.order[x] = order[x]
  BY <1>4, NowIs DEF Leaves
<1>6. u = IF p = None \/ k.order[p].status # "ITEM_CHANGE_REQUESTED" THEN k
          ELSE SetStatus(k, p, IF LinesOf(k, p) = NoLines THEN "RETURNED" ELSE "RECEIVED_BY_SELLER")
  <2>1. k.order[o].parent = p
    BY <1>3, <1>5, <1>e DEF SameBut4
  <2> QED
    BY <1>c, <2>1 DEF ReleaseParent
<1>7. CASE p = None \/ order[p].status # "ITEM_CHANGE_REQUESTED"
  <2>1. u = k
    BY <1>2, <1>5, <1>6, <1>7
  <2>2. u.order[o] = row /\ u.held[o] = NothingHeld /\ u.draft[o] = draft[o]
    BY <1>4, <2>1, NowIs DEF Leaves
  <2>3. \A q \in Orders : Bringing(order[o], q) => u.order[q].status # "ITEM_CHANGE_REQUESTED"
    <3>1. \A q \in Orders : Bringing(order[o], q) => q = p
      BY <1>e DEF Bringing
    <3> QED
      BY <1>2, <1>5, <1>7, <2>1, <3>1
  <2>4. RowFits(u, {}, o)
    BY <1>1, <1>2, <1>3, <2>2, <2>3, RowFacts
       DEF RowFits, RowOK, RowKept, HoldsRight, HoldingOf, SameBut4, InWarehouse,
           InRunnerHands, InStore, FinalStatuses, BeforeArrival
  <2> QED
    BY <1>1, <1>3, <1>4, <2>1, <2>4, OneLeaves DEF InRunnerHands, InWarehouse
<1>8. CASE p \in Orders /\ order[p].status = "ITEM_CHANGE_REQUESTED"
  <2>a. PICK status : status = IF order[p].lines = NoLines THEN "RETURNED" ELSE "RECEIVED_BY_SELLER"
    OBVIOUS
  <2>b. PICK kin : kin = WithStatus(order[p], status)
    OBVIOUS
  <2>1. u = SetStatus(k, p, status)
    BY <1>2, <1>5, <1>6, <1>8, <2>a DEF LinesOf
  <2>2. Leaves(u, k, p, kin, held[p])
    <3>1. k.order[p] = order[p] /\ k.held[p] = held[p]
      BY <1>2, <1>4, <1>8, NowIs DEF Leaves
    <3> QED
      BY <1>5, <1>8, <2>1, <2>a, <2>b, <3>1, SetStatusLeaves DEF Statuses, FinalStatuses, InStore
  <2>3. /\ Sound(u) /\ u.onHand = onHand /\ u.draft = draft
        /\ u.order[o] = row /\ u.held[o] = NothingHeld /\ u.order[p] = kin /\ u.held[p] = held[p]
        /\ \A x \in Orders \ {o, p} : SameRow(u, x)
    BY <1>2, <1>4, <2>2, NowIs DEF Leaves, SameRow
  <2>4. /\ SameBut4(kin, order[p]) /\ kin.status = status /\ kin.lines = order[p].lines
        /\ kin.runner = order[p].runner /\ kin.left = order[p].left
    BY <1>8, <2>a, <2>b, RowFacts, StatusFields DEF Statuses, FinalStatuses, InStore
  <2>5. RowFits(u, {}, p)
    <3>1. RowOK(p, kin) /\ RowKept(order[p], kin)
      BY <1>8, <2>4, <2>a, RowFacts
         DEF RowOK, RowKept, SameBut4, InWarehouse, InRunnerHands, InStore, FinalStatuses
    <3>2. ASSUME p \notin altered PROVE HoldsRight(kin, held[p], draft[p])
      <4>1. draft[p] = None /\ held[p] = HoldRow("STORE", QuantitiesOf(order[p].lines))
        BY <1>8, <3>2, RowFacts DEF HoldsRight, HoldingOf, InWarehouse, InStore
      <4>2. status = "RETURNED" => held[p] = NothingHeld
        BY <2>a, <4>1, NoLinesMoveNothing DEF HoldRow
      <4> QED
        BY <2>4, <2>a, <4>1, <4>2
           DEF HoldsRight, HoldingOf, InWarehouse, InStore, InRunnerHands, BeforeArrival
    <3> QED
      BY <1>8, <2>3, <2>4, <2>a, <3>1, <3>2 DEF RowFits, Bringing, InWarehouse
  <2>6. RowFits(u, {}, o)
    <3>1. \A q \in Orders : Bringing(order[o], q) => u.order[q].status # "ITEM_CHANGE_REQUESTED"
      BY <1>e, <2>3, <2>4, <2>a DEF Bringing
    <3> QED
      BY <1>1, <1>2, <1>3, <2>3, <3>1, RowFacts
         DEF RowFits, RowOK, RowKept, HoldsRight, HoldingOf, SameBut4, InWarehouse,
             InRunnerHands, InStore, FinalStatuses, BeforeArrival
  <2>7. Uncarried(u, o)
    BY <1>8, <2>3, <2>4, <2>a DEF Uncarried, SameRow, InRunnerHands
  <2>8. BagFits(u, {})
    BY <1>1, <1>3, <2>3, <2>7, BagsStay DEF InRunnerHands, InWarehouse
  <2>9. {o, p} \in SUBSET Orders /\ \A x \in {o, p} : RowFits(u, {}, x)
    BY <1>8, <2>5, <2>6
  <2> QED
    BY <1>1, <2>3, <2>8, <2>9, SeveralOrders
<1> QED
  BY <1>2, <1>7, <1>8

\* The order o is the seller's, and its parent joined it or took it in.
Mine(m, o, row, units) ==
    /\ Sound(m) /\ m.draft = draft /\ m.order[o] = row /\ row \in RowSet
    /\ SameBut4(row, order[o]) /\ row.runner = order[o].runner
    /\ row.status \in {"RECEIVED_BY_SELLER", "CLOSED_BY_CHANGE"}
    /\ row.status = "CLOSED_BY_CHANGE" => m.held[o] = NothingHeld
    /\ \A x \in Orders \ {o} :
         /\ RowStays(m, {}, x)
         /\ \/ SameRow(m, x)
            \/ order[x].status \in InStore /\ m.order[x].status \in InStore \cup FinalStatuses
    /\ \A r \in Runners, v \in Variants :
         m.onHand[r][v] = onHand[r][v] - (IF order[o].runner = r THEN units[v] ELSE 0)
    /\ \A p \in Orders : Bringing(order[o], p) => m.order[p].status # "ITEM_CHANGE_REQUESTED"

LEMMA MineDoes ==
  ASSUME GoodsIInv, NEW o \in Orders, order[o].type = "SO", NEW t, NEW first, NEW h, NEW units \in Units,
         LeavesBag(t, Now, o, first, h, units), first.status = "RECEIVED_BY_SELLER",
         SameBut4(first, order[o]), first.runner = order[o].runner
  PROVE  \E row : /\ Mine(AbsorbParent(t, o), o, row, units)
                  /\ h = HoldRow("STORE", QuantitiesOf(first.lines)) /\ row.status = "RECEIVED_BY_SELLER"
                        => AbsorbParent(t, o).held[o] = HoldRow("STORE", QuantitiesOf(row.lines))
<1>a. PICK m : m = AbsorbParent(t, o)
  OBVIOUS
<1>1. /\ Sound(t) /\ t.draft = draft /\ t.order[o] = first /\ first \in RowSet /\ t.held[o] = h
      /\ \A x \in Orders \ {o} : SameRow(t, x)
      /\ \A r \in Runners, v \in Variants :
           t.onHand[r][v] = onHand[r][v] - (IF order[o].runner = r THEN units[v] ELSE 0)
  BY NowIs DEF LeavesBag, SameRow
<1>2. /\ first.parent = order[o].parent /\ first.sibling = order[o].sibling
      /\ first.type = "SO" /\ order[o].parent # o
  BY RowFacts DEF SameBut4, RowOK
<1>3. \A w, x : x \in Orders /\ SameRow(w, x) => RowStays(w, {}, x)
  BY SameStays
<1>4. CASE /\ m = t
           /\ \A p \in Orders : t.order[o].parent = p /\ ~t.order[o].sibling =>
                                    t.order[p].status # "ITEM_CHANGE_REQUESTED"
  <2>1. \A p \in Orders : Bringing(order[o], p) => m.order[p].status # "ITEM_CHANGE_REQUESTED"
    BY <1>1, <1>2, <1>4 DEF Bringing
  <2>2. Mine(m, o, first, units)
    BY <1>1, <1>3, <1>4, <2>1 DEF Mine
  <2> QED
    BY <1>1, <1>4, <1>a, <2>2
<1>5. ASSUME NEW p \in Orders, t.order[o].parent = p, t.order[o].sibling,
             t.order[p].status = "RECEIVED_BY_SELLER", Joins(m, t, p, o)
      PROVE  \E row : Mine(m, o, row, units) /\ row.status # "RECEIVED_BY_SELLER"
  <2>a. PICK row : row = WithStatus(first, "CLOSED_BY_CHANGE")
    OBVIOUS
  <2>1. /\ row \in RowSet /\ SameBut4(row, order[o]) /\ row.status = "CLOSED_BY_CHANGE"
        /\ row.runner = order[o].runner
    BY <1>1, <2>a, StatusFields DEF Statuses, FinalStatuses, SameBut4
  <2>2. PICK lines \in LineSets :
          m.order[p] = WithLines(t.order[p], lines) /\ m.held[p] = HoldRow("STORE", QuantitiesOf(lines))
    BY <1>5 DEF Joins
  <2>3. p # o /\ SameRow(t, p)
    BY <1>1, <1>2, <1>5
  <2>4. /\ Sound(m) /\ m.draft = draft /\ m.onHand = t.onHand
        /\ m.order[o] = row /\ m.held[o] = NothingHeld
        /\ \A x \in Orders \ {o, p} : SameRow(m, x)
    BY <1>1, <1>5, <2>a DEF Joins, SameRow
  <2>5. /\ SameBut4(m.order[p], order[p]) /\ m.order[p].status = "RECEIVED_BY_SELLER"
        /\ m.order[p].lines = lines /\ m.order[p].runner = order[p].runner
        /\ order[p].status = "RECEIVED_BY_SELLER"
    BY <1>5, <2>2, <2>3, RowFacts, LinesFields DEF SameRow
  <2>6. RowStays(m, {}, p)
    BY <2>2, <2>4, <2>5, RowFacts
       DEF RowStays, RowOK, RowKept, HoldsRight, HoldingOf, SameBut4, Bringing, InWarehouse,
           InRunnerHands, InStore, FinalStatuses, BeforeArrival
  <2>7. \A q \in Orders : ~Bringing(order[o], q)
    BY <1>1, <1>2, <1>5 DEF Bringing
  <2>8. ASSUME NEW x \in Orders \ {o}
        PROVE  /\ RowStays(m, {}, x)
               /\ \/ SameRow(m, x)
                  \/ order[x].status \in InStore /\ m.order[x].status \in InStore \cup FinalStatuses
    <3>1. CASE x = p
      BY <2>5, <2>6, <3>1 DEF InStore
    <3>2. CASE x # p
      BY <1>3, <2>4, <2>8, <3>2
    <3> QED
      BY <3>1, <3>2
  <2>9. Mine(m, o, row, units)
    BY <1>1, <2>1, <2>4, <2>7, <2>8 DEF Mine
  <2> QED
    BY <2>1, <2>9
<1>6. ASSUME NEW p \in Orders, t.order[o].parent = p, ~t.order[o].sibling,
             t.order[p].status = "ITEM_CHANGE_REQUESTED", Joins(m, t, o, p)
      PROVE  \E row : Mine(m, o, row, units) /\ m.held[o] = HoldRow("STORE", QuantitiesOf(row.lines))
  <2>2. PICK lines \in LineSets :
          m.order[o] = WithLines(first, lines) /\ m.held[o] = HoldRow("STORE", QuantitiesOf(lines))
    BY <1>1, <1>6 DEF Joins
  <2>a. PICK row : row = WithLines(first, lines)
    OBVIOUS
  <2>1. /\ row \in RowSet /\ SameBut4(row, order[o]) /\ row.status = "RECEIVED_BY_SELLER"
        /\ row.runner = order[o].runner /\ row.lines = lines
    BY <1>1, <2>a, LinesFields DEF SameBut4
  <2>3. p # o /\ SameRow(t, p)
    BY <1>1, <1>2, <1>6
  <2>4. /\ Sound(m) /\ m.draft = draft /\ m.onHand = t.onHand
        /\ m.order[o] = row /\ m.held[p] = NothingHeld
        /\ m.order[p] = WithStatus(order[p], "CLOSED_BY_CHANGE")
        /\ \A x \in Orders \ {o, p} : SameRow(m, x)
    BY <1>1, <1>6, <2>2, <2>3, <2>a DEF Joins, SameRow
  <2>5. /\ SameBut4(m.order[p], order[p]) /\ m.order[p].status = "CLOSED_BY_CHANGE"
        /\ m.order[p].lines = order[p].lines /\ m.order[p].runner = order[p].runner
        /\ order[p].status = "ITEM_CHANGE_REQUESTED"
    BY <1>6, <2>3, <2>4, RowFacts, StatusFields DEF SameRow, Statuses, FinalStatuses
  <2>6. RowStays(m, {}, p)
    BY <2>4, <2>5, RowFacts
       DEF RowStays, RowOK, RowKept, HoldsRight, HoldingOf, SameBut4, Bringing, InWarehouse,
           InRunnerHands, InStore, FinalStatuses, BeforeArrival
  <2>7. \A q \in Orders : Bringing(order[o], q) => m.order[q].status # "ITEM_CHANGE_REQUESTED"
    BY <1>1, <1>2, <1>6, <2>5 DEF Bringing
  <2>8. ASSUME NEW x \in Orders \ {o}
        PROVE  /\ RowStays(m, {}, x)
               /\ \/ SameRow(m, x)
                  \/ order[x].status \in InStore /\ m.order[x].status \in InStore \cup FinalStatuses
    <3>1. CASE x = p
      BY <2>5, <2>6, <3>1 DEF InStore, FinalStatuses
    <3>2. CASE x # p
      BY <1>3, <2>4, <2>8, <3>2
    <3> QED
      BY <3>1, <3>2
  <2>9. Mine(m, o, row, units)
    BY <1>1, <2>1, <2>4, <2>7, <2>8 DEF Mine
  <2> QED
    BY <2>1, <2>2, <2>9
<1>7. Sound(t) /\ t.order[o].parent # o
  BY <1>1, <1>2
<1> QED
  BY <1>4, <1>5, <1>6, <1>7, <1>a, AbsorbParentDoes

LEMMA ReceivedLeaves ==
  ASSUME GoodsIInv, NEW o \in Orders, order[o].type = "SO", order[o].status = "DELIVERED_TO_STORE"
  PROVE  \E row \in RowSet, units \in Units :
            /\ LeavesBag(Received(o), Now, o, row,
                         HoldRow("STORE", QuantitiesOf(order[o].lines)), units)
            /\ Arrives(row, order[o], "RECEIVED_BY_SELLER")
            /\ o \notin altered => units = QuantitiesOf(order[o].lines)
<1>a. PICK k : k = HandOver(Now, o)
  OBVIOUS
<1>b. PICK h : h = HoldRow("STORE", QuantitiesOf(order[o].lines))
  OBVIOUS
<1>1. /\ order[o].runner \in Runners /\ (o \notin altered => ~order[o].left)
      /\ Sound(Now) /\ Now.order = order /\ Now.held = held
  BY RowFacts, NowIs DEF RowOK, HoldsRight, InRunnerHands, BeforeArrival, GoodsIInv
<1>2. PICK arrived \in RowSet, units \in Units :
        /\ LeavesBag(k, Now, o, arrived, h, units)
        /\ Arrives(arrived, order[o], order[o].status)
        /\ ~order[o].left => units = QuantitiesOf(order[o].lines)
  BY <1>1, <1>a, <1>b, HandOverLeaves
<1>c. PICK row : row = WithStatus(arrived, "RECEIVED_BY_SELLER")
  OBVIOUS
<1>3. Sound(k) /\ k.order[o] = arrived /\ k.held[o] = h
  BY <1>2 DEF LeavesBag
<1>4. Leaves(Received(o), k, o, row, h)
  BY <1>3, <1>a, <1>c, SetStatusLeaves DEF Received, Statuses, InStore
<1>5. LeavesBag(Received(o), Now, o, row, h, units)
  BY <1>2, <1>4, LeavesThenBag
<1>6. row \in RowSet /\ Arrives(row, order[o], "RECEIVED_BY_SELLER")
  BY <1>2, <1>c, StatusFields DEF Arrives, SameBut4, Statuses, InStore
<1> QED
  BY <1>1, <1>2, <1>5, <1>6, <1>b

\* What the seller's transaction ends in, but for the row of the order itself.
LEMMA MineGood ==
  ASSUME GoodsIInv, NEW o \in Orders, NEW m, NEW row, NEW units \in Units, Mine(m, o, row, units),
         NEW u, NEW changed \in SUBSET {o}, NEW S \in SUBSET (Unused \ {o}), CommitAltering(u, changed),
         Sound(u), u.onHand = m.onHand,
         \A x \in Orders \ (S \cup {o}) :
             u.order[x] = m.order[x] /\ u.held[x] = m.held[x] /\ u.draft[x] = m.draft[x],
         \A x \in S : RowFits(u, changed, x) /\ u.order[x].status \notin InRunnerHands,
         RowFits(u, changed, o), u.order[o].runner = order[o].runner,
         u.order[o].status \notin InRunnerHands,
         \/ order[o].status \notin InRunnerHands /\ units = Zero
         \/ /\ order[o].status \in InRunnerHands
            /\ o \in altered \/ units = QuantitiesOf(order[o].lines)
  PROVE  GoodStep
<1>1. ASSUME NEW x \in Orders \ {o}
      PROVE  /\ RowFits(u, changed, x)
             /\ \/ u.order[x] = order[x]
                \/ order[x].status \notin InRunnerHands /\ u.order[x].status \notin InRunnerHands
  <2>1. CASE x \in S
    BY <2>1, UnusedFacts
  <2>2. CASE x \notin S
    <3>1. /\ RowStays(m, {}, x)
          /\ \/ SameRow(m, x)
             \/ order[x].status \in InStore /\ m.order[x].status \in InStore \cup FinalStatuses
      BY <1>1 DEF Mine
    <3>2. u.order[x] = m.order[x] /\ u.held[x] = m.held[x] /\ u.draft[x] = m.draft[x] /\ x \notin changed
      BY <1>1, <2>2
    <3>3. RowStays(u, changed, x)
      BY <3>1, <3>2 DEF RowStays
    <3> QED
      BY <3>1, <3>2, <3>3, StaysFits DEF SameRow, InStore, InRunnerHands, FinalStatuses
  <2> QED
    BY <2>1, <2>2
<1>2. Uncarried(u, o)
  BY <1>1 DEF Uncarried
<1>3. \A r \in Runners, v \in Variants :
         u.onHand[r][v] = onHand[r][v] - (IF order[o].runner = r THEN units[v] ELSE 0)
  BY DEF Mine
<1>4a. BagTaken(u, o, units)
  BY <1>3 DEF BagTaken
<1>4. BagFits(u, changed)
  <2>1. CASE order[o].status \in InRunnerHands
    <3>1. \/ o \in altered \cup changed
          \/ u.order[o].status \notin InRunnerHands /\ units = QuantitiesOf(order[o].lines)
      BY <2>1
    <3> QED
      BY <1>2, <1>4a, <2>1, <3>1, BagsEmptied
  <2>2. CASE order[o].status \notin InRunnerHands
    <3>1. ASSUME NEW r \in Runners PROVE u.onHand[r] = onHand[r]
      <4>1. onHand[r] \in [Variants -> Int] /\ u.onHand[r] \in [Variants -> Int]
        <5>1. /\ r \in AllPlaces /\ onHand \in [AllPlaces -> [Variants -> Int]]
              /\ u.onHand \in [AllPlaces -> [Variants -> Int]]
          BY <3>1, PlaceNames, NowIs, StateFields DEF GoodsIInv, Sound
        <5> QED
          BY <5>1
      <4>2. \A v \in Variants : u.onHand[r][v] = onHand[r][v]
        BY <1>3, <2>2, <3>1, <4>1, ZeroUnits
      <4> QED
        BY <4>1, <4>2
    <3> QED
      BY <1>2, <2>2, <3>1, BagsStay
  <2> QED
    BY <2>1, <2>2
<1>5. Fits(u, changed)
  <2>1. \A x \in Orders : RowFits(u, changed, x)
    BY <1>1
  <2> QED
    BY <1>4, <2>1 DEF Fits
<1> QED
  BY <1>5, Committed DEF GoodStep

LEMMA ReceiveGood ==
  ASSUME GoodsIInv, NEW o \in Orders, Receive(o) PROVE GoodStep
<1>a. PICK t : t = Received(o)
  OBVIOUS
<1>b. PICK u : u = AbsorbParent(t, o)
  OBVIOUS
<1>1. /\ CommitAltering(u, {}) /\ order[o].type = "SO" /\ order[o].status = "DELIVERED_TO_STORE"
      /\ order[o].status \in InRunnerHands
  BY <1>a, <1>b DEF Receive, Commit, At, InRunnerHands
<1>2. PICK first \in RowSet, units \in Units :
        /\ LeavesBag(t, Now, o, first, HoldRow("STORE", QuantitiesOf(order[o].lines)), units)
        /\ Arrives(first, order[o], "RECEIVED_BY_SELLER")
        /\ o \notin altered => units = QuantitiesOf(order[o].lines)
  BY <1>1, <1>a, ReceivedLeaves
<1>3. /\ first.status = "RECEIVED_BY_SELLER" /\ SameBut4(first, order[o])
      /\ first.runner = order[o].runner /\ first.lines = order[o].lines
  BY <1>2 DEF Arrives
<1>4. PICK row :
        /\ Mine(u, o, row, units)
        /\ row.status = "RECEIVED_BY_SELLER" => u.held[o] = HoldRow("STORE", QuantitiesOf(row.lines))
  BY <1>1, <1>2, <1>3, <1>b, MineDoes
<1>5. /\ Sound(u) /\ u.order[o] = row /\ u.draft = draft /\ SameBut4(row, order[o])
      /\ row.status \in {"RECEIVED_BY_SELLER", "CLOSED_BY_CHANGE"}
      /\ (row.status = "CLOSED_BY_CHANGE" => u.held[o] = NothingHeld)
      /\ row.runner = order[o].runner
      /\ \A p \in Orders : Bringing(order[o], p) => u.order[p].status # "ITEM_CHANGE_REQUESTED"
  BY <1>4 DEF Mine
<1>6. RowFits(u, {}, o)
  BY <1>1, <1>4, <1>5, RowFacts
     DEF RowFits, RowOK, RowKept, HoldsRight, HoldingOf, SameBut4, InWarehouse,
         InRunnerHands, InStore, FinalStatuses, BeforeArrival
<1>7. u.order[o].runner = order[o].runner /\ u.order[o].status \notin InRunnerHands
  BY <1>5 DEF InRunnerHands
<1> QED
  BY <1>1, <1>2, <1>4, <1>5, <1>6, <1>7, MineGood

LEMMA ToPaymentGood ==
  ASSUME GoodsIInv, NEW o \in Orders, ToPayment(o) PROVE GoodStep
<1>a. PICK m : m = AbsorbParent(Now, o)
  OBVIOUS
<1>b. PICK u : u = IF m.order[o].status = "CLOSED_BY_CHANGE" THEN m
                   ELSE SetStatus(m, o, "PENDING_PAYMENT")
  OBVIOUS
<1>1. /\ CommitAltering(u, {}) /\ order[o].type = "SO" /\ order[o].status = "RECEIVED_BY_SELLER"
      /\ order[o].status \notin InRunnerHands
  BY <1>a, <1>b DEF ToPayment, Commit, At, InRunnerHands
<1>2. LeavesBag(Now, Now, o, order[o], held[o], Zero)
  <2>1. Sound(Now) /\ Leaves(Now, Now, o, order[o], held[o])
    BY NowIs, RowFacts DEF Leaves, GoodsIInv
  <2> QED
    BY <2>1, BagUntouched
<1>3. SameBut4(order[o], order[o]) /\ Zero \in Units
  BY ZeroUnits DEF SameBut4
<1>4. PICK row :
        /\ Mine(m, o, row, Zero)
        /\ held[o] = HoldRow("STORE", QuantitiesOf(order[o].lines)) /\ row.status = "RECEIVED_BY_SELLER"
             => m.held[o] = HoldRow("STORE", QuantitiesOf(row.lines))
  BY <1>1, <1>2, <1>3, <1>a, MineDoes
<1>5. /\ Sound(m) /\ m.order[o] = row /\ m.draft = draft /\ SameBut4(row, order[o])
      /\ row.status \in {"RECEIVED_BY_SELLER", "CLOSED_BY_CHANGE"} /\ row \in RowSet
      /\ (row.status = "CLOSED_BY_CHANGE" => m.held[o] = NothingHeld)
      /\ row.runner = order[o].runner
  BY <1>4 DEF Mine
<1>6. o \notin altered => draft[o] = None /\ held[o] = HoldRow("STORE", QuantitiesOf(order[o].lines))
  BY <1>1, RowFacts DEF HoldsRight, HoldingOf, InWarehouse, InStore
<1>7. PICK last :
        /\ Leaves(u, m, o, last, m.held[o]) /\ SameBut4(last, order[o])
        /\ last.lines = row.lines /\ last.runner = order[o].runner
        /\ \/ row.status = "CLOSED_BY_CHANGE" /\ last.status = "CLOSED_BY_CHANGE"
           \/ row.status = "RECEIVED_BY_SELLER" /\ last.status = "PENDING_PAYMENT"
  <2>1. CASE row.status = "CLOSED_BY_CHANGE"
    <3>1. u = m
      BY <1>5, <1>b, <2>1
    <3>2. Leaves(u, m, o, row, m.held[o])
      BY <1>5, <3>1 DEF Leaves
    <3> QED
      BY <1>5, <2>1, <3>2
  <2>2. CASE row.status = "RECEIVED_BY_SELLER"
    <3>a. PICK last : last = WithStatus(row, "PENDING_PAYMENT")
      OBVIOUS
    <3>1. u = SetStatus(m, o, "PENDING_PAYMENT")
      BY <1>5, <1>b, <2>2
    <3>2. Leaves(u, m, o, last, m.held[o])
      BY <1>5, <3>1, <3>a, SetStatusLeaves DEF Statuses, InStore
    <3>3. /\ SameBut4(last, row) /\ last.status = "PENDING_PAYMENT" /\ last.lines = row.lines
          /\ last.runner = row.runner
      BY <1>5, <3>a, StatusFields DEF Statuses, InStore
    <3> QED
      BY <1>5, <2>2, <3>2, <3>3 DEF SameBut4
  <2> QED
    BY <1>5, <2>1, <2>2
<1>8. /\ Sound(u) /\ u.order[o] = last /\ u.held[o] = m.held[o] /\ u.draft = m.draft
      /\ u.onHand = m.onHand
      /\ \A x \in Orders \ {o} : u.order[x] = m.order[x] /\ u.held[x] = m.held[x]
  BY <1>7 DEF Leaves
<1>9. RowFits(u, {}, o)
  BY <1>1, <1>4, <1>5, <1>6, <1>7, <1>8, RowFacts
     DEF RowFits, RowOK, RowKept, HoldsRight, HoldingOf, SameBut4, Bringing, InWarehouse,
         InRunnerHands, InStore, FinalStatuses, BeforeArrival
<1>10. u.order[o].runner = order[o].runner /\ u.order[o].status \notin InRunnerHands
  BY <1>7, <1>8 DEF InRunnerHands
<1> QED
  BY <1>1, <1>3, <1>4, <1>8, <1>9, <1>10, MineGood

\* An identity that is used for the first time.
LEMMA FreshFits ==
  ASSUME GoodsIInv, NEW x \in Unused, NEW u, NEW changed, x \notin changed,
         RowOK(x, u.order[x]), u.order[x].status # "ITEM_CHANGE_REQUESTED",
         HoldsRight(u.order[x], u.held[x], u.draft[x])
  PROVE  RowFits(u, changed, x)
BY UnusedFacts DEF RowFits, RowKept, Bringing, FinalStatuses

LEMMA SubFits ==
  ASSUME GoodsIInv, NEW x \in Unused, NEW u, NEW changed, x \notin changed, NEW lines \in LineSets,
         NEW parent \in Orders \cup {None}, parent # x, NEW sibling \in BOOLEAN,
         u.order[x] = SubRow(lines, parent, sibling),
         u.held[x] = HoldRow("WAREHOUSE", QuantitiesOf(lines)), u.draft[x] = None
  PROVE  /\ RowFits(u, changed, x) /\ u.order[x].status \notin InRunnerHands
         /\ ~sibling => Bringing(u.order[x], parent)
<1>1. LET row == u.order[x]
      IN  /\ row \in RowSet /\ row.type = "SO" /\ row.status = "NEW" /\ row.lines = lines
          /\ row.source = "WAREHOUSE" /\ row.runner = None /\ row.parent = parent
          /\ row.sibling = sibling /\ ~row.left
  BY SubRowIs
<1>2. RowOK(x, u.order[x])
  BY <1>1 DEF RowOK, InWarehouse, InRunnerHands
<1>3. HoldsRight(u.order[x], u.held[x], u.draft[x])
  BY <1>1 DEF HoldsRight, HoldingOf, InWarehouse, BeforeArrival
<1>4. RowFits(u, changed, x)
  BY <1>1, <1>2, <1>3, FreshFits
<1> QED
  BY <1>1, <1>4 DEF Bringing, InWarehouse, InRunnerHands

\* The order o keeps a part, and the sub-order asks the warehouse for the rest.
Splits(u, t, o, row, h, sub, rest) ==
    /\ Sound(u) /\ (u.ok => t.ok) /\ u.onHand = t.onHand /\ u.draft = t.draft
    /\ u.order[o] = row /\ u.held[o] = h /\ row \in RowSet
    /\ rest # NoLines => /\ u.order[sub] = SubRow(rest, o, FALSE)
                         /\ u.held[sub] = HoldRow("WAREHOUSE", QuantitiesOf(rest))
    /\ rest = NoLines => u.order[sub] = t.order[sub] /\ u.held[sub] = t.held[sub]
    /\ \A x \in Orders \ {o, sub} : u.order[x] = t.order[x] /\ u.held[x] = t.held[x]

LEMMA SplitsThen ==
  ASSUME NEW t, NEW n, NEW u, NEW o, NEW sub \in Orders \ {o}, NEW row, NEW h, NEW rest,
         Splits(n, t, o, row, h, sub, rest), NEW last, NEW kept, Leaves(u, n, o, last, kept)
  PROVE  Splits(u, t, o, last, kept, sub, rest)
BY DEF Splits, Leaves

LEMMA AskedDoes ==
  ASSUME NEW t, NEW gone, NEW o \in Orders, NEW sub \in Orders \ {o}, NEW row, NEW h,
         Leaves(gone, t, o, row, h), NEW rest \in LineSets, NEW final \in LineSets,
         NEW asked, asked = IF rest = NoLines THEN gone
                            ELSE CreateFromWarehouse(gone, sub, rest, o, FALSE)
  PROVE  Splits(NewVersion(asked, o, final), t, o, WithLines(row, final), h, sub, rest)
<1>1. Sound(gone) /\ gone.order[o] = row /\ gone.held[o] = h /\ row \in RowSet
  BY DEF Leaves
<1>2. Splits(asked, t, o, row, h, sub, rest)
  <2>1. CASE rest = NoLines
    BY <2>1 DEF Splits, Leaves
  <2>2. CASE rest # NoLines
    <3>1. asked = CreateFromWarehouse(gone, sub, rest, o, FALSE)
      BY <2>2
    <3>2. Leaves(asked, gone, sub, SubRow(rest, o, FALSE), HoldRow("WAREHOUSE", QuantitiesOf(rest)))
      BY <1>1, <3>1, CreateFromWarehouseLeaves
    <3> QED
      BY <2>2, <3>2 DEF Splits, Leaves
  <2> QED
    BY <2>1, <2>2
<1>3. Leaves(NewVersion(asked, o, final), asked, o, WithLines(row, final), h)
  <2>1. Sound(asked) /\ asked.order[o] = row /\ asked.held[o] = h
    BY <1>2 DEF Splits
  <2> QED
    BY <2>1, NewVersionLeaves
<1> QED
  BY <1>2, <1>3, SplitsThen

LEMMA GoneLeaves ==
  ASSUME NEW t, Sound(t), NEW o \in Orders, NEW units \in Units
  PROVE  Leaves(HoldInBin(Release(t, o), o, units), t, o, t.order[o], NothingHeld)
<1>a. PICK r : r = Release(t, o)
  OBVIOUS
<1>1. Leaves(r, t, o, t.order[o], NothingHeld)
  BY <1>a, ReleaseLeaves
<1>2. Sound(r) /\ r.order[o] = t.order[o] /\ r.held[o] = NothingHeld
  BY <1>1 DEF Leaves
<1>3. Leaves(HoldInBin(r, o, units), r, o, t.order[o], NothingHeld)
  BY <1>2, HoldInBinLeaves
<1> QED
  BY <1>1, <1>3, <1>a, LeavesAgain

\* The order is the seller's, who took of the bag what it carried if it was there.
Brought(t, o, first, h, left) ==
    /\ LeavesBag(t, Now, o, first, h, left) /\ first.status = "RECEIVED_BY_SELLER"
    /\ SameBut4(first, order[o]) /\ first.runner = order[o].runner
    /\ \/ order[o].status \notin InRunnerHands /\ left = Zero
       \/ /\ order[o].status \in InRunnerHands
          /\ o \in altered \/ left = QuantitiesOf(order[o].lines)

LEMMA RequestChangeGood ==
  ASSUME GoodsIInv, NEW o \in Orders, NEW sub \in Orders, NEW out \in SUBSET Variants,
         NEW incoming \in Inputs, RequestChange(o, sub, out, incoming)
  PROVE  GoodStep
<1>a. PICK t : t = IF order[o].status = "DELIVERED_TO_STORE" THEN Received(o) ELSE Now
  OBVIOUS
<1>b. PICK m : m = AbsorbParent(t, o)
  OBVIOUS
<1>c. PICK lines : lines = LinesOf(m, o)
  OBVIOUS
<1>d. PICK here : here = HasHere(m, incoming)
  OBVIOUS
<1>e. PICK rest : rest = ToBring(m, incoming)
  OBVIOUS
<1>f. PICK units : units = QuantitiesOf(Only(lines, out))
  OBVIOUS
<1>g. PICK gone : gone = HoldInBin(Release(m, o), o, units)
  OBVIOUS
<1>h. PICK asked : asked = IF rest = NoLines THEN gone ELSE CreateFromWarehouse(gone, sub, rest, o, FALSE)
  OBVIOUS
<1>i. PICK final : final = Join(Without(lines, out), here)
  OBVIOUS
<1>j. PICK n : n = NewVersion(asked, o, final)
  OBVIOUS
<1>k. PICK kept : kept = ReserveAll(n, o, "STORE")
  OBVIOUS
<1>l. PICK u : u = IF rest = NoLines THEN kept ELSE SetStatus(kept, o, "ITEM_CHANGE_REQUESTED")
  OBVIOUS
<1>m. PICK changed : changed = {o} \cap {x \in Orders : m.order[x].status = "CLOSED_BY_CHANGE"}
  OBVIOUS
<1>1. /\ CommitAltering(u, changed) /\ order[o].type = "SO"
      /\ order[o].status \in {"RECEIVED_BY_SELLER", "DELIVERED_TO_STORE"} /\ draft[o] = None
      /\ sub \in Unused
  <2>1. RequestChange(o, sub, out, incoming) <=>
          /\ At(o, "SO", {"RECEIVED_BY_SELLER", "DELIVERED_TO_STORE"}) /\ NoOpenSale(o)
          /\ sub \in Unused
          /\ out # {} /\ out \subseteq DOMAIN lines /\ ChangeOf(out, incoming)
          /\ CommitAltering(u, changed)
    BY <1>a, <1>b, <1>c, <1>d, <1>e, <1>f, <1>g, <1>h, <1>i, <1>j, <1>k, <1>l, <1>m
       DEF RequestChange
  <2> QED
    BY <2>1 DEF At, NoOpenSale
<1>2. sub # o /\ changed \in SUBSET {o} /\ (o \in changed <=> m.order[o].status = "CLOSED_BY_CHANGE")
  BY <1>1, <1>m, UnusedFacts
<1>3a. PICK first, h, left : Brought(t, o, first, h, left) /\ left \in Units
  <2>1. CASE order[o].status = "DELIVERED_TO_STORE"
    <3>1. t = Received(o)
      BY <1>a, <2>1
    <3>2. PICK row \in RowSet, taken \in Units :
            /\ LeavesBag(t, Now, o, row, HoldRow("STORE", QuantitiesOf(order[o].lines)), taken)
            /\ Arrives(row, order[o], "RECEIVED_BY_SELLER")
            /\ o \notin altered => taken = QuantitiesOf(order[o].lines)
      BY <1>1, <2>1, <3>1, ReceivedLeaves
    <3>3. order[o].status \in InRunnerHands
      BY <2>1 DEF InRunnerHands
    <3>4. Brought(t, o, row, HoldRow("STORE", QuantitiesOf(order[o].lines)), taken)
      BY <3>2, <3>3 DEF Arrives, Brought
    <3> QED
      BY <3>2, <3>4
  <2>2. CASE order[o].status = "RECEIVED_BY_SELLER"
    <3>1. t = Now /\ Sound(Now) /\ Leaves(Now, Now, o, order[o], held[o])
      BY <1>a, <2>2, NowIs, RowFacts DEF Leaves, GoodsIInv
    <3>2. LeavesBag(t, Now, o, order[o], held[o], Zero)
      BY <3>1, BagUntouched
    <3>3. /\ SameBut4(order[o], order[o]) /\ Zero \in Units
          /\ order[o].status \notin InRunnerHands
      BY <2>2, ZeroUnits DEF SameBut4, InRunnerHands
    <3>4. Brought(t, o, order[o], held[o], Zero)
      BY <2>2, <3>2, <3>3 DEF Brought
    <3> QED
      BY <3>3, <3>4
  <2> QED
    BY <1>1, <2>1, <2>2
<1>3. /\ LeavesBag(t, Now, o, first, h, left) /\ first.status = "RECEIVED_BY_SELLER"
      /\ SameBut4(first, order[o]) /\ first.runner = order[o].runner /\ left \in Units
      /\ \/ order[o].status \notin InRunnerHands /\ left = Zero
         \/ /\ order[o].status \in InRunnerHands
            /\ o \in altered \/ left = QuantitiesOf(order[o].lines)
  BY <1>3a DEF Brought
<1>4. PICK row : Mine(m, o, row, left)
  BY <1>1, <1>3, <1>b, MineDoes
<1>5. /\ Sound(m) /\ m.order[o] = row /\ m.draft = draft /\ SameBut4(row, order[o])
      /\ row.status \in {"RECEIVED_BY_SELLER", "CLOSED_BY_CHANGE"} /\ row \in RowSet
      /\ row.runner = order[o].runner
      /\ \A p \in Orders : Bringing(order[o], p) => m.order[p].status # "ITEM_CHANGE_REQUESTED"
  BY <1>4 DEF Mine
<1>6. rest \in LineSets /\ final \in LineSets /\ units \in Units
  <2>1. incoming \in LineSets /\ lines \in LineSets
    BY <1>5, <1>c, InputsAreLines, RowFields DEF LinesOf
  <2>2. here \in LineSets /\ rest \in LineSets
    BY <1>5, <1>d, <1>e, <2>1, SplitIsLines
  <2>3. Without(lines, out) \in LineSets /\ Only(lines, out) \in LineSets
    BY <2>1, PartIsLines
  <2> QED
    BY <1>f, <1>i, <2>2, <2>3, JoinIsLines, LinesAreLines
<1>n. PICK listed : listed = WithLines(row, final)
  OBVIOUS
<1>7. Splits(n, m, o, listed, NothingHeld, sub, rest)
  <2>1. Leaves(gone, m, o, row, NothingHeld)
    BY <1>5, <1>6, <1>g, GoneLeaves
  <2>2. sub \in Orders \ {o}
    BY <1>2
  <2> QED
    BY <1>6, <1>h, <1>j, <1>n, <2>1, <2>2, AskedDoes
<1>8. /\ listed \in RowSet /\ SameBut4(listed, order[o]) /\ listed.status = row.status
      /\ listed.runner = order[o].runner /\ listed.lines = final
  BY <1>5, <1>6, <1>n, LinesFields DEF SameBut4
<1>9. Splits(kept, m, o, listed, HoldRow("STORE", QuantitiesOf(final)), sub, rest)
  <2>1. Sound(n) /\ n.order[o] = listed /\ sub \in Orders \ {o}
    BY <1>2, <1>7 DEF Splits
  <2>2. Leaves(kept, n, o, listed, HoldRow("STORE", QuantitiesOf(final)))
    BY <1>8, <1>k, <2>1, PlaceNames, ReserveAllLeaves
  <2> QED
    BY <1>7, <2>1, <2>2, SplitsThen
<1>10. PICK last :
         /\ Splits(u, m, o, last, HoldRow("STORE", QuantitiesOf(final)), sub, rest)
         /\ SameBut4(last, order[o]) /\ last.runner = order[o].runner /\ last.lines = final
         /\ \/ last.status = row.status
            \/ last.status = "ITEM_CHANGE_REQUESTED" /\ rest # NoLines
  <2>1. CASE rest = NoLines
    BY <1>8, <1>9, <1>l, <2>1
  <2>2. CASE rest # NoLines
    <3>a. PICK last : last = WithStatus(listed, "ITEM_CHANGE_REQUESTED")
      OBVIOUS
    <3>1. /\ Sound(kept) /\ kept.order[o] = listed /\ sub \in Orders \ {o}
          /\ kept.held[o] = HoldRow("STORE", QuantitiesOf(final))
      BY <1>2, <1>9 DEF Splits
    <3>2. u = SetStatus(kept, o, "ITEM_CHANGE_REQUESTED")
      BY <1>l, <2>2
    <3>3. Leaves(u, kept, o, last, HoldRow("STORE", QuantitiesOf(final)))
      BY <3>1, <3>2, <3>a, SetStatusLeaves DEF Statuses, InStore
    <3>4. Splits(u, m, o, last, HoldRow("STORE", QuantitiesOf(final)), sub, rest)
      BY <1>9, <3>1, <3>3, SplitsThen
    <3>5. /\ SameBut4(last, listed) /\ last.status = "ITEM_CHANGE_REQUESTED" /\ last.lines = final
          /\ last.runner = listed.runner
      BY <1>8, <3>a, StatusFields DEF Statuses, InStore
    <3> QED
      BY <1>8, <2>2, <3>4, <3>5 DEF SameBut4
  <2> QED
    BY <2>1, <2>2
<1>o. PICK S : S = IF rest = NoLines THEN {} ELSE {sub}
  OBVIOUS
<1>11. /\ Sound(u) /\ u.onHand = m.onHand /\ u.order[o] = last /\ u.draft = draft
       /\ u.held[o] = HoldRow("STORE", QuantitiesOf(final))
       /\ \A x \in Orders \ (S \cup {o}) :
             u.order[x] = m.order[x] /\ u.held[x] = m.held[x] /\ u.draft[x] = m.draft[x]
  BY <1>5, <1>10, <1>o DEF Splits
<1>12. rest # NoLines => /\ RowFits(u, changed, sub) /\ u.order[sub].status \notin InRunnerHands
                         /\ Bringing(u.order[sub], o)
  <2> HAVE rest # NoLines
  <2>1. /\ u.order[sub] = SubRow(rest, o, FALSE)
        /\ u.held[sub] = HoldRow("WAREHOUSE", QuantitiesOf(rest))
    BY <1>10 DEF Splits
  <2>2. u.draft[sub] = None /\ sub \notin changed /\ sub # o
    BY <1>1, <1>2, <1>11, UnusedFacts
  <2> QED
    BY <1>1, <1>6, <2>1, <2>2, SubFits
<1>13. \A p \in Orders : Bringing(order[o], p) => u.order[p].status # "ITEM_CHANGE_REQUESTED"
  <2> SUFFICES ASSUME NEW p \in Orders, Bringing(order[o], p)
               PROVE  u.order[p].status # "ITEM_CHANGE_REQUESTED"
    OBVIOUS
  <2>1. p # o
    BY RowFacts DEF Bringing, RowOK
  <2>2. CASE p \in S
    BY <1>12, <1>o, <2>2 DEF Bringing, InWarehouse
  <2>3. CASE p \notin S
    BY <1>5, <1>11, <2>1, <2>3
  <2> QED
    BY <2>2, <2>3
<1>14. RowFits(u, changed, o)
  <2>1. RowOK(o, last) /\ RowKept(order[o], last)
    BY <1>1, <1>5, <1>10, RowFacts
       DEF RowOK, RowKept, SameBut4, InWarehouse, InRunnerHands, InStore, FinalStatuses
  <2>2. o \notin altered \cup changed => HoldsRight(last, u.held[o], u.draft[o])
    BY <1>1, <1>2, <1>5, <1>10, <1>11
       DEF HoldsRight, HoldingOf, InWarehouse, InRunnerHands, InStore, BeforeArrival
  <2> QED
    BY <1>1, <1>5, <1>10, <1>11, <1>12, <1>13, <2>1, <2>2 DEF RowFits, SameBut4
<1>15. /\ S \in SUBSET (Unused \ {o}) /\ last.runner = order[o].runner /\ last.status \notin InRunnerHands
       /\ \A x \in S : RowFits(u, changed, x) /\ u.order[x].status \notin InRunnerHands
  BY <1>1, <1>2, <1>5, <1>10, <1>12, <1>o DEF InRunnerHands
<1> QED
  BY <1>1, <1>2, <1>3, <1>4, <1>11, <1>14, <1>15, MineGood

LEMMA EditAfterPickupGood ==
  ASSUME GoodsIInv, NEW o \in Orders, NEW sub \in Orders, NEW out \in SUBSET Variants,
         NEW added \in Inputs, EditAfterPickup(o, sub, out, added)
  PROVE  GoodStep
<1>a. PICK lines : lines = order[o].lines
  OBVIOUS
<1>b. PICK here : here = HasHere(Now, added)
  OBVIOUS
<1>c. PICK rest : rest = ToBring(Now, added)
  OBVIOUS
<1>d. PICK units : units = QuantitiesOf(Only(lines, out))
  OBVIOUS
<1>e. PICK gone : gone = IF out = {} THEN Now ELSE HoldInBin(Release(Now, o), o, units)
  OBVIOUS
<1>f. PICK asked : asked = IF rest = NoLines THEN gone ELSE CreateFromWarehouse(gone, sub, rest, o, FALSE)
  OBVIOUS
<1>g. PICK final : final = Join(Without(lines, out), here)
  OBVIOUS
<1>h. PICK n : n = NewVersion(asked, o, final)
  OBVIOUS
<1>i. PICK kept : kept = ReserveAll(n, o, "STORE")
  OBVIOUS
<1>j. PICK u : u = CASE final = NoLines /\ rest = NoLines -> CancelEmptied(n, o)
                     [] final # NoLines /\ rest = NoLines -> kept
                     [] OTHER -> SetStatus(kept, o, "ITEM_CHANGE_REQUESTED")
  OBVIOUS
<1>k. PICK changed : changed = {o} \cap {x \in Orders : order[x].status \in InRunnerHands}
  OBVIOUS
<1>1. /\ CommitAltering(u, changed) /\ order[o].type = "SO" /\ order[o].status \notin FinalStatuses
      /\ order[o].status \notin InWarehouse /\ draft[o] = None /\ sub \in Unused
  <2>1. EditAfterPickup(o, sub, out, added) <=>
          /\ Editable(o, out, added) /\ order[o].status \notin InWarehouse
          /\ sub \in Unused
          /\ CommitAltering(u, changed)
    BY <1>a, <1>b, <1>c, <1>d, <1>e, <1>f, <1>g, <1>h, <1>i, <1>j, <1>k DEF EditAfterPickup
  <2> QED
    BY <2>1 DEF Editable, Live, NoOpenSale
<1>2. /\ sub # o /\ changed \in SUBSET {o} /\ (o \in changed <=> order[o].status \in InRunnerHands)
      /\ Sound(Now) /\ Now.order = order /\ Now.held = held
  BY <1>1, <1>k, UnusedFacts, NowIs DEF GoodsIInv
<1>3. rest \in LineSets /\ final \in LineSets /\ units \in Units
  <2>1. added \in LineSets /\ lines \in LineSets
    BY <1>a, InputsAreLines, RowFacts
  <2>2. here \in LineSets /\ rest \in LineSets
    BY <1>2, <1>b, <1>c, <2>1, SplitIsLines
  <2>3. Without(lines, out) \in LineSets /\ Only(lines, out) \in LineSets
    BY <2>1, PartIsLines
  <2> QED
    BY <1>d, <1>g, <2>2, <2>3, JoinIsLines, LinesAreLines
<1>l. PICK listed : listed = WithLines(order[o], final)
  OBVIOUS
<1>4. PICK h : Splits(n, Now, o, listed, h, sub, rest)
  <2>1. PICK h : Leaves(gone, Now, o, order[o], h)
    <3>1. CASE out = {}
      <4>1. gone = Now
        BY <1>e, <3>1
      <4> QED
        BY <1>2, <4>1, RowFacts DEF Leaves
    <3>2. CASE out # {}
      BY <1>2, <1>3, <1>e, <3>2, GoneLeaves
    <3> QED
      BY <3>1, <3>2
  <2>2. sub \in Orders \ {o}
    BY <1>2
  <2> QED
    BY <1>3, <1>f, <1>h, <1>l, <2>1, <2>2, AskedDoes
<1>5. /\ listed \in RowSet /\ SameBut4(listed, order[o]) /\ listed.status = order[o].status
      /\ listed.runner = order[o].runner /\ listed.lines = final /\ listed.left = order[o].left
  BY <1>3, <1>l, RowFacts, LinesFields
<1>6. Sound(n) /\ n.order[o] = listed /\ sub \in Orders \ {o}
  BY <1>2, <1>4 DEF Splits
<1>m. PICK k : k = HoldRow("STORE", QuantitiesOf(final))
  OBVIOUS
<1>7. Splits(kept, Now, o, listed, k, sub, rest)
  <2>1. Leaves(kept, n, o, listed, k)
    BY <1>5, <1>6, <1>i, <1>m, PlaceNames, ReserveAllLeaves
  <2> QED
    BY <1>4, <1>6, <2>1, SplitsThen
<1>8. PICK last, g :
        /\ Splits(u, Now, o, last, g, sub, rest)
        /\ SameBut4(last, order[o]) /\ last.runner = order[o].runner /\ last.lines = final
        /\ last.left = order[o].left
        /\ \/ last.status = "CANCELLED" /\ g = NothingHeld
           \/ last.status = order[o].status /\ g = k
           \/ last.status = "ITEM_CHANGE_REQUESTED" /\ g = k /\ rest # NoLines
  <2>1. CASE final = NoLines /\ rest = NoLines
    <3>a. PICK last : last = WithStatus(listed, "CANCELLED")
      OBVIOUS
    <3>1. u = CancelEmptied(n, o)
      BY <1>j, <2>1
    <3>2. Leaves(u, n, o, last, NothingHeld)
      BY <1>6, <3>1, <3>a, CancelEmptiedLeaves
    <3>3. Splits(u, Now, o, last, NothingHeld, sub, rest)
      BY <1>4, <1>6, <3>2, SplitsThen
    <3>4. /\ SameBut4(last, listed) /\ last.status = "CANCELLED" /\ last.lines = final
          /\ last.runner = listed.runner /\ last.left = listed.left
      BY <1>5, <3>a, StatusFields DEF Statuses, FinalStatuses
    <3> QED
      BY <1>5, <3>3, <3>4 DEF SameBut4
  <2>2. CASE final # NoLines /\ rest = NoLines
    <3>1. u = kept
      BY <1>j, <2>2
    <3> QED
      BY <1>5, <1>7, <3>1
  <2>3. CASE rest # NoLines
    <3>a. PICK last : last = WithStatus(listed, "ITEM_CHANGE_REQUESTED")
      OBVIOUS
    <3>1. Sound(kept) /\ kept.order[o] = listed /\ kept.held[o] = k
      BY <1>7 DEF Splits
    <3>2. u = SetStatus(kept, o, "ITEM_CHANGE_REQUESTED")
      BY <1>j, <2>3
    <3>3. Leaves(u, kept, o, last, k)
      BY <3>1, <3>2, <3>a, SetStatusLeaves DEF Statuses, InStore
    <3>4. Splits(u, Now, o, last, k, sub, rest)
      BY <1>6, <1>7, <3>3, SplitsThen
    <3>5. /\ SameBut4(last, listed) /\ last.status = "ITEM_CHANGE_REQUESTED" /\ last.lines = final
          /\ last.runner = listed.runner /\ last.left = listed.left
      BY <1>5, <3>a, StatusFields DEF Statuses, InStore
    <3> QED
      BY <1>5, <2>3, <3>4, <3>5 DEF SameBut4
  <2> QED
    BY <2>1, <2>2, <2>3
<1>n. PICK S : S = IF rest = NoLines THEN {o} ELSE {o, sub}
  OBVIOUS
<1>9. /\ Sound(u) /\ u.onHand = onHand /\ u.order[o] = last /\ u.draft = draft /\ u.held[o] = g
      /\ \A x \in Orders \ S : SameRow(u, x)
  BY <1>2, <1>8, <1>n, NowIs DEF Splits, SameRow
<1>10. rest # NoLines => /\ RowFits(u, changed, sub) /\ u.order[sub].status \notin InRunnerHands
                         /\ Bringing(u.order[sub], o)
  <2> HAVE rest # NoLines
  <2>1. /\ u.order[sub] = SubRow(rest, o, FALSE)
        /\ u.held[sub] = HoldRow("WAREHOUSE", QuantitiesOf(rest))
    BY <1>8 DEF Splits
  <2>2. u.draft[sub] = None /\ sub \notin changed /\ sub # o
    BY <1>1, <1>2, <1>9, UnusedFacts
  <2> QED
    BY <1>1, <1>3, <2>1, <2>2, SubFits
<1>11. RowFits(u, changed, o)
  <2>1. RowOK(o, last) /\ RowKept(order[o], last)
    BY <1>1, <1>8, RowFacts
       DEF RowOK, RowKept, SameBut4, InWarehouse, InRunnerHands, InStore, FinalStatuses
  <2>2. o \notin altered \cup changed => HoldsRight(last, u.held[o], u.draft[o])
    <3> HAVE o \notin altered \cup changed
    <3>1. order[o].status \in InStore
      BY <1>1, <1>2, RowFacts DEF RowOK, InRunnerHands
    <3> QED
      BY <1>1, <1>8, <1>9, <1>m, <3>1
         DEF HoldsRight, HoldingOf, InWarehouse, InRunnerHands, InStore, BeforeArrival
  <2>3. last.status = "ITEM_CHANGE_REQUESTED" =>
          \/ order[o].status = "ITEM_CHANGE_REQUESTED"
          \/ \E x \in Orders : Bringing(u.order[x], o)
    BY <1>8, <1>10
  <2>4. \A p \in Orders : Bringing(order[o], p) => o \in changed
    BY <1>1, <1>2 DEF Bringing, InRunnerHands
  <2> QED
    BY <1>1, <1>8, <1>9, <2>1, <2>2, <2>3, <2>4 DEF RowFits, SameBut4
<1>12. Uncarried(u, o)
  <2> SUFFICES ASSUME NEW x \in Orders \ {o}
               PROVE  \/ u.order[x] = order[x]
                      \/ order[x].status \notin InRunnerHands /\ u.order[x].status \notin InRunnerHands
    BY DEF Uncarried
  <2>1. CASE x \in S
    BY <1>1, <1>10, <1>n, <2>1, UnusedFacts
  <2>2. CASE x \notin S
    BY <1>9, <2>2 DEF SameRow
  <2> QED
    BY <2>1, <2>2
<1>13. BagFits(u, changed)
  <2>1. CASE order[o].status \in InRunnerHands
    BY <1>2, <1>8, <1>9, <1>12, <2>1, BagsStay
  <2>2. CASE order[o].status \notin InRunnerHands
    <3>1. u.order[o].status \notin InRunnerHands
      BY <1>8, <1>9, <2>2 DEF InRunnerHands
    <3> QED
      BY <1>9, <1>12, <2>2, <3>1, BagsStay
  <2> QED
    BY <2>1, <2>2
<1>14. S \in SUBSET Orders /\ changed \in SUBSET S /\ \A x \in S : RowFits(u, changed, x)
  BY <1>2, <1>10, <1>11, <1>n
<1> QED
  BY <1>1, <1>9, <1>13, <1>14, SeveralOrders

LEMMA RequestGood ==
  ASSUME GoodsIInv, NEW o \in Orders, NEW sub \in Orders, NEW wanted \in Inputs,
         Request(o, sub, wanted)
  PROVE  GoodStep
<1>a. PICK here : here = HasHere(Now, wanted)
  OBVIOUS
<1>b. PICK rest : rest = ToBring(Now, wanted)
  OBVIOUS
<1>c. PICK born : born = Row("SO", "RECEIVED_BY_SELLER", here, "STORE")
  OBVIOUS
<1>d. PICK c : c = Create(Now, o, born)
  OBVIOUS
<1>e. PICK first : first = IF here = NoLines THEN Now ELSE ReserveAll(c, o, "STORE")
  OBVIOUS
<1>f. PICK u : u = CASE rest = NoLines -> first
                     [] rest # NoLines /\ here = NoLines ->
                          CreateFromWarehouse(first, o, rest, None, FALSE)
                     [] OTHER          -> CreateFromWarehouse(first, sub, rest, o, TRUE)
  OBVIOUS
<1>1. CommitAltering(u, {}) /\ o \in Unused /\ sub \in Unused /\ o # sub
  BY <1>a, <1>b, <1>c, <1>d, <1>e, <1>f DEF Request, Commit
<1>2. /\ Sound(Now) /\ Now.order = order /\ Now.held = held /\ here \in LineSets /\ rest \in LineSets
  BY <1>a, <1>b, NowIs, InputsAreLines, SplitIsLines DEF GoodsIInv
<1>3. /\ born \in RowSet /\ born.type = "SO" /\ born.status = "RECEIVED_BY_SELLER"
      /\ born.lines = here /\ born.source = "STORE" /\ born.runner = None /\ born.parent = None
      /\ ~born.left
  BY <1>2, <1>c, PlaceNames, RowIs DEF Statuses, InStore
<1>g. PICK k : k = HoldRow("STORE", QuantitiesOf(here))
  OBVIOUS
<1>4. here # NoLines => Leaves(first, Now, o, born, k)
  <2> HAVE here # NoLines
  <2>1. Leaves(c, Now, o, born, held[o])
    BY <1>2, <1>3, <1>d, CreateLeaves
  <2>2. Sound(c) /\ c.order[o] = born /\ first = ReserveAll(c, o, "STORE")
    BY <1>e, <2>1 DEF Leaves
  <2>3. Leaves(first, c, o, born, k)
    BY <1>3, <1>g, <2>2, PlaceNames, ReserveAllLeaves
  <2> QED
    BY <2>1, <2>3, LeavesAgain
<1>5. \A w : w.order[o] = born /\ w.held[o] = k /\ w.draft[o] = None => RowFits(w, {}, o)
  <2> TAKE w
  <2> HAVE w.order[o] = born /\ w.held[o] = k /\ w.draft[o] = None
  <2>1. RowOK(o, born)
    BY <1>3, PlaceNames DEF RowOK, InWarehouse, InRunnerHands, InStore
  <2>2. HoldsRight(born, k, None)
    BY <1>3, <1>g DEF HoldsRight, HoldingOf, InWarehouse, InRunnerHands, InStore, BeforeArrival
  <2> QED
    BY <1>1, <1>3, <2>1, <2>2, FreshFits
<1>6. draft[o] = None /\ draft[sub] = None
  BY <1>1, UnusedFacts
<1>7. CASE rest = NoLines /\ here = NoLines
  <2>1. u = Now
    BY <1>e, <1>f, <1>7
  <2>2. Commit(u) /\ Sound(u) /\ u.order = order /\ u.held = held /\ u.draft = draft /\ u.onHand = onHand
    BY <1>1, <1>2, <2>1, NowIs DEF Commit
  <2> QED
    BY <2>2, NoOrder
<1>8. CASE rest = NoLines /\ here # NoLines
  <2>1. u = first
    BY <1>f, <1>8
  <2>2. Leaves(u, Now, o, born, k)
    BY <1>4, <1>8, <2>1
  <2>3. u.order[o] = born /\ u.held[o] = k /\ u.draft[o] = None
    BY <1>6, <2>2, NowIs DEF Leaves
  <2> QED
    BY <1>1, <1>3, <1>5, <2>2, <2>3, UnusedFacts, OneLeaves DEF InRunnerHands
<1>9. CASE rest # NoLines /\ here = NoLines
  <2>a. PICK row : row = SubRow(rest, None, FALSE)
    OBVIOUS
  <2>b. PICK h : h = HoldRow("WAREHOUSE", QuantitiesOf(rest))
    OBVIOUS
  <2>1. u = CreateFromWarehouse(Now, o, rest, None, FALSE)
    BY <1>e, <1>f, <1>9
  <2>2. Leaves(u, Now, o, row, h)
    BY <1>2, <2>1, <2>a, <2>b, CreateFromWarehouseLeaves
  <2>3. u.order[o] = row /\ u.held[o] = h /\ u.draft[o] = None
    BY <1>6, <2>2, NowIs DEF Leaves
  <2>4. None # o /\ None \in Orders \cup {None} /\ FALSE \in BOOLEAN
    BY PlaceNames
  <2>5. RowFits(u, {}, o) /\ u.order[o].status \notin InRunnerHands
    <3>a. PICK parent \in Orders \cup {None} : parent = None
      BY <2>4
    <3>b. PICK sibling \in BOOLEAN : sibling = FALSE
      BY <2>4
    <3>c. PICK changed : changed = {}
      OBVIOUS
    <3>1. /\ u.order[o] = SubRow(rest, parent, sibling) /\ u.draft[o] = None
          /\ u.held[o] = HoldRow("WAREHOUSE", QuantitiesOf(rest))
          /\ o \in Unused /\ rest \in LineSets
      BY <1>1, <1>2, <2>3, <2>a, <2>b, <3>a, <3>b
    <3>2. parent # o /\ o \notin changed
      BY <2>4, <3>a, <3>c
    <3>3. RowFits(u, changed, o) /\ u.order[o].status \notin InRunnerHands
      BY <3>1, <3>2, <3>a, <3>b, SubFits
    <3> QED
      BY <3>3, <3>c
  <2> QED
    BY <1>1, <2>2, <2>3, <2>5, UnusedFacts, OneLeaves
<1>10. CASE rest # NoLines /\ here # NoLines
  <2>a. PICK row : row = SubRow(rest, o, TRUE)
    OBVIOUS
  <2>b. PICK h : h = HoldRow("WAREHOUSE", QuantitiesOf(rest))
    OBVIOUS
  <2>1. u = CreateFromWarehouse(first, sub, rest, o, TRUE)
    BY <1>f, <1>10
  <2>2. Leaves(first, Now, o, born, k)
    BY <1>4, <1>10
  <2>3. Leaves(u, first, sub, row, h)
    <3>1. Sound(first)
      BY <2>2 DEF Leaves
    <3> QED
      BY <1>2, <2>1, <2>a, <2>b, <3>1, CreateFromWarehouseLeaves
  <2>4. /\ Sound(u) /\ u.onHand = onHand /\ u.draft = draft
        /\ u.order[o] = born /\ u.held[o] = k /\ u.order[sub] = row /\ u.held[sub] = h
        /\ \A x \in Orders \ {o, sub} : SameRow(u, x)
    BY <1>1, <1>2, <2>2, <2>3, NowIs DEF Leaves, SameRow
  <2>5. RowFits(u, {}, o)
    BY <1>5, <1>6, <2>4
  <2>6. RowFits(u, {}, sub) /\ u.order[sub].status \notin InRunnerHands
    BY <1>1, <1>2, <1>6, <2>4, <2>a, <2>b, SubFits
  <2>7. Uncarried(u, o)
    BY <1>1, <2>4, <2>6, UnusedFacts DEF Uncarried, SameRow
  <2>8. BagFits(u, {})
    <3>1. order[o].status \notin InRunnerHands /\ u.order[o].status \notin InRunnerHands
      BY <1>1, <1>3, <2>4, UnusedFacts DEF InRunnerHands
    <3> QED
      BY <2>4, <2>7, <3>1, BagsStay
  <2>9. {o, sub} \in SUBSET Orders /\ \A x \in {o, sub} : RowFits(u, {}, x)
    BY <2>5, <2>6
  <2> QED
    BY <1>1, <2>4, <2>8, <2>9, SeveralOrders
<1> QED
  BY <1>7, <1>8, <1>9, <1>10

-----------------------------------------------------------------------------
(* The invariant holds at first *)

LEMMA NoRow ==
  LET row == Row("NONE", "NONE", NoLines, "WAREHOUSE")
  IN  /\ row \in RowSet /\ row.type = "NONE" /\ row.status = "NONE" /\ row.lines = NoLines
      /\ row.runner = None /\ row.parent = None /\ ~row.left
<1>1. NoLines \in LineSets /\ "WAREHOUSE" \in Places /\ "NONE" \in Statuses
  BY NoLinesMoveNothing, PlaceNames DEF Statuses
<1> QED
  BY <1>1 DEF Row, RowSet

LEMMA FirstState ==
  ASSUME Init
  PROVE  /\ Now \in State
         /\ \A x \in Orders : /\ order[x] = Row("NONE", "NONE", NoLines, "WAREHOUSE")
                              /\ held[x] = NothingHeld /\ bin[x] = Zero /\ draft[x] = None
         /\ \A p \in Places : aside[p] = Zero
         /\ \A p \in AllPlaces, v \in Variants :
              onHand[p][v] = IF p = "WAREHOUSE" THEN Stocked ELSE 0
<1>1. /\ \A x \in Orders : /\ order[x] = Row("NONE", "NONE", NoLines, "WAREHOUSE")
                           /\ held[x] = NothingHeld /\ bin[x] = Zero /\ draft[x] = None
      /\ \A p \in Places : aside[p] = Zero
  BY DEF Init
<1>2. onHand = [p \in AllPlaces |-> IF p = "WAREHOUSE" THEN [v \in Variants |-> Stocked] ELSE Zero]
  BY DEF Init, AllPlaces
<1>3. [v \in Variants |-> Stocked] \in [Variants -> Int] /\ Zero \in [Variants -> Int]
  BY ZeroUnits, InternalOrderAssumption DEF Units
<1>4. onHand \in [AllPlaces -> [Variants -> Int]]
  BY <1>2, <1>3
<1>5. order \in [Orders -> RowSet]
  BY NoRow DEF Init
<1>6. /\ held \in [Orders -> HeldRow] /\ bin \in [Orders -> Units]
      /\ aside \in [Places -> Units] /\ draft \in [Orders -> Units \cup {None}]
  BY ZeroUnits, NothingHeldRow DEF Init
<1>7. Now \in State
  BY <1>4, <1>5, <1>6 DEF Now, State
<1>8. ASSUME NEW p \in AllPlaces, NEW v \in Variants
      PROVE  onHand[p][v] = IF p = "WAREHOUSE" THEN Stocked ELSE 0
  BY <1>2, ZeroUnits
<1> QED
  BY <1>1, <1>7, <1>8

LEMMA InitSound == Init => Sound(Now)
<1> SUFFICES ASSUME Init PROVE Sound(Now)
  OBVIOUS
<1>1. ASSUME NEW p \in AllPlaces, NEW v \in Variants PROVE onHand[p][v] >= 0
  BY FirstState, InternalOrderAssumption
<1>2. ASSUME NEW p \in Places, NEW v \in Variants PROVE Free(Now, p)[v] >= 0
  <2> DEFINE f == [x \in Orders |-> Apart(Now, x, p)[v]]
  <2>1. ASSUME NEW x \in Orders PROVE f[x] = 0
    <3>1. Apart(Now, x, p)[v] = HeldAt(held[x], p, v) + BinAt(bin[x], p, v) + DraftAt(draft[x], p, v)
      BY FirstState, NowIs, ApartIs
    <3>2. held[x] = NothingHeld /\ bin[x] = Zero /\ draft[x] = None
      BY FirstState
    <3>3. HeldAt(held[x], p, v) = 0 /\ DraftAt(draft[x], p, v) = 0
      BY <3>2, PartsAre
    <3>4. BinAt(bin[x], p, v) = 0
      BY <3>2, ZeroUnits DEF BinAt
    <3> QED
      BY <3>1, <3>3, <3>4
  <2>2. Booked(Now, p, v) = SumFunctionOnSet(f, Orders)
    BY DEF Booked
  <2> HIDE DEF f
  <2>3. Booked(Now, p, v) = 0
    BY <2>1, <2>2, PlaceNames, SumZero
  <2>4. Free(Now, p)[v] = onHand[p][v] - aside[p][v] - Booked(Now, p, v)
    BY FirstState, NowIs, FreeIs
  <2>5. aside[p][v] = 0
    BY FirstState, ZeroUnits
  <2>6. onHand[p][v] >= 0 /\ onHand[p][v] \in Int
    BY <1>1, PlaceNames, FirstState, InternalOrderAssumption
  <2> QED
    BY <2>3, <2>4, <2>5, <2>6
<1> QED
  BY <1>1, <1>2, FirstState, NowIs DEF Sound

LEMMA GoodsStart == Init => GoodsIInv
<1> SUFFICES ASSUME Init PROVE GoodsIInv
  OBVIOUS
<1>1. Sound(Now) /\ order \in [Orders -> RowSet]
  BY InitSound, FirstState, NowIs, StateFields
<1>2. altered = {}
  BY DEF Init
<1>3. ASSUME NEW x \in Orders
      PROVE  /\ order[x].type = "NONE" /\ order[x].status = "NONE" /\ order[x].lines = NoLines
             /\ order[x].runner = None /\ order[x].parent = None /\ ~order[x].left
             /\ held[x] = NothingHeld /\ draft[x] = None
  BY FirstState, NoRow
<1>4. \A x \in Orders : RowOK(x, order[x])
  BY <1>3, PlaceNames DEF RowOK, InWarehouse, InRunnerHands, InStore
<1>5. \A x \in Orders : HoldsRight(order[x], held[x], draft[x])
  BY <1>3 DEF HoldsRight, HoldingOf, InWarehouse, InRunnerHands, InStore, BeforeArrival
<1>6. Waits
  BY <1>3 DEF Waits
<1>7. BagMatchesOrders
  <2> SUFFICES ASSUME NEW r \in Runners
               PROVE  onHand[r] = SumUnits(Goods(order), InBag(order, r))
    BY DEF BagMatchesOrders, MovedBy, LinesOf, Now, Goods, InBag, Carried
  <2>1. ASSUME NEW v \in Variants
        PROVE  onHand[r][v] = SumUnits(Goods(order), InBag(order, r))[v]
    <3> DEFINE f == [x \in Orders |-> Carries(order[x], r, v)]
    <3>1. \A x \in Orders : f[x] = 0
      BY <1>3 DEF Carries, InRunnerHands
    <3>2. SumUnits(Goods(order), InBag(order, r))[v] = SumFunctionOnSet(f, Orders)
      BY <1>1, CarriedSum
    <3> HIDE DEF f
    <3>3. SumFunctionOnSet(f, Orders) = 0
      BY <3>1, PlaceNames, SumZero
    <3>4. r \in AllPlaces /\ r # "WAREHOUSE"
      BY PlaceNames
    <3> QED
      BY <3>2, <3>3, <3>4, FirstState
  <2>2. onHand[r] \in [Variants -> Int]
    BY PlaceNames, FirstState, NowIs, StateFields
  <2>3. SumUnits(Goods(order), InBag(order, r))
          = [v \in Variants |-> SumUnits(Goods(order), InBag(order, r))[v]]
    BY DEF SumUnits
  <2> QED
    BY <2>1, <2>2, <2>3
<1> QED
  BY <1>1, <1>2, <1>4, <1>5, <1>6, <1>7 DEF GoodsIInv

-----------------------------------------------------------------------------
(* Every step keeps it *)

LEMMA SellerGood == ASSUME GoodsIInv, NEW o \in Orders, Seller(o) PROVE GoodStep
<1>1. ASSUME NEW sub \in Orders, NEW wanted \in Inputs, Request(o, sub, wanted) PROVE GoodStep
  BY <1>1, RequestGood
<1>2. ASSUME Receive(o) PROVE GoodStep
  BY <1>2, ReceiveGood
<1>3. ASSUME ToPayment(o) PROVE GoodStep
  BY <1>3, ToPaymentGood
<1>4. ASSUME BackToSeller(o) PROVE GoodStep
  BY <1>4, BackToSellerGood
<1>5. ASSUME ReturnRequest(o) PROVE GoodStep
  BY <1>5, ReturnRequestGood
<1>6. ASSUME Cancel(o) PROVE GoodStep
  BY <1>6, CancelGood
<1>7. ASSUME NEW sub \in Orders, NEW out \in SUBSET Variants, NEW lines \in Inputs,
             RequestChange(o, sub, out, lines)
      PROVE  GoodStep
  BY <1>7, RequestChangeGood
<1>8. ASSUME NEW sub \in Orders, NEW out \in SUBSET Variants, NEW lines \in Inputs,
             EditAfterPickup(o, sub, out, lines)
      PROVE  GoodStep
  BY <1>8, EditAfterPickupGood
<1>9. ASSUME NEW out \in SUBSET Variants, NEW lines \in Inputs, EditInWarehouse(o, out, lines)
      PROVE  GoodStep
  BY <1>9, EditInWarehouseGood
<1>10. ASSUME NEW out \in SUBSET Variants, NEW damaged \in BOOLEAN, ReportIncident(o, out, damaged)
       PROVE  GoodStep
  BY <1>10, ReportIncidentGood
<1> QED
  BY <1>1, <1>2, <1>3, <1>4, <1>5, <1>6, <1>7, <1>8, <1>9, <1>10 DEF Seller

LEMMA CarryingGood ==
  ASSUME GoodsIInv, NEW o \in Orders, Warehouse(o) \/ Runner(o) PROVE GoodStep
<1>1. ASSUME Pack(o) PROVE GoodStep
  BY <1>1, PackGood
<1>2. ASSUME NEW found \in Counts(o), Ready(o, found) PROVE GoodStep
  BY <1>2, ReadyGood
<1>3. ASSUME NEW found \in Counts(o), VerifyReturn(o, found) PROVE GoodStep
  BY <1>3, VerifyReturnGood
<1>4. ASSUME NEW r \in Runners, Claim(o, r) PROVE GoodStep
  BY <1>4, ClaimGood
<1>5. ASSUME NEW r \in Runners, PickUp(o, r) PROVE GoodStep
  BY <1>5, PickUpGood
<1>6. ASSUME Deliver(o) PROVE GoodStep
  BY <1>6, DeliverGood
<1> QED
  BY <1>1, <1>2, <1>3, <1>4, <1>5, <1>6 DEF Warehouse, Runner

LEMMA EndingGood ==
  ASSUME GoodsIInv, NEW o \in Orders, CashDesk(o) \/ Bin(o) PROVE GoodStep
<1>1. ASSUME OpenCharge(o) PROVE GoodStep
  BY <1>1, OpenChargeGood
<1>2. ASSUME Pay(o) PROVE GoodStep
  BY <1>2, PayGood
<1>3. ASSUME DiscardCharge(o) PROVE GoodStep
  BY <1>3, DiscardChargeGood
<1>4. ASSUME CancelReturn(o) PROVE GoodStep
  BY <1>4, CancelReturnGood
<1>5. ASSUME NEW S \in SUBSET Variants, CreateReturnFromBin(o, S) PROVE GoodStep
  BY <1>5, CreateReturnGood
<1> QED
  BY <1>1, <1>2, <1>3, <1>4, <1>5 DEF CashDesk, Bin

LEMMA GoodsStep == GoodsIInv /\ [Next]_vars => GoodStep
<1> SUFFICES ASSUME GoodsIInv, [Next]_vars PROVE GoodStep
  OBVIOUS
<1>1. CASE UNCHANGED vars
  BY <1>1 DEF vars, GoodStep, GoodsIInv, Sound, Waits, BagMatchesOrders, Carried, MovedBy,
              LinesOf, Now, Free, Apart
<1>2. ASSUME NEW o \in Orders, Seller(o) PROVE GoodStep
  BY <1>2, SellerGood
<1>3. ASSUME NEW o \in Orders, Warehouse(o) \/ Runner(o) PROVE GoodStep
  BY <1>3, CarryingGood
<1>4. ASSUME NEW o \in Orders, CashDesk(o) \/ Bin(o) PROVE GoodStep
  BY <1>4, EndingGood
<1>5. ASSUME NEW S \in SUBSET Variants, KeepBinInStore(S) PROVE GoodStep
  BY <1>5, KeepBinInStoreGood
<1>6. ASSUME NEW v \in Variants, Restock(v) PROVE GoodStep
  BY <1>6, RestockGood
<1> QED
  BY <1>1, <1>2, <1>3, <1>4, <1>5, <1>6 DEF Next

-----------------------------------------------------------------------------
(* What it says *)

LEMMA TypesFollow == GoodsIInv => TypeOK
<1> SUFFICES ASSUME GoodsIInv PROVE TypeOK
  OBVIOUS
<1>1. /\ Now \in State /\ altered \subseteq Orders
      /\ \A p \in AllPlaces, v \in Variants : onHand[p][v] >= 0
  BY NowIs DEF GoodsIInv, Sound
<1>2. /\ order \in [Orders -> RowSet] /\ onHand \in [AllPlaces -> [Variants -> Int]]
      /\ held \in [Orders -> HeldRow] /\ bin \in [Orders -> Units]
      /\ aside \in [Places -> Units] /\ draft \in [Orders -> Units \cup {None}]
  BY <1>1, NowIs, StateFields
<1>3. \A o \in Orders : IsOrderRow(order[o])
  <2> TAKE o \in Orders
  <2>1. IsLines(order[o].lines)
    BY RowFacts, LinesAreLines
  <2> QED
    BY <2>1, RowFacts DEF IsOrderRow, Statuses
<1>4. onHand \in [AllPlaces -> Units]
  <2>1. ASSUME NEW p \in AllPlaces PROVE onHand[p] \in Units
    <3>1. onHand[p] \in [Variants -> Int] /\ \A v \in Variants : onHand[p][v] >= 0
      BY <1>1, <1>2
    <3> QED
      BY <3>1 DEF Units
  <2> QED
    BY <1>2, <2>1
<1> QED
  BY <1>1, <1>2, <1>3, <1>4 DEF TypeOK, AllPlaces

LEMMA HoldingsFollow == GoodsIInv => HeldWhereItIs
<1> SUFFICES ASSUME GoodsIInv, NEW o \in Orders \ altered
             PROVE  /\ held[o] = Holding(o)
                    /\ draft[o] # None =>
                         order[o].status = "PENDING_PAYMENT" /\ draft[o] = MovedBy(Now, o)
  BY DEF HeldWhereItIs
<1>1. HoldsRight(order[o], held[o], draft[o])
  BY DEF GoodsIInv
<1>2. MovedBy(Now, o) = QuantitiesOf(order[o].lines)
  BY NowIs DEF MovedBy, LinesOf
<1>3. Holding(o) = HoldingOf(order[o], draft[o])
  BY <1>2 DEF Holding, HoldingOf, HoldRow, InWarehouse, InStore
<1> QED
  BY <1>1, <1>2, <1>3 DEF HoldsRight

LEMMA WaitsFollow == GoodsIInv => WaitsForALiveSub
<1> SUFFICES ASSUME GoodsIInv, NEW o \in Orders, order[o].status = "ITEM_CHANGE_REQUESTED"
             PROVE  \E sub \in Subs(o) : Live(sub) \/ Emptied(sub) \/ sub \in altered
  BY DEF WaitsForALiveSub
<1>1. PICK sub \in Orders :
        \/ Bringing(order[sub], o)
        \/ order[sub].parent = o /\ (EmptiedRow(order[sub]) \/ sub \in altered)
  BY DEF GoodsIInv, Waits
<1>2. sub \in Subs(o)
  BY <1>1 DEF Subs, Bringing
<1>3. Live(sub) \/ Emptied(sub) \/ sub \in altered
  BY <1>1 DEF Bringing, EmptiedRow, Live, Emptied, InWarehouse, FinalStatuses
<1> QED
  BY <1>2, <1>3

-----------------------------------------------------------------------------

\* However orders are split, absorbed, changed, charged or returned, what is reserved
\* and carried is what the invariant says.
THEOREM GoodsInvariance == Spec => []GoodsIInv
<1>1. GoodsIInv /\ [Next]_vars => GoodsIInv'
  BY GoodsStep DEF GoodStep
<1> QED
  BY <1>1, GoodsStart, PTL DEF Spec

\* A live order holds exactly its lines where they are, once, its open charge holds
\* them instead, and a runner's bag has what the orders in those hands carry
\* (InternalOrderStock, toRunner, fromRunner, lockForCheckout).
THEOREM GoodsAlwaysWhereTheySay == Spec => []GoodsAreWhereTheySay
<1>1. GoodsIInv => GoodsAreWhereTheySay
  BY TypesFollow, HoldingsFollow DEF GoodsAreWhereTheySay, GoodsIInv
<1> QED
  BY <1>1, GoodsInvariance, PTL

\* An order in ITEM_CHANGE_REQUESTED has a sub-order that brings the change, unless that
\* one was left with no lines or was edited on its way (absorbParent, releaseParent,
\* cancelEmptied).
THEOREM SomeoneBringsTheChange == Spec => []WaitsForALiveSub
<1>1. GoodsIInv => WaitsForALiveSub
  BY WaitsFollow
<1> QED
  BY <1>1, GoodsInvariance, PTL

\* No operation of any order, its parent, its sub-orders or its charge opens or writes
\* an order that ended (isFinalStatus).
THEOREM EndedForGood == Spec => EndedStaysEnded
<1>1. GoodsIInv /\ [Next]_vars
        => [\A o \in Orders : order[o].status \in FinalStatuses => order'[o] = order[o]]_vars
  BY GoodsStep DEF GoodStep
<1> QED
  BY <1>1, GoodsInvariance, PTL DEF Spec, EndedStaysEnded

=============================================================================
