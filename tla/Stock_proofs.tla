---------------------------- MODULE Stock_proofs ----------------------------
(***************************************************************************)
(* Nothing is promised twice, nothing is lost, and two charges or two      *)
(* movements never wait for each other, for any sales, references, boxes,  *)
(* quantities and requests at the same time: proofs about Stock.           *)
(*                                                                         *)
(* The properties are about committed rows, and a transaction writes rows  *)
(* it read several steps before.  The invariant says what is still true,   *)
(* at each of its steps, of what it read: it holds the balances it will    *)
(* write (Exclusive), what it will hold apart together with what the       *)
(* others hold fits in them (PromiseInv), and what it will save is the     *)
(* balance there is, less what it moves (SyncInv, ChargeInv, MoveInv).     *)
(***************************************************************************)
EXTENDS Stock, Sums

\* A balance, a sale and the counter of the series are locked by one transaction.
Exclusive ==
    \A t, u \in Clients :
        t # u => /\ tx[t].locks \cap tx[u].locks = {}
                 /\ tx[t].doc # None => tx[t].doc # tx[u].doc
                 /\ ~(tx[t].series /\ tx[u].series)

\* Sales hold units of the boxes of the store.
HeldInStore ==
    \A d \in Docs, v \in Variants :
        doc[d].holds[v] # None => doc[d].holds[v].box \in StoreBoxes

\* What t would hold apart in the balances it locked fits in what it would leave.
PromiseInv(t) ==
    \A p \in tx[t].locks : Reserved(t, p[1], p[2]) <= Quantity(t, p)

\* What t changes, it has locked.
LockedInv(t) ==
    /\ tx[t].op = "none" <=> tx[t].at = "idle"
    /\ \A p \in Places : tx[t].saves[p] # None => p \in tx[t].locks
    /\ \A v \in Variants : tx[t].ordered[v] # 0 => <<v, Warehouse>> \in tx[t].locks
    /\ tx[t].want # None => tx[t].want \in Places
    /\ tx[t].op = "none" => tx[t] = NoTransaction

\* The lines that were done are held as they should, the others are not held.
SyncInv(t) ==
    tx[t].op = "sync" =>
        /\ tx[t].doc # None /\ doc[tx[t].doc].status \in {"NONE", "DRAFT"}
        /\ tx[t].at \in {"choose", "balance", "commit"}
        /\ tx[t].at = "commit" => tx[t].todo = {}
        /\ tx[t].at = "balance" => /\ tx[t].want # None
                                   /\ tx[t].want[1] \in tx[t].todo
                                   /\ tx[t].want[2] \in StoreBoxes
        /\ \A p \in Places : tx[t].saves[p] = None
        /\ tx[t].ordered = Nothing /\ ~tx[t].series
        /\ \A v \in Variants :
             /\ v \in tx[t].todo => tx[t].lines[v] > 0 /\ tx[t].holds[v] = None
             /\ v \notin tx[t].todo =>
                  IF tx[t].lines[v] > 0
                  THEN tx[t].holds[v] # None /\ tx[t].holds[v].quantity = tx[t].lines[v]
                  ELSE tx[t].holds[v] = None
             /\ tx[t].holds[v] # None =>
                  /\ tx[t].holds[v].box \in StoreBoxes
                  /\ \/ <<v, tx[t].holds[v].box>> \in tx[t].locks
                     \/ tx[t].holds[v] = doc[tx[t].doc].holds[v]

\* It still has sold lines to move.
Selling(t) == \/ tx[t].at = "choose"
              \/ tx[t].at = "balance" /\ tx[t].want[2] # Warehouse

\* The references whose units t has taken out of a box.
Taken(t) ==
    {v \in Variants : /\ tx[t].lines[v] > 0 /\ tx[t].at # "series"
                      /\ Selling(t) => v \notin tx[t].todo}

ChargeInv(t) ==
    tx[t].op = "charge" =>
        /\ tx[t].doc # None /\ doc[tx[t].doc].status = "DRAFT"
        /\ tx[t].lines = doc[tx[t].doc].lines
        /\ tx[t].at \in {"series", "choose", "balance", "restock"}
        /\ tx[t].at = "series" => /\ tx[t].holds = doc[tx[t].doc].holds
                                  /\ tx[t].locks = {}
        /\ tx[t].series <=> tx[t].at # "series"
        /\ tx[t].at = "balance" => tx[t].want # None /\ tx[t].want[1] \in tx[t].todo
        /\ \A v \in tx[t].todo : tx[t].lines[v] > 0
        /\ \A v \in Variants :
             /\ tx[t].holds[v] # None => tx[t].holds[v] = doc[tx[t].doc].holds[v]
             /\ tx[t].at # "series" =>
                  (tx[t].holds[v] # None <=>
                     /\ Selling(t) /\ v \in tx[t].todo
                     /\ ~(tx[t].at = "balance" /\ v = tx[t].want[1]))

\* v is taken out of one box, and saved as it will be there; or it is not touched.
SavesLess(t, v) ==
    \E b \in StoreBoxes :
        /\ tx[t].saves[<<v, b>>] = balance[<<v, b>>] - tx[t].lines[v]
        /\ \A c \in Boxes \ {b} : tx[t].saves[<<v, c>>] = None
SavesNone(t, v) == \A c \in Boxes : tx[t].saves[<<v, c>>] = None

TakenInv(t) ==
    tx[t].op = "charge" =>
        \A v \in Variants : /\ v \in Taken(t) => SavesLess(t, v)
                            /\ v \notin Taken(t) => SavesNone(t, v)

\* Its ends are locked from the lowest box on, and it saves what it read there.
MoveInv(t) ==
    LET ends == EndsOf(tx[t].from, tx[t].to)
        v    == tx[t].want[1]
    IN  tx[t].op = "move" =>
          /\ tx[t].doc = None /\ tx[t].holds = NoHolds /\ tx[t].ordered = Nothing
          /\ ~tx[t].series
          /\ tx[t].from # tx[t].to
          /\ tx[t].at \in {"balance", "commit"}
          /\ tx[t].want \in Places /\ tx[t].want[2] \in ends
          /\ \A p \in Places :
               tx[t].saves[p] = IF p \in tx[t].locks THEN balance[p] ELSE None
          /\ tx[t].at = "commit" => tx[t].locks = {<<v, b>> : b \in ends}
          /\ tx[t].at = "balance" =>
               /\ \A p \in tx[t].locks : p[1] = v /\ p[2] \in ends /\ p[2] < tx[t].want[2]
               /\ \A b \in ends : <<v, b>> \in tx[t].locks \/ tx[t].want[2] <= b

KnownInv(t) ==
    /\ LockedInv(t) /\ SyncInv(t) /\ ChargeInv(t) /\ TakenInv(t)
    /\ MoveInv(t) /\ PromiseInv(t)

StockIInv ==
    /\ ReservationsHold /\ UnitsConserved
    /\ Exclusive /\ HeldInStore
    /\ \A t \in Clients : KnownInv(t)

-----------------------------------------------------------------------------
(* Types, and what documents hold apart *)

HoldsRow == [Variants -> Hold \cup {None}]
Held(f, D, v, b) == SumFunction([d \in D |-> HeldAt(f[d].holds, v, b)])

LEMMA RowTypes ==
  ASSUME TypeOK
  PROVE  /\ \A p \in Places : balance[p] \in 0 .. MaxQty
         /\ \A v \in Variants : entered[v] \in Int /\ ordered[v] \in Nat
         /\ \A d \in Docs : doc[d] \in Doc
         /\ \A t \in Clients : tx[t] \in Transaction /\ tx[t].locks \subseteq Places
<1>1. \A t \in Clients : tx[t] \in Transaction
  BY DEF TypeOK
<1> QED
  BY <1>1 DEF TypeOK, Transaction

LEMMA Idlest == NoTransaction \in Transaction
BY ConstantsAssumption DEF NoTransaction, Transaction, Nothing, NoHolds

LEMMA HeldAtType ==
  ASSUME NEW h \in HoldsRow, NEW v \in Variants, NEW b
  PROVE  HeldAt(h, v, b) \in Nat
BY ConstantsAssumption DEF HoldsRow, HeldAt, Hold, Amounts

LEMMA HeldType ==
  ASSUME NEW f, \A d \in Docs : f[d].holds \in HoldsRow,
         NEW D \in SUBSET Docs, NEW v \in Variants, NEW b
  PROVE  Held(f, D, v, b) \in Nat
<1> DEFINE g == [d \in D |-> HeldAt(f[d].holds, v, b)]
<1>1. IsFiniteSet(D) /\ \A d \in D : g[d] \in Nat
  BY HeldAtType, ConstantsAssumption, FS_Subset
<1>2. SumFunctionOnSet(g, D) \in Nat
  <2> HIDE DEF g
  <2> QED
    BY <1>1, SumNat
<1> QED
  BY <1>2 DEF Held, SumFunction

\* Releasing holds, wherever they are, leaves less held apart.
LEMMA HeldLess ==
  ASSUME NEW f, \A d \in Docs : f[d].holds \in HoldsRow,
         NEW g, \A d \in Docs : g[d].holds \in HoldsRow,
         NEW D \in SUBSET Docs, NEW v \in Variants, NEW b,
         \A d \in D : HeldAt(g[d].holds, v, b) <= HeldAt(f[d].holds, v, b)
  PROVE  Held(g, D, v, b) <= Held(f, D, v, b)
<1> DEFINE F == [d \in D |-> HeldAt(f[d].holds, v, b)]
           G == [d \in D |-> HeldAt(g[d].holds, v, b)]
<1>1. IsFiniteSet(D) /\ \A d \in D : F[d] \in Int /\ G[d] \in Int /\ G[d] <= F[d]
  BY HeldAtType, ConstantsAssumption, FS_Subset
<1>2. SumFunctionOnSet(G, D) <= SumFunctionOnSet(F, D)
  <2> HIDE DEF F, G
  <2> QED
    BY <1>1, SumBounds
<1> QED
  BY <1>2 DEF Held, SumFunction

LEMMA HeldSame ==
  ASSUME NEW f, NEW g, NEW D \in SUBSET Docs, NEW v, NEW b,
         \A d \in D : f[d].holds = g[d].holds
  PROVE  Held(f, D, v, b) = Held(g, D, v, b)
<1> DEFINE F == [d \in D |-> HeldAt(f[d].holds, v, b)]
           G == [d \in D |-> HeldAt(g[d].holds, v, b)]
<1>1. F = G
  OBVIOUS
<1> QED
  BY <1>1 DEF Held

\* What one document holds, and what the others do.
LEMMA HeldWithout ==
  ASSUME NEW f, \A d \in Docs : f[d].holds \in HoldsRow,
         NEW d \in Docs, NEW v \in Variants, NEW b
  PROVE  Held(f, Docs, v, b) = Held(f, Docs \ {d}, v, b) + HeldAt(f[d].holds, v, b)
<1> DEFINE F == [e \in Docs |-> HeldAt(f[e].holds, v, b)]
           G == [e \in Docs \ {d} |-> HeldAt(f[e].holds, v, b)]
           R == Docs \ {d}
<1>1. IsFiniteSet(Docs) /\ IsFiniteSet(R) /\ \A e \in Docs : F[e] \in Int
  BY HeldAtType, ConstantsAssumption, FS_Subset
<1>2. \A e \in R : F[e] = G[e]
  OBVIOUS
<1>3. SumFunctionOnSet(F, Docs) = F[d] + SumFunctionOnSet(F, R)
  <2> HIDE DEF F
  <2> QED
    BY <1>1, SumRemove
<1>4. SumFunctionOnSet(F, R) = SumFunctionOnSet(G, R)
  <2> HIDE DEF F, G, R
  <2> QED
    BY <1>1, <1>2, SumSame
<1>5. SumFunctionOnSet(G, R) \in Int
  <2>1. \A e \in R : G[e] \in Int
    BY <1>1, <1>2
  <2> HIDE DEF G, R
  <2> QED
    BY <1>1, <2>1, SumType
<1> QED
  BY <1>1, <1>3, <1>4, <1>5 DEF Held, SumFunction

\* What t sees held apart: what the other sales hold, and what it would hold itself.
LEMMA ReservedIs ==
  ASSUME TypeOK, NEW t \in Clients, NEW v \in Variants, NEW b
  PROVE  /\ Reserved(t, v, b) =
              Held(doc, Docs \ {tx[t].doc}, v, b) + HeldAt(tx[t].holds, v, b)
                + OrderedAt(ordered, v, b) + OrderedAt(tx[t].ordered, v, b)
         /\ Held(doc, Docs \ {tx[t].doc}, v, b) \in Nat
         /\ HeldAt(tx[t].holds, v, b) \in Nat
         /\ OrderedAt(ordered, v, b) \in Nat /\ OrderedAt(tx[t].ordered, v, b) \in Nat
<1>1. Reserved(t, v, b) =
        Held(doc, Docs \ {tx[t].doc}, v, b) + HeldAt(tx[t].holds, v, b)
          + OrderedAt(ordered, v, b) + OrderedAt(tx[t].ordered, v, b)
  BY DEF Reserved, HeldByDocs, Held
<1>2. tx[t].holds \in HoldsRow /\ \A d \in Docs : doc[d].holds \in HoldsRow
  BY RowTypes DEF Transaction, Doc, HoldsRow
<1>3. OrderedAt(ordered, v, b) \in Nat /\ OrderedAt(tx[t].ordered, v, b) \in Nat
  BY RowTypes, ConstantsAssumption DEF OrderedAt, Transaction
<1>4. Held(doc, Docs \ {tx[t].doc}, v, b) \in Nat
  BY <1>2, HeldType
<1> QED
  BY <1>1, <1>2, <1>3, <1>4, HeldAtType

LEMMA ReservedType ==
  ASSUME TypeOK, NEW t \in Clients, NEW v \in Variants, NEW b
  PROVE  Reserved(t, v, b) \in Nat
<1> DEFINE R == Docs \ {tx[t].doc}
<1>1. /\ Reserved(t, v, b) =
           Held(doc, R, v, b) + HeldAt(tx[t].holds, v, b)
             + OrderedAt(ordered, v, b) + OrderedAt(tx[t].ordered, v, b)
      /\ Held(doc, R, v, b) \in Nat /\ HeldAt(tx[t].holds, v, b) \in Nat
      /\ OrderedAt(ordered, v, b) \in Nat /\ OrderedAt(tx[t].ordered, v, b) \in Nat
  BY ReservedIs
<1> HIDE DEF R
<1> QED
  BY <1>1

-----------------------------------------------------------------------------
(* What a step of one transaction leaves to the others *)

\* What u knows stays true while nobody changes its sale or the balances it has
\* locked, and what others hold there does not grow.
LEMMA OthersUndisturbed ==
  ASSUME TypeOK, TypeOK', NEW u \in Clients, KnownInv(u), tx'[u] = tx[u],
         tx[u].doc # None => doc'[tx[u].doc] = doc[tx[u].doc],
         \A p \in tx[u].locks :
           /\ balance'[p] = balance[p]
           /\ OrderedAt(ordered', p[1], p[2]) <= OrderedAt(ordered, p[1], p[2])
           /\ \A d \in Docs \ {tx[u].doc} :
                HeldAt(doc'[d].holds, p[1], p[2]) <= HeldAt(doc[d].holds, p[1], p[2])
  PROVE  KnownInv(u)'
<1>1. tx[u] \in Transaction /\ tx[u].locks \subseteq Places
  BY RowTypes DEF Transaction
<1>2. LockedInv(u)'
  BY DEF KnownInv, LockedInv
<1>3. SyncInv(u)'
  BY DEF KnownInv, SyncInv
<1>7. ChargeInv(u)'
  BY DEF KnownInv, ChargeInv, Selling
<1>4. TakenInv(u)'
  <2>1. SUFFICES ASSUME tx[u].op = "charge" PROVE TakenInv(u)'
    BY DEF TakenInv
  <2>2. Taken(u)' = Taken(u)
    BY DEF Taken, Selling
  <2>3. \A b \in Boxes, v \in Variants :
          tx[u].saves[<<v, b>>] # None => balance'[<<v, b>>] = balance[<<v, b>>]
    BY <1>1 DEF KnownInv, LockedInv, Places
  <2>4. \A v \in Variants, b \in StoreBoxes :
          balance[<<v, b>>] \in Int /\ tx[u].lines[v] \in Int
    BY <1>1, RowTypes DEF Places, Boxes, Transaction
  <2>5. ASSUME NEW v \in Taken(u), SavesLess(u, v) PROVE SavesLess(u, v)'
    <3>1. PICK b \in StoreBoxes :
                 /\ tx[u].saves[<<v, b>>] = balance[<<v, b>>] - tx[u].lines[v]
                 /\ \A c \in Boxes \ {b} : tx[u].saves[<<v, c>>] = None
      BY <2>5 DEF SavesLess
    <3>2. v \in Variants
      BY DEF Taken
    <3>3. balance'[<<v, b>>] = balance[<<v, b>>]
      BY <2>3, <2>4, <3>1, <3>2, ConstantsAssumption DEF Boxes
    <3> QED
      BY <3>1, <3>3 DEF SavesLess
  <2>6. ASSUME NEW v, SavesNone(u, v) PROVE SavesNone(u, v)'
    BY <2>6 DEF SavesNone
  <2> QED
    BY <2>1, <2>2, <2>5, <2>6 DEF KnownInv, TakenInv
<1>5. MoveInv(u)'
  BY DEF KnownInv, MoveInv
<1>6. PromiseInv(u)'
  <2> SUFFICES ASSUME NEW p \in tx[u].locks
               PROVE  Reserved(u, p[1], p[2])' <= Quantity(u, p)'
    BY DEF PromiseInv
  <2> DEFINE R == Docs \ {tx[u].doc}
  <2>1. p \in Places /\ p[1] \in Variants
    BY <1>1 DEF Places
  <2>2. Reserved(u, p[1], p[2]) <= Quantity(u, p)
    BY DEF KnownInv, PromiseInv
  <2>3. Quantity(u, p)' = Quantity(u, p) /\ Quantity(u, p) \in Int
    BY <1>1, <2>1, RowTypes DEF Quantity, Transaction
  <2>4. \A d \in Docs : doc[d].holds \in HoldsRow /\ doc'[d].holds \in HoldsRow
    BY DEF TypeOK, Doc, HoldsRow
  <2>5. Held(doc', R, p[1], p[2]) <= Held(doc, R, p[1], p[2])
    BY <2>1, <2>4, HeldLess
  <2>6. /\ Held(doc', R, p[1], p[2]) \in Int /\ Held(doc, R, p[1], p[2]) \in Int
        /\ OrderedAt(ordered', p[1], p[2]) \in Int /\ OrderedAt(ordered, p[1], p[2]) \in Int
    BY <2>1, <2>4, HeldType, ConstantsAssumption DEF OrderedAt, TypeOK
  <2>7. Reserved(u, p[1], p[2])' =
          Held(doc', R, p[1], p[2]) + HeldAt(tx[u].holds, p[1], p[2])
            + OrderedAt(ordered', p[1], p[2]) + OrderedAt(tx[u].ordered, p[1], p[2])
    BY DEF Reserved, HeldByDocs, Held
  <2>8. /\ Reserved(u, p[1], p[2]) =
             Held(doc, R, p[1], p[2]) + HeldAt(tx[u].holds, p[1], p[2])
               + OrderedAt(ordered, p[1], p[2]) + OrderedAt(tx[u].ordered, p[1], p[2])
        /\ HeldAt(tx[u].holds, p[1], p[2]) \in Int
        /\ OrderedAt(tx[u].ordered, p[1], p[2]) \in Int
    BY <2>1, ReservedIs
  <2>9. OrderedAt(ordered', p[1], p[2]) <= OrderedAt(ordered, p[1], p[2])
    OBVIOUS
  <2> HIDE DEF R
  <2> QED
    BY <2>2, <2>3, <2>5, <2>6, <2>7, <2>8, <2>9
<1> QED
  BY <1>2, <1>3, <1>4, <1>5, <1>6, <1>7 DEF KnownInv

\* A step of one transaction that commits nothing: the rows are as they were.
LEMMA NothingCommitted ==
  ASSUME StockIInv, NEW t \in Clients, NEW r \in Transaction,
         tx' = [tx EXCEPT ![t] = r], UNCHANGED <<balance, entered, doc, ordered>>,
         \A u \in Clients \ {t} :
           /\ r.locks \cap tx[u].locks = {}
           /\ r.doc # None => r.doc # tx[u].doc
           /\ ~(r.series /\ tx[u].series),
         KnownInv(t)'
  PROVE  StockIInv'
<1>1. TypeOK /\ Exclusive
  BY DEF StockIInv, ReservationsHold
<1>2. tx'[t] = r /\ \A u \in Clients \ {t} : tx'[u] = tx[u]
  BY <1>1 DEF TypeOK
<1>3. TypeOK'
  BY <1>1 DEF TypeOK
<1>4. NeverPromisedTwice' /\ HeldIsWhatIsCharged' /\ UnitsConserved' /\ HeldInStore'
  BY DEF StockIInv, ReservationsHold, NeverPromisedTwice, HeldIsWhatIsCharged,
         UnitsConserved, HeldInStore, HeldByDocs, UnitsIn
<1>5. Exclusive'
  BY <1>1, <1>2 DEF Exclusive
<1>6. ASSUME NEW u \in Clients \ {t} PROVE KnownInv(u)'
  <2>1. \A p \in tx[u].locks :
          /\ OrderedAt(ordered, p[1], p[2]) <= OrderedAt(ordered, p[1], p[2])
          /\ \A d \in Docs :
               HeldAt(doc[d].holds, p[1], p[2]) <= HeldAt(doc[d].holds, p[1], p[2])
    <3> TAKE p \in tx[u].locks
    <3>1. OrderedAt(ordered, p[1], p[2]) \in Int
      BY <1>1, RowTypes, ConstantsAssumption DEF OrderedAt, Places
    <3>2. ASSUME NEW d \in Docs PROVE HeldAt(doc[d].holds, p[1], p[2]) \in Int
      BY <1>1, RowTypes, HeldAtType DEF Places, Doc, HoldsRow
    <3> QED
      BY <3>1, <3>2
  <2> QED
    BY <1>1, <1>2, <1>3, <2>1, OthersUndisturbed DEF StockIInv
<1> QED
  BY <1>2, <1>3, <1>4, <1>5, <1>6 DEF StockIInv, ReservationsHold

-----------------------------------------------------------------------------
(* The first state *)

\* Nobody has sold anything.
LEMMA NoneSold ==
  ASSUME NEW f, \A d \in Docs : f[d].status # "COMPLETED", NEW v
  PROVE  SumFunction([d \in {e \in Docs : f[e].status = "COMPLETED"} |-> f[d].lines[v]]) = 0
<1> DEFINE D == {e \in Docs : f[e].status = "COMPLETED"}
           F == [d \in D |-> f[d].lines[v]]
<1>1. D = {}
  OBVIOUS
<1>2. SumFunctionOnSet(F, {}) = 0
  BY SumEmpty
<1>3. DOMAIN F = {}
  BY <1>1
<1> QED
  BY <1>2, <1>3 DEF SumFunction

LEMMA UnitsAreWhole ==
  ASSUME NEW stock \in [Places -> Int], NEW v \in Variants
  PROVE  UnitsIn(stock, v) \in Int
<1> DEFINE g == [b \in Boxes |-> stock[<<v, b>>]]
<1>1. IsFiniteSet(Boxes)
  BY ConstantsAssumption, FS_AddElement DEF Boxes
<1>2. \A b \in Boxes : g[b] \in Int
  BY DEF Places
<1>3. SumFunctionOnSet(g, Boxes) \in Int
  <2> HIDE DEF g
  <2> QED
    BY <1>1, <1>2, SumType
<1> QED
  BY <1>3 DEF UnitsIn, SumFunction

LEMMA NothingHeld ==
  ASSUME NEW f, \A d \in Docs : f[d].holds = NoHolds, NEW v \in Variants, NEW b
  PROVE  Held(f, Docs, v, b) = 0
<1> DEFINE g == [d \in Docs |-> HeldAt(f[d].holds, v, b)]
<1>1. \A d \in Docs : g[d] = 0
  BY DEF HeldAt, NoHolds
<1>2. SumFunctionOnSet(g, Docs) = 0
  <2> HIDE DEF g
  <2> QED
    BY <1>1, SumZero, ConstantsAssumption
<1> QED
  BY <1>2 DEF Held, SumFunction

\* A client that does nothing knows nothing.
LEMMA IdleKnows ==
  ASSUME NEW t \in Clients, tx[t] = NoTransaction
  PROVE  KnownInv(t)
<1>1. LockedInv(t)
  BY DEF LockedInv, NoTransaction, Nothing
<1>2. SyncInv(t) /\ ChargeInv(t) /\ TakenInv(t) /\ MoveInv(t)
  BY DEF SyncInv, ChargeInv, TakenInv, MoveInv, NoTransaction
<1>3. PromiseInv(t)
  BY DEF PromiseInv, NoTransaction
<1> QED
  BY <1>1, <1>2, <1>3 DEF KnownInv

LEMMA IdleKnowsNext ==
  ASSUME NEW t \in Clients, tx'[t] = NoTransaction
  PROVE  KnownInv(t)'
<1>1. LockedInv(t)'
  BY DEF LockedInv, NoTransaction, Nothing
<1>2. SyncInv(t)' /\ ChargeInv(t)' /\ TakenInv(t)' /\ MoveInv(t)'
  BY DEF SyncInv, ChargeInv, TakenInv, MoveInv, NoTransaction
<1>3. PromiseInv(t)'
  BY DEF PromiseInv, NoTransaction
<1> QED
  BY <1>1, <1>2, <1>3 DEF KnownInv

LEMMA InitHolds == ASSUME Init PROVE StockIInv
<1>1. TypeOK
  <2>1. entered \in [Variants -> Int]
    <3>1. balance \in [Places -> Int]
      BY ConstantsAssumption DEF Init
    <3> QED
      BY <3>1, UnitsAreWhole DEF Init
  <2>2. doc \in [Docs -> Doc] /\ ordered \in [Variants -> Nat]
    BY ConstantsAssumption DEF Init, Doc, Nothing, NoHolds
  <2>3. tx \in [Clients -> Transaction]
    BY Idlest DEF Init
  <2> QED
    BY <2>1, <2>2, <2>3 DEF Init, TypeOK
<1>2. NeverPromisedTwice
  <2> SUFFICES ASSUME NEW v \in Variants, NEW b \in Boxes
               PROVE HeldByDocs(Docs, v, b) + OrderedAt(ordered, v, b) <= balance[<<v, b>>]
    BY DEF NeverPromisedTwice
  <2>1. HeldByDocs(Docs, v, b) = 0
    <3>1. Held(doc, Docs, v, b) = 0
      BY NothingHeld DEF Init
    <3> QED
      BY <3>1 DEF Held, HeldByDocs
  <2>2. OrderedAt(ordered, v, b) = 0
    BY DEF OrderedAt, Init, Nothing
  <2>3. balance[<<v, b>>] \in Nat
    BY RowTypes, <1>1 DEF Places
  <2> QED
    BY <2>1, <2>2, <2>3
<1>3. HeldIsWhatIsCharged /\ HeldInStore /\ Exclusive
  BY DEF HeldIsWhatIsCharged, HeldInStore, Exclusive, Init, NoHolds, NoTransaction
<1>4. UnitsConserved
  <2> SUFFICES ASSUME NEW v \in Variants
               PROVE UnitsIn(balance, v) = entered[v] -
                       SumFunction([d \in {e \in Docs : doc[e].status = "COMPLETED"} |->
                                      doc[d].lines[v]])
    BY DEF UnitsConserved
  <2>1. SumFunction([d \in {e \in Docs : doc[e].status = "COMPLETED"} |-> doc[d].lines[v]]) = 0
    BY NoneSold DEF Init
  <2>2. entered[v] = UnitsIn(balance, v)
    BY DEF Init
  <2>3. entered[v] \in Int
    BY <1>1, RowTypes
  <2> QED
    BY <2>1, <2>2, <2>3
<1>5. \A t \in Clients : KnownInv(t)
  BY IdleKnows DEF Init
<1> QED
  BY <1>1, <1>2, <1>3, <1>4, <1>5 DEF StockIInv, ReservationsHold

-----------------------------------------------------------------------------
(* A sale is built *)

\* A transaction begins with a sale nobody else has, and no balance.
LEMMA Begins ==
  ASSUME StockIInv, NEW t \in Clients, NEW r \in Transaction,
         tx' = [tx EXCEPT ![t] = r], UNCHANGED <<balance, entered, doc, ordered>>,
         r.locks = {}, ~r.series, r.doc # None => DocFree(r.doc), KnownInv(t)'
  PROVE  StockIInv'
BY NothingCommitted, Zenon DEF DocFree

LEMMA BeginSyncKeeps ==
  ASSUME StockIInv, NEW t \in Clients, NEW d \in Docs, NEW lines \in [Variants -> 0 .. MaxLine],
         DocFree(d), doc[d].status \in {"NONE", "DRAFT"},
         BeginSync(t, d, lines), UNCHANGED <<balance, entered, doc, ordered>>
  PROVE  StockIInv'
<1> DEFINE differ == Differ(doc[d].holds, lines)
           todo   == {v \in differ : lines[v] > 0}
           holds  == [v \in Variants |-> IF v \in differ THEN None ELSE doc[d].holds[v]]
           r == [NoTransaction EXCEPT
                   !.op = "sync", !.at = NextLine("sync", todo), !.doc = d,
                   !.lines = lines, !.todo = todo, !.holds = holds]
<1>1. tx' = [tx EXCEPT ![t] = r]
  BY DEF BeginSync, Start
<1>2. TypeOK /\ HeldInStore /\ doc[d] \in Doc
  BY RowTypes DEF StockIInv, ReservationsHold
<1>3. todo \subseteq Variants /\ holds \in HoldsRow
  BY <1>2 DEF Differ, Doc, HoldsRow
<1>4. NextLine("sync", todo) = IF todo # {} THEN "choose" ELSE "commit"
  BY DEF NextLine
<1>5. \A v \in Variants :
        /\ v \in todo => lines[v] > 0 /\ holds[v] = None
        /\ v \notin todo => IF lines[v] > 0
                            THEN holds[v] # None /\ holds[v].quantity = lines[v]
                            ELSE holds[v] = None
        /\ holds[v] # None => holds[v].box \in StoreBoxes /\ holds[v] = doc[d].holds[v]
  <2> TAKE v \in Variants
  <2>1. doc[d].holds[v] \in Hold \cup {None} /\ lines[v] \in 0 .. MaxLine
    BY <1>2 DEF Doc
  <2>2. doc[d].holds[v] # None => /\ doc[d].holds[v].box \in StoreBoxes
                                  /\ doc[d].holds[v].quantity \in Amounts
    BY <1>2, <2>1 DEF HeldInStore, Hold
  <2>3. CASE v \in differ
    BY <2>1, <2>3
  <2>4. CASE v \notin differ
    BY <2>1, <2>2, <2>4, ConstantsAssumption DEF Differ, Amounts
  <2> QED
    BY <2>3, <2>4
<1> HIDE DEF differ, todo, holds
<1>6. /\ r \in Transaction
      /\ r.op = "sync" /\ r.at = (IF todo # {} THEN "choose" ELSE "commit")
      /\ r.doc = d /\ r.lines = lines /\ r.holds = holds /\ r.todo = todo /\ r.want = None
      /\ r.saves = [p \in Places |-> None] /\ r.ordered = Nothing
      /\ r.series = FALSE /\ r.locks = {}
  BY <1>3, <1>4, Idlest DEF NoTransaction, Transaction, HoldsRow
<1>7. tx'[t] = r
  BY <1>1, <1>2 DEF TypeOK
<1> HIDE DEF r
<1>8. KnownInv(t)'
  <2>1. LockedInv(t)'
    BY <1>6, <1>7 DEF LockedInv, Nothing
  <2>2. SyncInv(t)'
    BY <1>5, <1>6, <1>7, ConstantsAssumption DEF SyncInv
  <2>3. ChargeInv(t)' /\ TakenInv(t)' /\ MoveInv(t)' /\ PromiseInv(t)'
    BY <1>6, <1>7 DEF ChargeInv, TakenInv, MoveInv, PromiseInv
  <2> QED
    BY <2>1, <2>2, <2>3 DEF KnownInv
<1> QED
  BY <1>1, <1>6, <1>8, Begins

LEMMA LockForEditKeeps ==
  ASSUME StockIInv, NEW t \in Clients, NEW d \in Docs, NEW v \in Variants,
         NEW amount \in 0 .. MaxLine, LockForEdit(t, d, v, amount)
  PROVE  StockIInv'
<1>1. [doc[d].lines EXCEPT ![v] = amount] \in [Variants -> 0 .. MaxLine]
  BY RowTypes DEF StockIInv, ReservationsHold, Doc
<1> QED
  BY <1>1, BeginSyncKeeps DEF LockForEdit

LEMMA CreateKeeps ==
  ASSUME StockIInv, NEW t \in Clients, NEW d \in Docs,
         NEW lines \in [Variants -> 0 .. MaxLine], Create(t, d, lines)
  PROVE  StockIInv'
BY BeginSyncKeeps DEF Create

\* A transaction goes on: it locks at most a balance that is nobody's.
LEMMA Advances ==
  ASSUME StockIInv, NEW t \in Clients, NEW r \in Transaction,
         tx' = [tx EXCEPT ![t] = r], UNCHANGED <<balance, entered, doc, ordered>>,
         r.doc = tx[t].doc, r.series = tx[t].series,
         \A p \in r.locks : p \in tx[t].locks \/ PlaceFree(p),
         KnownInv(t)'
  PROVE  StockIInv'
<1>1. Exclusive
  BY DEF StockIInv
<1>2. \A u \in Clients \ {t} :
        /\ r.locks \cap tx[u].locks = {}
        /\ r.doc # None => r.doc # tx[u].doc
        /\ ~(r.series /\ tx[u].series)
  BY <1>1 DEF Exclusive, PlaceFree
<1> QED
  BY <1>2, NothingCommitted, Zenon

\* What t knows, one part at a time.
LEMMA Knows ==
  ASSUME StockIInv, NEW t \in Clients
  PROVE  /\ TypeOK /\ tx[t] \in Transaction /\ tx[t].locks \subseteq Places
         /\ LockedInv(t) /\ SyncInv(t) /\ ChargeInv(t) /\ TakenInv(t)
         /\ MoveInv(t) /\ PromiseInv(t)
BY RowTypes DEF StockIInv, ReservationsHold, KnownInv

LEMMA ChooseBoxKeeps ==
  ASSUME StockIInv, NEW t \in Clients, NEW v \in Variants, NEW b \in StoreBoxes,
         ChooseBox(t, v, b)
  PROVE  StockIInv'
<1> DEFINE r == [tx[t] EXCEPT !.at = "balance", !.want = <<v, b>>]
<1>1. /\ TypeOK /\ tx[t] \in Transaction /\ LockedInv(t) /\ SyncInv(t) /\ PromiseInv(t)
      /\ tx[t].op = "sync" /\ tx[t].at = "choose" /\ v \in tx[t].todo
      /\ UNCHANGED <<balance, entered, doc, ordered>>
  BY Knows DEF ChooseBox
<1>2. tx' = [tx EXCEPT ![t] = r]
  BY <1>1 DEF ChooseBox, TypeOK
<1>3. <<v, b>> \in Places /\ b \in StoreBoxes
  BY DEF Places, Boxes
<1>4. /\ r \in Transaction /\ r.op = "sync" /\ r.at = "balance" /\ r.want = <<v, b>>
      /\ r.doc = tx[t].doc /\ r.lines = tx[t].lines /\ r.holds = tx[t].holds
      /\ r.todo = tx[t].todo /\ r.saves = tx[t].saves /\ r.ordered = tx[t].ordered
      /\ r.series = tx[t].series /\ r.locks = tx[t].locks
  BY <1>1, <1>3 DEF Transaction
<1>5. tx'[t] = r
  BY <1>1, <1>2 DEF TypeOK
<1> HIDE DEF r
<1>6. KnownInv(t)'
  <2>1. LockedInv(t)'
    BY <1>1, <1>3, <1>4, <1>5 DEF LockedInv
  <2>2. SyncInv(t)'
    BY <1>1, <1>3, <1>4, <1>5, ConstantsAssumption DEF SyncInv
  <2>3. ChargeInv(t)' /\ TakenInv(t)' /\ MoveInv(t)'
    BY <1>4, <1>5 DEF ChargeInv, TakenInv, MoveInv
  <2>4. PromiseInv(t)'
    BY <1>1, <1>4, <1>5 DEF PromiseInv, Reserved, Quantity, HeldByDocs
  <2> QED
    BY <2>1, <2>2, <2>3, <2>4 DEF KnownInv
<1> QED
  BY <1>1, <1>2, <1>4, <1>6, Advances

\* What t sees held apart changes by what it would hold itself.
LEMMA ReservedNext ==
  ASSUME TypeOK, NEW t \in Clients, UNCHANGED <<doc, ordered>>,
         tx'[t] \in Transaction, tx'[t].doc = tx[t].doc, NEW v \in Variants, NEW b
  PROVE  /\ Reserved(t, v, b)' = Reserved(t, v, b)
              - HeldAt(tx[t].holds, v, b) + HeldAt(tx'[t].holds, v, b)
              - OrderedAt(tx[t].ordered, v, b) + OrderedAt(tx'[t].ordered, v, b)
         /\ Reserved(t, v, b) \in Nat
         /\ HeldAt(tx[t].holds, v, b) \in Nat /\ HeldAt(tx'[t].holds, v, b) \in Nat
         /\ OrderedAt(tx[t].ordered, v, b) \in Nat /\ OrderedAt(tx'[t].ordered, v, b) \in Nat
<1> DEFINE R == Docs \ {tx[t].doc}
<1>1. /\ Reserved(t, v, b) =
           Held(doc, R, v, b) + HeldAt(tx[t].holds, v, b)
             + OrderedAt(ordered, v, b) + OrderedAt(tx[t].ordered, v, b)
      /\ Held(doc, R, v, b) \in Nat /\ HeldAt(tx[t].holds, v, b) \in Nat
      /\ OrderedAt(ordered, v, b) \in Nat /\ OrderedAt(tx[t].ordered, v, b) \in Nat
  BY ReservedIs
<1>2. Reserved(t, v, b)' =
        Held(doc, R, v, b) + HeldAt(tx'[t].holds, v, b)
          + OrderedAt(ordered, v, b) + OrderedAt(tx'[t].ordered, v, b)
  BY DEF Reserved, HeldByDocs, Held
<1>3. HeldAt(tx'[t].holds, v, b) \in Nat /\ OrderedAt(tx'[t].ordered, v, b) \in Nat
  BY HeldAtType, ConstantsAssumption DEF Transaction, HoldsRow, OrderedAt
<1> HIDE DEF R
<1> QED
  BY <1>1, <1>2, <1>3

\* Committing, or not, t sees balances between nothing and the greatest.
LEMMA QuantityType ==
  ASSUME TypeOK, NEW t \in Clients, NEW p \in Places
  PROVE  Quantity(t, p) \in 0 .. MaxQty /\ Quantity(t, p) \in Int
<1>1. tx[t].saves[p] \in (0 .. MaxQty) \cup {None} /\ balance[p] \in 0 .. MaxQty
  BY RowTypes DEF Transaction
<1> QED
  BY <1>1, ConstantsAssumption DEF Quantity

LEMMA ReserveKeeps ==
  ASSUME StockIInv, NEW t \in Clients, Reserve(t)
  PROVE  StockIInv'
<1> DEFINE p    == tx[t].want
           v    == p[1]
           left == tx[t].todo \ {v}
           hold == [box |-> p[2], quantity |-> tx[t].lines[v]]
           at   == IF left # {} THEN "choose" ELSE "commit"
           r    == [tx[t] EXCEPT !.at = at, !.todo = left, !.want = None,
                                 !.locks = tx[t].locks \cup {p},
                                 !.holds = [tx[t].holds EXCEPT ![v] = hold]]
<1>1. /\ TypeOK /\ tx[t] \in Transaction /\ LockedInv(t) /\ SyncInv(t) /\ PromiseInv(t)
      /\ tx[t].locks \subseteq Places
      /\ UNCHANGED <<balance, entered, doc, ordered>>
  BY Knows DEF Reserve
<1>2. /\ tx[t].op = "sync" /\ tx[t].at = "balance" /\ PlaceFree(p)
      /\ Available(t, p) >= tx[t].lines[v]
  BY DEF Reserve, Granted
<1>3. /\ p \in Places /\ p = <<v, p[2]>> /\ v \in Variants /\ v \in tx[t].todo
      /\ p[2] \in StoreBoxes /\ p[2] \in Boxes
      /\ tx[t].lines[v] > 0 /\ tx[t].holds[v] = None /\ tx[t].ordered = Nothing
      /\ tx[t].lines[v] \in Amounts
  <2>1. p \in Places
    BY <1>1, <1>2 DEF SyncInv, LockedInv
  <2>2. v \in Variants
    BY <2>1 DEF Places
  <2>3. tx[t].lines[v] \in 0 .. MaxLine
    BY <1>1, <2>2 DEF Transaction
  <2>4. v \in tx[t].todo /\ p[2] \in StoreBoxes /\ tx[t].ordered = Nothing
    BY <1>1, <1>2 DEF SyncInv
  <2>5. tx[t].lines[v] > 0 /\ tx[t].holds[v] = None
    BY <1>1, <1>2, <2>2, <2>4 DEF SyncInv
  <2>6. p = <<v, p[2]>> /\ p[2] \in Boxes
    BY <2>1 DEF Places
  <2>7. tx[t].lines[v] \in Amounts
    <3> HIDE DEF v
    <3> QED
      BY <2>3, <2>5, ConstantsAssumption DEF Amounts
  <2> QED
    BY <2>1, <2>2, <2>4, <2>5, <2>6, <2>7
<1>4. NextLine("sync", left) = at
  BY DEF NextLine
<1>5. tx' = [tx EXCEPT ![t] = r]
  BY <1>1, <1>3, <1>4 DEF Reserve, TakeHold, TypeOK, Transaction
<1>6. hold \in Hold /\ hold # None /\ hold.box = p[2] /\ hold.quantity = tx[t].lines[v]
  BY <1>3, ConstantsAssumption DEF Hold
<1> HIDE DEF left, hold, at
<1>7. /\ r \in Transaction /\ r.op = "sync" /\ r.at = at /\ r.want = None
      /\ r.doc = tx[t].doc /\ r.lines = tx[t].lines
      /\ r.holds = [tx[t].holds EXCEPT ![v] = hold]
      /\ r.todo = left /\ r.saves = tx[t].saves /\ r.ordered = tx[t].ordered
      /\ r.series = tx[t].series /\ r.locks = tx[t].locks \cup {p}
  <2>1. at \in {"choose", "commit"} /\ left \subseteq Variants
    BY <1>1 DEF at, left, Transaction
  <2>2. [tx[t].holds EXCEPT ![v] = hold] \in [Variants -> Hold \cup {None}]
    BY <1>1, <1>6 DEF Transaction
  <2>3. tx[t].locks \cup {p} \subseteq Places
    BY <1>1, <1>3
  <2> HIDE DEF p, v
  <2>4. r \in Transaction
    BY <1>1, <2>1, <2>2, <2>3 DEF Transaction
  <2> QED
    BY <1>1, <1>2, <2>4 DEF Transaction
<1>8. /\ \A w \in Variants \ {v} : r.holds[w] = tx[t].holds[w]
      /\ r.holds[v] = hold
  BY <1>1, <1>3, <1>7 DEF Transaction
<1>9. tx'[t] = r
  BY <1>1, <1>5 DEF TypeOK
<1> HIDE DEF r
<1>10. KnownInv(t)'
  <2>1. LockedInv(t)'
    BY <1>1, <1>2, <1>7, <1>9 DEF LockedInv, at
  <2>2. SyncInv(t)'
    <3>1. \A w \in Variants :
            /\ w \in r.todo => r.lines[w] > 0 /\ r.holds[w] = None
            /\ w \notin r.todo =>
                 IF r.lines[w] > 0 THEN r.holds[w] # None /\ r.holds[w].quantity = r.lines[w]
                                   ELSE r.holds[w] = None
            /\ r.holds[w] # None => /\ r.holds[w].box \in StoreBoxes
                                    /\ \/ <<w, r.holds[w].box>> \in r.locks
                                       \/ r.holds[w] = doc[r.doc].holds[w]
      <4> TAKE w \in Variants
      <4>1. CASE w = v
        BY <1>3, <1>6, <1>7, <1>8, <4>1 DEF left
      <4>2. CASE w # v
        BY <1>1, <1>2, <1>7, <1>8, <4>2 DEF SyncInv, left
      <4> QED
        BY <4>1, <4>2
    <3> QED
      BY <1>1, <1>2, <1>7, <1>9, <3>1 DEF SyncInv, at
  <2>3. ChargeInv(t)' /\ TakenInv(t)' /\ MoveInv(t)'
    BY <1>7, <1>9 DEF ChargeInv, TakenInv, MoveInv
  <2>4. PromiseInv(t)'
    <3> SUFFICES ASSUME NEW q \in tx[t].locks \cup {p}
                 PROVE  Reserved(t, q[1], q[2])' <= Quantity(t, q)'
      BY <1>7, <1>9 DEF PromiseInv
    <3>1. q \in Places /\ q[1] \in Variants /\ q = <<q[1], q[2]>>
      BY <1>1, <1>3 DEF Places
    <3>2. /\ Reserved(t, q[1], q[2])' = Reserved(t, q[1], q[2])
               - HeldAt(tx[t].holds, q[1], q[2]) + HeldAt(r.holds, q[1], q[2])
          /\ Reserved(t, q[1], q[2]) \in Nat
          /\ HeldAt(tx[t].holds, q[1], q[2]) \in Nat /\ HeldAt(r.holds, q[1], q[2]) \in Nat
      <4>1. OrderedAt(tx[t].ordered, q[1], q[2]) = OrderedAt(r.ordered, q[1], q[2])
        BY <1>7
      <4> QED
        BY <1>1, <1>7, <1>9, <3>1, <4>1, ReservedNext
    <3>3. Quantity(t, q)' = Quantity(t, q) /\ Quantity(t, q) \in Int
      BY <1>1, <1>7, <1>9, <3>1, QuantityType DEF Quantity
    <3>4. CASE q = p
      <4>1. HeldAt(tx[t].holds, v, p[2]) = 0 /\ HeldAt(r.holds, v, p[2]) = tx[t].lines[v]
        BY <1>3, <1>6, <1>8 DEF HeldAt
      <4>2. tx[t].lines[v] \in Int
        BY <1>3, ConstantsAssumption DEF Amounts
      <4> QED
        BY <1>2, <3>2, <3>3, <3>4, <4>1, <4>2 DEF Available
    <3>5. CASE q # p
      <4>1. HeldAt(tx[t].holds, q[1], q[2]) = HeldAt(r.holds, q[1], q[2])
        <5>1. CASE q[1] = v
          BY <1>3, <1>6, <1>8, <3>1, <3>5, <5>1 DEF HeldAt
        <5>2. CASE q[1] # v
          BY <1>8, <3>1, <5>2 DEF HeldAt
        <5> QED
          BY <5>1, <5>2
      <4>2. Reserved(t, q[1], q[2]) <= Quantity(t, q)
        BY <1>1, <3>5 DEF PromiseInv
      <4> QED
        BY <3>2, <3>3, <4>1, <4>2
    <3> QED
      BY <3>4, <3>5
  <2> QED
    BY <2>1, <2>2, <2>3, <2>4 DEF KnownInv
<1> QED
  BY <1>1, <1>2, <1>5, <1>7, <1>10, Advances

-----------------------------------------------------------------------------
(* What a commit leaves *)

\* The units of v of the sales charged.
Sold(f, v) == SumFunction([d \in {e \in Docs : f[e].status = "COMPLETED"} |-> f[d].lines[v]])

LEMMA SoldSame ==
  ASSUME NEW f, NEW g, NEW v,
         \A d \in Docs : f[d].status = "COMPLETED" <=> g[d].status = "COMPLETED",
         \A d \in Docs : f[d].status = "COMPLETED" => f[d].lines = g[d].lines
  PROVE  Sold(g, v) = Sold(f, v)
<1> DEFINE F == [d \in {e \in Docs : f[e].status = "COMPLETED"} |-> f[d].lines[v]]
           G == [d \in {e \in Docs : g[e].status = "COMPLETED"} |-> g[d].lines[v]]
<1>1. {e \in Docs : f[e].status = "COMPLETED"} = {e \in Docs : g[e].status = "COMPLETED"}
  OBVIOUS
<1>2. F = G
  BY <1>1
<1> QED
  BY <1>2 DEF Sold

LEMMA SoldIsWhole ==
  ASSUME TypeOK, NEW v \in Variants
  PROVE  Sold(doc, v) \in Int
<1> DEFINE D == {e \in Docs : doc[e].status = "COMPLETED"}
           F == [d \in D |-> doc[d].lines[v]]
<1>1. IsFiniteSet(D)
  BY ConstantsAssumption, FS_Subset
<1>2. \A d \in D : F[d] \in Int
  BY RowTypes, ConstantsAssumption DEF Doc
<1>3. SumFunctionOnSet(F, D) \in Int
  <2> HIDE DEF D, F
  <2> QED
    BY <1>1, <1>2, SumType
<1> QED
  BY <1>3 DEF Sold, SumFunction

\* What t saw held apart is what all will see when its sale holds what t says.
LEMMA ReservedIsHeld ==
  ASSUME TypeOK, NEW t \in Clients, tx[t].doc \in Docs,
         NEW g, g[tx[t].doc].holds = tx[t].holds,
         \A d \in Docs \ {tx[t].doc} : g[d].holds = doc[d].holds,
         NEW v \in Variants, NEW b
  PROVE  /\ Held(g, Docs, v, b) = Reserved(t, v, b)
              - OrderedAt(ordered, v, b) - OrderedAt(tx[t].ordered, v, b)
         /\ Reserved(t, v, b) \in Nat
         /\ OrderedAt(ordered, v, b) \in Nat /\ OrderedAt(tx[t].ordered, v, b) \in Nat
<1> DEFINE R == Docs \ {tx[t].doc}
<1>1. \A d \in Docs : g[d].holds \in HoldsRow
  <2>1. tx[t].holds \in HoldsRow /\ \A d \in Docs : doc[d].holds \in HoldsRow
    BY RowTypes DEF Doc, Transaction, HoldsRow
  <2> QED
    BY <2>1
<1>2. Held(g, Docs, v, b) = Held(g, R, v, b) + HeldAt(tx[t].holds, v, b)
  <2>1. PICK d \in Docs : d = tx[t].doc
    OBVIOUS
  <2>2. Held(g, Docs, v, b) = Held(g, Docs \ {d}, v, b) + HeldAt(g[d].holds, v, b)
    BY <1>1, HeldWithout
  <2> QED
    BY <2>1, <2>2
<1>3. Held(g, R, v, b) = Held(doc, R, v, b)
  BY HeldSame
<1>4. /\ Reserved(t, v, b) =
           Held(doc, R, v, b) + HeldAt(tx[t].holds, v, b)
             + OrderedAt(ordered, v, b) + OrderedAt(tx[t].ordered, v, b)
      /\ Held(doc, R, v, b) \in Nat /\ HeldAt(tx[t].holds, v, b) \in Nat
      /\ OrderedAt(ordered, v, b) \in Nat /\ OrderedAt(tx[t].ordered, v, b) \in Nat
  BY ReservedIs
<1> HIDE DEF R
<1> QED
  BY <1>2, <1>3, <1>4

\* Where less is held apart than before, there is still enough.
LEMMA StillThere ==
  ASSUME TypeOK, TypeOK', NeverPromisedTwice, NEW v \in Variants, NEW b \in Boxes,
         \A d \in Docs : HeldAt(doc'[d].holds, v, b) <= HeldAt(doc[d].holds, v, b),
         OrderedAt(ordered', v, b) <= OrderedAt(ordered, v, b),
         balance'[<<v, b>>] = balance[<<v, b>>]
  PROVE  Held(doc', Docs, v, b) + OrderedAt(ordered', v, b) <= balance'[<<v, b>>]
<1>1. \A d \in Docs : doc[d].holds \in HoldsRow /\ doc'[d].holds \in HoldsRow
  BY DEF TypeOK, Doc, HoldsRow
<1>2. Held(doc', Docs, v, b) <= Held(doc, Docs, v, b)
  BY <1>1, HeldLess
<1>3. Held(doc', Docs, v, b) \in Nat /\ Held(doc, Docs, v, b) \in Nat
  BY <1>1, HeldType
<1>4. /\ OrderedAt(ordered', v, b) \in Nat /\ OrderedAt(ordered, v, b) \in Nat
      /\ balance[<<v, b>>] \in Nat
  BY ConstantsAssumption DEF OrderedAt, TypeOK, Places
<1>5. Held(doc, Docs, v, b) + OrderedAt(ordered, v, b) <= balance[<<v, b>>]
  BY DEF NeverPromisedTwice, HeldByDocs, Held
<1> QED
  BY <1>2, <1>3, <1>4, <1>5

\* A commit changes its own sale, and the balances it has locked, or releases holds.
LEMMA Commits ==
  ASSUME StockIInv, NEW t \in Clients, tx' = [tx EXCEPT ![t] = NoTransaction],
         TypeOK', NeverPromisedTwice', HeldIsWhatIsCharged', UnitsConserved', HeldInStore',
         \A d \in Docs : d # tx[t].doc => doc'[d] = doc[d],
         \A p \in Places \ tx[t].locks :
           /\ balance'[p] = balance[p]
           /\ OrderedAt(ordered', p[1], p[2]) <= OrderedAt(ordered, p[1], p[2])
           /\ \A d \in Docs :
                HeldAt(doc'[d].holds, p[1], p[2]) <= HeldAt(doc[d].holds, p[1], p[2])
  PROVE  StockIInv'
<1>1. TypeOK /\ Exclusive
  BY DEF StockIInv, ReservationsHold
<1>2. tx'[t] = NoTransaction /\ \A u \in Clients \ {t} : tx'[u] = tx[u]
  BY <1>1 DEF TypeOK
<1>3. Exclusive'
  BY <1>1, <1>2 DEF Exclusive, NoTransaction
<1>4. KnownInv(t)'
  BY <1>2, IdleKnowsNext
<1>5. ASSUME NEW u \in Clients \ {t} PROVE KnownInv(u)'
  <2>1. tx[u].locks \cap tx[t].locks = {} /\ tx[u].locks \subseteq Places
    BY <1>1, RowTypes DEF Exclusive
  <2>2. tx[u].doc # None => tx[u].doc # tx[t].doc /\ tx[u].doc \in Docs
    BY <1>1, RowTypes DEF Exclusive, Transaction
  <2>3. KnownInv(u)
    BY DEF StockIInv
  <2>4. tx[u].doc # None => doc'[tx[u].doc] = doc[tx[u].doc]
    BY <2>2
  <2>5. \A p \in tx[u].locks :
           /\ balance'[p] = balance[p]
           /\ OrderedAt(ordered', p[1], p[2]) <= OrderedAt(ordered, p[1], p[2])
           /\ \A d \in Docs \ {tx[u].doc} :
                HeldAt(doc'[d].holds, p[1], p[2]) <= HeldAt(doc[d].holds, p[1], p[2])
    BY <2>1
  <2> QED
    BY <1>1, <1>2, <2>3, <2>4, <2>5, OthersUndisturbed
<1> QED
  BY <1>3, <1>4, <1>5 DEF StockIInv, ReservationsHold

\* What can be told of the sales of a step that moves no units.
LEMMA ConservedSame ==
  ASSUME UnitsConserved, balance' = balance, entered' = entered,
         \A d \in Docs : doc[d].status = "COMPLETED" <=> doc'[d].status = "COMPLETED",
         \A d \in Docs : doc[d].status = "COMPLETED" => doc[d].lines = doc'[d].lines
  PROVE  UnitsConserved'
<1> SUFFICES ASSUME NEW v \in Variants
             PROVE  UnitsIn(balance', v) = entered'[v] - Sold(doc', v)
  BY DEF UnitsConserved, Sold
<1>1. Sold(doc', v) = Sold(doc, v)
  BY SoldSame
<1>2. UnitsIn(balance, v) = entered[v] - Sold(doc, v)
  BY DEF UnitsConserved, Sold
<1> QED
  BY <1>1, <1>2

LEMMA CommitSyncKeeps ==
  ASSUME StockIInv, NEW t \in Clients, CommitSync(t)
  PROVE  StockIInv'
<1> DEFINE d == tx[t].doc
<1>1. /\ TypeOK /\ tx[t] \in Transaction /\ LockedInv(t) /\ SyncInv(t) /\ PromiseInv(t)
      /\ tx[t].locks \subseteq Places
      /\ NeverPromisedTwice /\ HeldIsWhatIsCharged /\ UnitsConserved /\ HeldInStore
      /\ balance' = balance /\ entered' = entered /\ ordered' = ordered
      /\ tx' = [tx EXCEPT ![t] = NoTransaction]
  BY Knows DEF CommitSync, Finish, StockIInv, ReservationsHold
<1>2. /\ tx[t].op = "sync" /\ tx[t].at = "commit"
      /\ doc' = [doc EXCEPT ![d] = [status |-> "DRAFT", lines |-> tx[t].lines,
                                    holds |-> tx[t].holds]]
  BY DEF CommitSync
<1>3. d \in Docs /\ doc[d].status \in {"NONE", "DRAFT"}
  BY <1>1, <1>2 DEF SyncInv, Transaction
<1>4. /\ \A e \in Docs \ {d} : doc'[e] = doc[e]
      /\ doc'[d].status = "DRAFT" /\ doc'[d].lines = tx[t].lines
      /\ doc'[d].holds = tx[t].holds
  BY <1>1, <1>2, <1>3 DEF TypeOK
<1>5. \A v \in Variants :
        /\ IF tx[t].lines[v] > 0
           THEN tx[t].holds[v] # None /\ tx[t].holds[v].quantity = tx[t].lines[v]
           ELSE tx[t].holds[v] = None
        /\ tx[t].holds[v] # None => /\ tx[t].holds[v].box \in StoreBoxes
                                    /\ \/ <<v, tx[t].holds[v].box>> \in tx[t].locks
                                       \/ tx[t].holds[v] = doc[d].holds[v]
  BY <1>1, <1>2 DEF SyncInv
<1>6. TypeOK'
  <2>1. [status |-> "DRAFT", lines |-> tx[t].lines, holds |-> tx[t].holds] \in Doc
    BY <1>1 DEF Transaction, Doc
  <2>2. doc' \in [Docs -> Doc]
    BY <1>1, <1>2, <2>1 DEF TypeOK
  <2> QED
    BY <1>1, <2>2, Idlest DEF TypeOK
<1> HIDE DEF d
<1>7. ASSUME NEW v \in Variants, NEW b, <<v, b>> \notin tx[t].locks
      PROVE  \A e \in Docs : HeldAt(doc'[e].holds, v, b) <= HeldAt(doc[e].holds, v, b)
  <2> TAKE e \in Docs
  <2>1. HeldAt(doc[e].holds, v, b) \in Nat
    BY <1>1, RowTypes, HeldAtType DEF Doc, HoldsRow
  <2>2. CASE e = d
    BY <1>4, <1>5, <1>7, <2>1, <2>2 DEF HeldAt
  <2>3. CASE e # d
    BY <1>4, <2>1, <2>3
  <2> QED
    BY <2>2, <2>3
<1>8. ASSUME NEW v \in Variants, NEW b \in Boxes
      PROVE  Held(doc', Docs, v, b) + OrderedAt(ordered', v, b) <= balance'[<<v, b>>]
  <2>1. CASE <<v, b>> \in tx[t].locks
    <3>1. Reserved(t, v, b) <= balance[<<v, b>>]
      <4>1. Reserved(t, v, b) <= Quantity(t, <<v, b>>)
        BY <1>1, <2>1 DEF PromiseInv
      <4>2. tx[t].saves[<<v, b>>] = None
        BY <1>1, <1>2 DEF SyncInv, Places
      <4> QED
        BY <4>1, <4>2 DEF Quantity
    <3>2. Held(doc', Docs, v, b) = Reserved(t, v, b)
            - OrderedAt(ordered, v, b) - OrderedAt(tx[t].ordered, v, b)
      BY <1>1, <1>3, <1>4, ReservedIsHeld DEF d
    <3>3. /\ Reserved(t, v, b) \in Nat
          /\ OrderedAt(ordered, v, b) \in Nat /\ OrderedAt(tx[t].ordered, v, b) \in Nat
          /\ balance[<<v, b>>] \in Nat
      BY <1>1, <1>3, <1>4, ReservedIsHeld, RowTypes, ConstantsAssumption DEF Places, d
    <3> QED
      BY <1>1, <3>1, <3>2, <3>3
  <2>2. CASE <<v, b>> \notin tx[t].locks
    <3>1. OrderedAt(ordered, v, b) \in Nat
      BY <1>1, ReservedIs
    <3> QED
      BY <1>1, <1>6, <1>7, <2>2, <3>1, StillThere
  <2> QED
    BY <2>1, <2>2
<1>9. NeverPromisedTwice'
  BY <1>8 DEF NeverPromisedTwice, HeldByDocs, Held
<1>10. HeldIsWhatIsCharged' /\ HeldInStore'
  <2>1. ASSUME NEW e \in Docs, NEW v \in Variants
        PROVE  /\ IF doc'[e].status = "DRAFT" /\ doc'[e].lines[v] > 0
                  THEN doc'[e].holds[v] # None /\ doc'[e].holds[v].quantity = doc'[e].lines[v]
                  ELSE doc'[e].holds[v] = None
               /\ doc'[e].holds[v] # None => doc'[e].holds[v].box \in StoreBoxes
    <3>1. CASE e = d
      BY <1>4, <1>5, <3>1
    <3>2. CASE e # d
      BY <1>1, <1>4, <3>2 DEF HeldIsWhatIsCharged, HeldInStore
    <3> QED
      BY <3>1, <3>2
  <2> QED
    BY <2>1 DEF HeldIsWhatIsCharged, HeldInStore
<1>11. UnitsConserved'
  BY <1>1, <1>3, <1>4, ConservedSame
<1>12. \A p \in Places \ tx[t].locks :
          /\ balance'[p] = balance[p]
          /\ OrderedAt(ordered', p[1], p[2]) <= OrderedAt(ordered, p[1], p[2])
          /\ \A e \in Docs :
               HeldAt(doc'[e].holds, p[1], p[2]) <= HeldAt(doc[e].holds, p[1], p[2])
  <2> TAKE p \in Places \ tx[t].locks
  <2>1. p[1] \in Variants /\ p = <<p[1], p[2]>>
    BY DEF Places
  <2>2. OrderedAt(ordered, p[1], p[2]) \in Nat
    BY <1>1, <2>1, ReservedIs
  <2> QED
    BY <1>1, <1>7, <2>1, <2>2
<1> QED
  BY <1>1, <1>4, <1>6, <1>9, <1>10, <1>11, <1>12, Commits DEF d

LEMMA EndDraftKeeps ==
  ASSUME StockIInv, NEW d \in Docs, EndDraft(d)
  PROVE  StockIInv'
<1>1. /\ TypeOK /\ NeverPromisedTwice /\ HeldIsWhatIsCharged /\ UnitsConserved /\ HeldInStore
      /\ balance' = balance /\ entered' = entered /\ ordered' = ordered /\ tx' = tx
      /\ doc[d].status = "DRAFT"
  BY DEF EndDraft, StockIInv, ReservationsHold
<1>2. /\ \A e \in Docs \ {d} : doc'[e] = doc[e]
      /\ doc'[d] = [status |-> "ENDED", lines |-> Nothing, holds |-> NoHolds]
  BY <1>1 DEF EndDraft, TypeOK
<1>3. TypeOK'
  <2>1. [status |-> "ENDED", lines |-> Nothing, holds |-> NoHolds] \in Doc
    BY ConstantsAssumption DEF Doc, Nothing, NoHolds
  <2> QED
    BY <1>1, <2>1 DEF EndDraft, TypeOK
<1>4. ASSUME NEW v \in Variants, NEW b
      PROVE  /\ \A e \in Docs : HeldAt(doc'[e].holds, v, b) <= HeldAt(doc[e].holds, v, b)
             /\ OrderedAt(ordered, v, b) \in Nat
  <2>1. \A e \in Docs : HeldAt(doc[e].holds, v, b) \in Nat
    BY <1>1, RowTypes, HeldAtType DEF Doc, HoldsRow
  <2>2. HeldAt(doc'[d].holds, v, b) = 0
    BY <1>2 DEF HeldAt, NoHolds
  <2>3. ASSUME NEW e \in Docs PROVE HeldAt(doc'[e].holds, v, b) <= HeldAt(doc[e].holds, v, b)
    <3>1. CASE e = d
      BY <2>1, <2>2, <3>1
    <3>2. CASE e # d
      BY <1>2, <2>1, <3>2
    <3> QED
      BY <3>1, <3>2
  <2> QED
    BY <1>1, <2>3, RowTypes, ConstantsAssumption DEF OrderedAt
<1>5. NeverPromisedTwice'
  <2>1. ASSUME NEW v \in Variants, NEW b \in Boxes
        PROVE  Held(doc', Docs, v, b) + OrderedAt(ordered', v, b) <= balance'[<<v, b>>]
    BY <1>1, <1>3, <1>4, StillThere
  <2> QED
    BY <2>1 DEF NeverPromisedTwice, HeldByDocs, Held
<1>6. HeldIsWhatIsCharged' /\ HeldInStore'
  BY <1>1, <1>2 DEF HeldIsWhatIsCharged, HeldInStore, Nothing, NoHolds
<1>7. UnitsConserved'
  BY <1>1, <1>2, ConservedSame
<1>8. Exclusive'
  BY <1>1 DEF StockIInv, Exclusive
<1>9. ASSUME NEW u \in Clients PROVE KnownInv(u)'
  <2>1. tx[u].doc # d /\ (tx[u].doc # None => tx[u].doc \in Docs)
    BY <1>1, RowTypes DEF EndDraft, DocFree, Transaction
  <2>2. KnownInv(u)
    BY DEF StockIInv
  <2>3. tx[u].doc # None => doc'[tx[u].doc] = doc[tx[u].doc]
    BY <1>2, <2>1
  <2>4. \A p \in tx[u].locks :
           /\ balance'[p] = balance[p]
           /\ OrderedAt(ordered', p[1], p[2]) <= OrderedAt(ordered, p[1], p[2])
           /\ \A e \in Docs \ {tx[u].doc} :
                HeldAt(doc'[e].holds, p[1], p[2]) <= HeldAt(doc[e].holds, p[1], p[2])
    <3> TAKE p \in tx[u].locks
    <3>1. p[1] \in Variants
      BY <1>1, RowTypes DEF Places
    <3> QED
      BY <1>1, <1>4, <3>1
  <2> QED
    BY <1>1, <1>3, <2>2, <2>3, <2>4, OthersUndisturbed
<1> QED
  BY <1>3, <1>5, <1>6, <1>7, <1>8, <1>9 DEF StockIInv, ReservationsHold

LEMMA CancelRestockKeeps ==
  ASSUME StockIInv, NEW w \in Variants, CancelRestock(w)
  PROVE  StockIInv'
<1>1. /\ TypeOK /\ NeverPromisedTwice /\ HeldIsWhatIsCharged /\ UnitsConserved /\ HeldInStore
      /\ balance' = balance /\ entered' = entered /\ doc' = doc /\ tx' = tx
  BY DEF CancelRestock, StockIInv, ReservationsHold
<1>2. PICK units \in 1 .. ordered[w] : ordered' = [ordered EXCEPT ![w] = ordered[w] - units]
  BY DEF CancelRestock
<1>3. ordered' \in [Variants -> Nat] /\ \A v \in Variants : ordered'[v] <= ordered[v]
  BY <1>1, <1>2 DEF TypeOK
<1>4. TypeOK'
  BY <1>1, <1>3 DEF TypeOK
<1>5. ASSUME NEW v \in Variants, NEW b
      PROVE  /\ OrderedAt(ordered', v, b) <= OrderedAt(ordered, v, b)
             /\ \A e \in Docs : HeldAt(doc'[e].holds, v, b) <= HeldAt(doc[e].holds, v, b)
  <2>1. \A e \in Docs : HeldAt(doc[e].holds, v, b) \in Nat
    BY <1>1, RowTypes, HeldAtType DEF Doc, HoldsRow
  <2> QED
    BY <1>1, <1>3, <2>1 DEF OrderedAt
<1>6. NeverPromisedTwice'
  <2>1. ASSUME NEW v \in Variants, NEW b \in Boxes
        PROVE  Held(doc', Docs, v, b) + OrderedAt(ordered', v, b) <= balance'[<<v, b>>]
    BY <1>1, <1>4, <1>5, StillThere
  <2> QED
    BY <2>1 DEF NeverPromisedTwice, HeldByDocs, Held
<1>7. HeldIsWhatIsCharged' /\ HeldInStore'
  BY <1>1 DEF HeldIsWhatIsCharged, HeldInStore
<1>8. UnitsConserved'
  BY <1>1, ConservedSame
<1>9. Exclusive'
  BY <1>1 DEF StockIInv, Exclusive
<1>10. ASSUME NEW u \in Clients PROVE KnownInv(u)'
  <2>1. KnownInv(u)
    BY DEF StockIInv
  <2>2. \A p \in tx[u].locks :
           /\ balance'[p] = balance[p]
           /\ OrderedAt(ordered', p[1], p[2]) <= OrderedAt(ordered, p[1], p[2])
           /\ \A e \in Docs \ {tx[u].doc} :
                HeldAt(doc'[e].holds, p[1], p[2]) <= HeldAt(doc[e].holds, p[1], p[2])
    <3> TAKE p \in tx[u].locks
    <3>1. p[1] \in Variants
      BY <1>1, RowTypes DEF Places
    <3> QED
      BY <1>1, <1>5, <3>1
  <2> QED
    BY <1>1, <1>4, <2>1, <2>2, OthersUndisturbed
<1> QED
  BY <1>4, <1>6, <1>7, <1>8, <1>9, <1>10 DEF StockIInv, ReservationsHold

LEMMA AbortKeeps ==
  ASSUME StockIInv, NEW t \in Clients, Abort(t)
  PROVE  StockIInv'
<1>1. /\ TypeOK /\ tx' = [tx EXCEPT ![t] = NoTransaction]
      /\ UNCHANGED <<balance, entered, doc, ordered>>
  BY DEF Abort, Finish, StockIInv, ReservationsHold
<1>2. tx'[t] = NoTransaction
  BY <1>1 DEF TypeOK
<1>3. KnownInv(t)'
  BY <1>2, IdleKnowsNext
<1>4. NoTransaction.locks = {} /\ ~NoTransaction.series /\ NoTransaction.doc = None
  BY DEF NoTransaction
<1> QED
  BY <1>1, <1>3, <1>4, Idlest, Begins

-----------------------------------------------------------------------------
(* A sale is charged *)

LEMMA LockForChargeKeeps ==
  ASSUME StockIInv, NEW t \in Clients, NEW d \in Docs, LockForCharge(t, d)
  PROVE  StockIInv'
<1> DEFINE r == [NoTransaction EXCEPT !.op = "charge", !.at = "series", !.doc = d,
                                      !.lines = doc[d].lines, !.holds = doc[d].holds]
<1>1. /\ TypeOK /\ doc[d] \in Doc /\ doc[d].status = "DRAFT" /\ DocFree(d)
      /\ tx' = [tx EXCEPT ![t] = r] /\ UNCHANGED <<balance, entered, doc, ordered>>
  BY RowTypes DEF StockIInv, ReservationsHold, LockForCharge, Start
<1>2. /\ r \in Transaction
      /\ r.op = "charge" /\ r.at = "series" /\ r.doc = d
      /\ r.lines = doc[d].lines /\ r.holds = doc[d].holds /\ r.todo = {} /\ r.want = None
      /\ r.saves = [p \in Places |-> None] /\ r.ordered = Nothing
      /\ r.series = FALSE /\ r.locks = {}
  BY <1>1, Idlest DEF NoTransaction, Transaction, Doc
<1>3. tx'[t] = r
  BY <1>1 DEF TypeOK
<1> HIDE DEF r
<1>4. KnownInv(t)'
  <2>1. LockedInv(t)'
    BY <1>2, <1>3 DEF LockedInv, Nothing
  <2>2. ChargeInv(t)'
    BY <1>1, <1>2, <1>3, ConstantsAssumption DEF ChargeInv
  <2>3. TakenInv(t)'
    BY <1>2, <1>3 DEF TakenInv, Taken, SavesNone, Places, Boxes
  <2>4. SyncInv(t)' /\ MoveInv(t)' /\ PromiseInv(t)'
    BY <1>2, <1>3 DEF SyncInv, MoveInv, PromiseInv
  <2> QED
    BY <2>1, <2>2, <2>3, <2>4 DEF KnownInv
<1> QED
  BY <1>1, <1>2, <1>4, Begins

\* Only a charge waits for the number or asks the warehouse.
LEMMA OnlyCharges ==
  ASSUME StockIInv, NEW t \in Clients, tx[t].at \in {"series", "restock"}
  PROVE  tx[t].op = "charge"
<1>1. /\ tx[t] \in Transaction /\ LockedInv(t) /\ SyncInv(t)
      /\ tx[t].op = "move" => tx[t].at \in {"balance", "commit"}
  BY Knows DEF MoveInv
<1> QED
  BY <1>1 DEF LockedInv, SyncInv, Transaction

LEMMA AssignNumberKeeps ==
  ASSUME StockIInv, NEW t \in Clients, AssignNumber(t)
  PROVE  StockIInv'
<1> DEFINE todo == {v \in Variants : tx[t].lines[v] > 0}
           r    == [tx[t] EXCEPT !.at = "choose", !.series = TRUE, !.todo = todo]
<1>1. /\ TypeOK /\ tx[t] \in Transaction /\ LockedInv(t) /\ ChargeInv(t) /\ TakenInv(t)
      /\ HeldIsWhatIsCharged /\ Exclusive
      /\ tx[t].at = "series" /\ tx[t].op = "charge" /\ \A u \in Clients : ~tx[u].series
      /\ UNCHANGED <<balance, entered, doc, ordered>>
  BY Knows, OnlyCharges DEF AssignNumber, StockIInv, ReservationsHold
<1>2. tx' = [tx EXCEPT ![t] = r]
  BY <1>1 DEF AssignNumber, StartMoving, TypeOK
<1>3. todo \subseteq Variants
  OBVIOUS
<1>4. \A v \in Variants : /\ v \in todo <=> tx[t].lines[v] > 0
                          /\ tx[t].holds[v] # None <=> v \in todo
                          /\ \A b \in Boxes : tx[t].saves[<<v, b>>] = None
  <2> TAKE v \in Variants
  <2>1. tx[t].doc \in Docs /\ doc[tx[t].doc].status = "DRAFT"
    BY <1>1 DEF ChargeInv, Transaction
  <2>2. tx[t].lines = doc[tx[t].doc].lines /\ tx[t].holds = doc[tx[t].doc].holds
    BY <1>1 DEF ChargeInv
  <2>3. Taken(t) = {}
    BY <1>1 DEF Taken
  <2>4. \A b \in Boxes : tx[t].saves[<<v, b>>] = None
    BY <1>1, <2>3 DEF TakenInv, SavesNone
  <2>5. tx[t].holds[v] # None <=> tx[t].lines[v] > 0
    BY <1>1, <2>1, <2>2 DEF HeldIsWhatIsCharged
  <2> QED
    BY <2>4, <2>5
<1> HIDE DEF todo
<1>5. /\ r \in Transaction
      /\ r.op = "charge" /\ r.at = "choose" /\ r.doc = tx[t].doc
      /\ r.lines = tx[t].lines /\ r.holds = tx[t].holds /\ r.todo = todo /\ r.want = tx[t].want
      /\ r.saves = tx[t].saves /\ r.ordered = tx[t].ordered
      /\ r.series = TRUE /\ r.locks = tx[t].locks
  BY <1>1, <1>3 DEF Transaction
<1>6. tx'[t] = r
  BY <1>1, <1>2 DEF TypeOK
<1> HIDE DEF r
<1>7. r.locks = {}
  BY <1>1, <1>5 DEF ChargeInv
<1>8. KnownInv(t)'
  <2>1. LockedInv(t)'
    BY <1>1, <1>5, <1>6 DEF LockedInv
  <2>2. ChargeInv(t)'
    <3>1. /\ r.doc # None /\ doc[r.doc].status = "DRAFT" /\ r.lines = doc[r.doc].lines
          /\ \A v \in Variants : r.holds[v] # None => r.holds[v] = doc[r.doc].holds[v]
      BY <1>1, <1>5 DEF ChargeInv
    <3> QED
      BY <1>1, <1>3, <1>4, <1>5, <1>6, <3>1 DEF ChargeInv, Selling
  <2>3. TakenInv(t)'
    <3>1. Taken(t)' = {}
      BY <1>4, <1>5, <1>6 DEF Taken, Selling
    <3> QED
      BY <1>4, <1>5, <1>6, <3>1 DEF TakenInv, SavesNone
  <2>4. SyncInv(t)' /\ MoveInv(t)' /\ PromiseInv(t)'
    BY <1>5, <1>6, <1>7 DEF SyncInv, MoveInv, PromiseInv
  <2> QED
    BY <2>1, <2>2, <2>3, <2>4 DEF KnownInv
<1>9. \A u \in Clients \ {t} :
        /\ r.locks \cap tx[u].locks = {}
        /\ r.doc # None => r.doc # tx[u].doc
        /\ ~(r.series /\ tx[u].series)
  BY <1>1, <1>5, <1>7 DEF Exclusive
<1> QED
  BY <1>1, <1>2, <1>5, <1>8, <1>9, NothingCommitted

\* What it saves of a reference it does not touch.
LEMMA SavesSame ==
  ASSUME NEW t \in Clients, NEW w \in Variants, balance' = balance,
         tx'[t].lines = tx[t].lines,
         \A b \in Boxes : tx'[t].saves[<<w, b>>] = tx[t].saves[<<w, b>>]
  PROVE  /\ SavesLess(t, w) => SavesLess(t, w)'
         /\ SavesNone(t, w) => SavesNone(t, w)'
<1>1. ASSUME SavesLess(t, w) PROVE SavesLess(t, w)'
  <2>1. PICK b \in StoreBoxes :
               /\ tx[t].saves[<<w, b>>] = balance[<<w, b>>] - tx[t].lines[w]
               /\ \A c \in Boxes \ {b} : tx[t].saves[<<w, c>>] = None
    BY <1>1 DEF SavesLess
  <2>2. b \in Boxes
    BY DEF Boxes
  <2> QED
    BY <2>1, <2>2 DEF SavesLess
<1>2. SavesNone(t, w) => SavesNone(t, w)'
  BY DEF SavesNone
<1> QED
  BY <1>1, <1>2

\* The units t has taken are the same, and so is what it saves.
LEMMA TakenSame ==
  ASSUME NEW t \in Clients, TakenInv(t), tx[t].op = "charge", balance' = balance,
         tx'[t].saves = tx[t].saves, tx'[t].lines = tx[t].lines, Taken(t)' = Taken(t)
  PROVE  TakenInv(t)'
BY DEF TakenInv, SavesLess, SavesNone

LEMMA ChargeLineKeeps ==
  ASSUME StockIInv, NEW t \in Clients, NEW v \in Variants, ChargeLine(t, v)
  PROVE  StockIInv'
<1> DEFINE p == <<v, tx[t].holds[v].box>>
           r == [tx[t] EXCEPT !.at = "balance", !.want = p,
                              !.holds = [tx[t].holds EXCEPT ![v] = None]]
<1>1. /\ TypeOK /\ tx[t] \in Transaction /\ LockedInv(t) /\ ChargeInv(t) /\ TakenInv(t)
      /\ PromiseInv(t) /\ tx[t].locks \subseteq Places /\ HeldInStore
      /\ tx[t].op = "charge" /\ tx[t].at = "choose" /\ v \in tx[t].todo
      /\ UNCHANGED <<balance, entered, doc, ordered>>
  BY Knows DEF ChargeLine, StockIInv
<1>2. tx' = [tx EXCEPT ![t] = r]
  BY <1>1 DEF ChargeLine, TypeOK, Transaction
<1>3. p[1] = v /\ p[2] \in StoreBoxes /\ p[2] # Warehouse /\ p \in Places /\ p # None
  <2>1. tx[t].doc \in Docs /\ tx[t].holds[v] # None
    BY <1>1 DEF ChargeInv, Transaction, Selling
  <2>2. tx[t].holds[v] = doc[tx[t].doc].holds[v]
    BY <1>1, <2>1 DEF ChargeInv
  <2>3. tx[t].holds[v].box \in StoreBoxes
    BY <1>1, <2>1, <2>2 DEF HeldInStore
  <2> QED
    BY <2>3, ConstantsAssumption DEF Places, Boxes
<1> HIDE DEF p
<1>4. /\ r \in Transaction /\ r.op = "charge" /\ r.at = "balance" /\ r.want = p
      /\ r.doc = tx[t].doc /\ r.lines = tx[t].lines
      /\ r.holds = [tx[t].holds EXCEPT ![v] = None]
      /\ r.todo = tx[t].todo /\ r.saves = tx[t].saves /\ r.ordered = tx[t].ordered
      /\ r.series = tx[t].series /\ r.locks = tx[t].locks
  <2>1. [tx[t].holds EXCEPT ![v] = None] \in [Variants -> Hold \cup {None}]
    BY <1>1 DEF Transaction
  <2>2. r \in Transaction
    BY <1>1, <1>3, <2>1 DEF Transaction
  <2> QED
    BY <1>1, <2>2 DEF Transaction
<1>5. /\ \A w \in Variants \ {v} : r.holds[w] = tx[t].holds[w]
      /\ r.holds[v] = None
  BY <1>1, <1>4 DEF Transaction
<1>6. tx'[t] = r
  BY <1>1, <1>2 DEF TypeOK
<1> HIDE DEF r
<1>7. KnownInv(t)'
  <2>1. LockedInv(t)'
    BY <1>1, <1>3, <1>4, <1>6 DEF LockedInv
  <2>2. ChargeInv(t)'
    <3>1. /\ r.doc # None /\ doc[r.doc].status = "DRAFT" /\ r.lines = doc[r.doc].lines
          /\ r.series = TRUE /\ \A w \in r.todo : r.lines[w] > 0
      BY <1>1, <1>4 DEF ChargeInv, Transaction
    <3>2. \A w \in Variants :
            /\ r.holds[w] # None => r.holds[w] = doc[r.doc].holds[w]
            /\ r.holds[w] # None <=> w \in r.todo /\ w # v
      BY <1>1, <1>4, <1>5 DEF ChargeInv, Selling
    <3> QED
      BY <1>1, <1>3, <1>4, <1>6, <3>1, <3>2 DEF ChargeInv, Selling
  <2>3. TakenInv(t)'
    <3>1. Taken(t)' = Taken(t)
      BY <1>1, <1>3, <1>4, <1>6 DEF Taken, Selling
    <3> QED
      BY <1>1, <1>4, <1>6, <3>1, TakenSame
  <2>4. SyncInv(t)' /\ MoveInv(t)'
    BY <1>4, <1>6 DEF SyncInv, MoveInv
  <2>5. PromiseInv(t)'
    <3> SUFFICES ASSUME NEW q \in tx[t].locks
                 PROVE  Reserved(t, q[1], q[2])' <= Quantity(t, q)'
      BY <1>4, <1>6 DEF PromiseInv
    <3>1. q \in Places /\ q[1] \in Variants
      BY <1>1 DEF Places
    <3>2. OrderedAt(tx[t].ordered, q[1], q[2]) = OrderedAt(r.ordered, q[1], q[2])
      BY <1>4
    <3>3. /\ Reserved(t, q[1], q[2])' = Reserved(t, q[1], q[2])
               - HeldAt(tx[t].holds, q[1], q[2]) + HeldAt(r.holds, q[1], q[2])
          /\ Reserved(t, q[1], q[2]) \in Nat
          /\ HeldAt(tx[t].holds, q[1], q[2]) \in Nat /\ HeldAt(r.holds, q[1], q[2]) \in Nat
      BY <1>1, <1>4, <1>6, <3>1, <3>2, ReservedNext
    <3>4. HeldAt(r.holds, q[1], q[2]) <= HeldAt(tx[t].holds, q[1], q[2])
      <4>1. CASE q[1] = v
        BY <1>5, <3>3, <4>1 DEF HeldAt
      <4>2. CASE q[1] # v
        BY <1>5, <3>1, <3>3, <4>2 DEF HeldAt
      <4> QED
        BY <4>1, <4>2
    <3>5. Quantity(t, q)' = Quantity(t, q) /\ Quantity(t, q) \in Int
      BY <1>1, <1>4, <1>6, <3>1, QuantityType DEF Quantity
    <3>6. Reserved(t, q[1], q[2]) <= Quantity(t, q)
      BY <1>1 DEF PromiseInv
    <3> QED
      BY <3>3, <3>4, <3>5, <3>6
  <2> QED
    BY <2>1, <2>2, <2>3, <2>4, <2>5 DEF KnownInv
<1> QED
  BY <1>1, <1>2, <1>4, <1>7, Advances

LEMMA MoveSoldKeeps ==
  ASSUME StockIInv, NEW t \in Clients, MoveSold(t)
  PROVE  StockIInv'
<1> DEFINE p     == tx[t].want
           v     == p[1]
           left  == tx[t].todo \ {v}
           at    == IF left # {} THEN "choose" ELSE "restock"
           todo  == IF left = {} THEN {u \in Variants : tx[t].lines[u] > 0} ELSE left
           units == balance[p] - tx[t].lines[v]
           r     == [tx[t] EXCEPT !.at = at, !.want = None, !.todo = todo,
                                  !.locks = tx[t].locks \cup {p},
                                  !.saves = [tx[t].saves EXCEPT ![p] = units]]
<1>1. /\ TypeOK /\ tx[t] \in Transaction /\ LockedInv(t) /\ ChargeInv(t) /\ TakenInv(t)
      /\ PromiseInv(t) /\ tx[t].locks \subseteq Places
      /\ tx[t].op = "charge" /\ tx[t].at = "balance" /\ PlaceFree(p) /\ p[2] # Warehouse
      /\ Available(t, p) >= tx[t].lines[v]
      /\ UNCHANGED <<balance, entered, doc, ordered>>
  BY Knows DEF MoveSold, Granted
<1>2. /\ p \in Places /\ p # None /\ v \in tx[t].todo
      /\ v \in Variants /\ p = <<v, p[2]>> /\ p[2] \in StoreBoxes
      /\ tx[t].lines[v] > 0 /\ tx[t].lines[v] \in Int
  <2>1. p # None /\ v \in tx[t].todo /\ tx[t].lines[v] > 0
    BY <1>1 DEF ChargeInv
  <2>2. p \in Places
    BY <1>1, <2>1 DEF LockedInv
  <2>3. v \in Variants /\ p = <<v, p[2]>> /\ p[2] \in StoreBoxes
    BY <1>1, <2>2 DEF Places, Boxes
  <2>4. tx[t].lines[v] \in 0 .. MaxLine
    BY <1>1, <2>3 DEF Transaction
  <2> QED
    BY <2>1, <2>2, <2>3, <2>4
<1>3. NextLine("charge", left) = at
  BY DEF NextLine
<1>4. tx' = [tx EXCEPT ![t] = r]
  BY <1>1, <1>2, <1>3 DEF MoveSold, TakeUnits, TypeOK, Transaction
<1>5. v \notin Taken(t) /\ Selling(t)
  BY <1>1, <1>2 DEF Taken, Selling
\* Nobody else writes it, and what is taken is there.
<1>6. /\ tx[t].saves[p] = None /\ units \in 0 .. MaxQty /\ units # None
      /\ Reserved(t, v, p[2]) <= units /\ balance[p] \in Int
  <2>1. tx[t].saves[p] = None
    <3>1. \A c \in Boxes : tx[t].saves[<<v, c>>] = None
      BY <1>1, <1>2, <1>5 DEF TakenInv, SavesNone
    <3>2. p[2] \in Boxes
      BY <1>2 DEF Boxes
    <3> QED
      BY <1>2, <3>1, <3>2
  <2>2. Reserved(t, v, p[2]) \in Nat
    BY <1>1, <1>2, ReservedType
  <2>3. balance[p] \in 0 .. MaxQty
    BY <1>1, <1>2, RowTypes
  <2>4. balance[p] - Reserved(t, v, p[2]) >= tx[t].lines[v]
    BY <1>1, <2>1 DEF Available, Quantity
  <2>5. units \in 0 .. MaxQty /\ Reserved(t, v, p[2]) <= units
    BY <1>2, <2>2, <2>3, <2>4, ConstantsAssumption
  <2> QED
    BY <2>1, <2>3, <2>5, ConstantsAssumption
<1>7. /\ at \in {"choose", "restock"} /\ todo \subseteq Variants
      /\ at = "choose" => todo = left
      /\ at = "restock" => left = {} /\ todo = {u \in Variants : tx[t].lines[u] > 0}
      /\ \A w \in todo : tx[t].lines[w] > 0
  BY <1>1 DEF Transaction, ChargeInv
<1> HIDE DEF units, at, todo
<1>8. /\ r \in Transaction /\ r.op = "charge" /\ r.at = at /\ r.want = None
      /\ r.doc = tx[t].doc /\ r.lines = tx[t].lines /\ r.holds = tx[t].holds
      /\ r.todo = todo /\ r.saves = [tx[t].saves EXCEPT ![p] = units]
      /\ r.ordered = tx[t].ordered
      /\ r.series = tx[t].series /\ r.locks = tx[t].locks \cup {p}
  <2>1. [tx[t].saves EXCEPT ![p] = units] \in [Places -> (0 .. MaxQty) \cup {None}]
    BY <1>1, <1>6 DEF Transaction
  <2>2. tx[t].locks \cup {p} \subseteq Places
    BY <1>1, <1>2
  <2> HIDE DEF p, v
  <2>3. r \in Transaction
    BY <1>1, <1>7, <2>1, <2>2 DEF Transaction
  <2> QED
    BY <1>1, <2>3 DEF Transaction
<1>9. /\ \A q \in Places \ {p} : r.saves[q] = tx[t].saves[q]
      /\ r.saves[p] = units
  BY <1>1, <1>2, <1>8 DEF Transaction
<1>10. tx'[t] = r
  BY <1>1, <1>4 DEF TypeOK
<1> HIDE DEF r
<1>11. KnownInv(t)'
  <2>1. LockedInv(t)'
    <3>1. \A q \in Places : r.saves[q] # None => q \in r.locks
      BY <1>1, <1>8, <1>9 DEF LockedInv
    <3> QED
      BY <1>1, <1>7, <1>8, <1>10, <3>1 DEF LockedInv
  <2>2. ChargeInv(t)'
    <3>1. /\ r.doc # None /\ doc[r.doc].status = "DRAFT" /\ r.lines = doc[r.doc].lines
          /\ r.series = TRUE
      BY <1>1, <1>8 DEF ChargeInv, Transaction
    <3>2. \A w \in Variants :
            /\ r.holds[w] # None => r.holds[w] = doc[r.doc].holds[w]
            /\ r.holds[w] # None <=> at = "choose" /\ w \in todo
      <4> TAKE w \in Variants
      <4>1. /\ tx[t].holds[w] # None => tx[t].holds[w] = doc[tx[t].doc].holds[w]
            /\ tx[t].holds[w] # None <=> w \in left
        BY <1>1, <1>5 DEF ChargeInv
      <4> QED
        BY <1>7, <1>8, <4>1
    <3>3. Selling(t)' <=> at = "choose"
      BY <1>7, <1>8, <1>10 DEF Selling
    <3>4. \A w \in Variants : r.holds[w] # None <=>
             Selling(t)' /\ w \in r.todo /\ ~(r.at = "balance" /\ w = r.want[1])
      BY <1>7, <1>8, <3>2, <3>3
    <3>5. r.at \in {"choose", "restock"} /\ \A w \in r.todo : r.lines[w] > 0
      BY <1>7, <1>8
    <3>6. doc' = doc
      BY <1>1
    <3> QED
      BY <1>8, <1>10, <3>1, <3>2, <3>4, <3>5, <3>6 DEF ChargeInv
  <2>3. TakenInv(t)'
    <3>1. Taken(t)' = Taken(t) \cup {v}
      <4>1. \A w \in Variants : w \in Taken(t)' <=>
               tx[t].lines[w] > 0 /\ (at = "choose" => w \notin todo)
        BY <1>7, <1>8, <1>10 DEF Taken, Selling
      <4>2. \A w \in Variants : w \in Taken(t) <=> tx[t].lines[w] > 0 /\ w \notin tx[t].todo
        BY <1>1, <1>5 DEF Taken
      <4>3. \A w \in Variants : w \in Taken(t)' <=> w \in Taken(t) \/ w = v
        BY <1>2, <1>7, <4>1, <4>2
      <4>4. Taken(t)' \subseteq Variants /\ Taken(t) \subseteq Variants
        BY DEF Taken
      <4> QED
        BY <1>2, <4>3, <4>4
    <3>2. ASSUME NEW w \in Variants, w = v PROVE SavesLess(t, w)'
      <4>1. tx'[t].saves[<<w, p[2]>>] = balance'[<<w, p[2]>>] - tx'[t].lines[w]
        BY <1>1, <1>2, <1>8, <1>9, <1>10, <3>2 DEF units
      <4>2. \A c \in Boxes \ {p[2]} : tx'[t].saves[<<w, c>>] = None
        <5> TAKE c \in Boxes \ {p[2]}
        <5>1. <<w, c>> \in Places \ {p}
          BY <1>2 DEF Places
        <5>2. tx[t].saves[<<w, c>>] = None
          BY <1>1, <1>5, <3>2 DEF TakenInv, SavesNone
        <5> QED
          BY <1>9, <1>10, <5>1, <5>2
      <4> QED
        BY <1>2, <4>1, <4>2 DEF SavesLess
    <3>3. ASSUME NEW w \in Variants \ {v}
          PROVE  /\ SavesLess(t, w) => SavesLess(t, w)'
                 /\ SavesNone(t, w) => SavesNone(t, w)'
      <4>1. \A b \in Boxes : tx'[t].saves[<<w, b>>] = tx[t].saves[<<w, b>>]
        BY <1>2, <1>9, <1>10 DEF Places
      <4>2. tx'[t].lines = tx[t].lines /\ balance' = balance
        BY <1>1, <1>8, <1>10
      <4> QED
        BY <4>1, <4>2, SavesSame
    <3>4. ASSUME NEW w \in Variants
          PROVE  /\ w \in Taken(t)' => SavesLess(t, w)'
                 /\ w \notin Taken(t)' => SavesNone(t, w)'
      <4>1. CASE w = v
        BY <3>1, <3>2, <4>1
      <4>2. CASE w # v
        BY <1>1, <3>1, <3>3, <4>2 DEF TakenInv
      <4> QED
        BY <4>1, <4>2
    <3> QED
      BY <3>4 DEF TakenInv
  <2>4. SyncInv(t)' /\ MoveInv(t)'
    BY <1>8, <1>10 DEF SyncInv, MoveInv
  <2>5. PromiseInv(t)'
    <3> SUFFICES ASSUME NEW q \in tx[t].locks \cup {p}
                 PROVE  Reserved(t, q[1], q[2])' <= Quantity(t, q)'
      BY <1>8, <1>10 DEF PromiseInv
    <3>1. q \in Places
      BY <1>1, <1>2
    <3>2. Reserved(t, q[1], q[2])' = Reserved(t, q[1], q[2])
      BY <1>1, <1>8, <1>10 DEF Reserved, HeldByDocs
    <3>3. CASE q = p
      BY <1>2, <1>6, <1>9, <1>10, <3>2, <3>3 DEF Quantity
    <3>4. CASE q # p
      BY <1>1, <1>9, <1>10, <3>1, <3>2, <3>4 DEF Quantity, PromiseInv
    <3> QED
      BY <3>3, <3>4
  <2> QED
    BY <2>1, <2>2, <2>3, <2>4, <2>5 DEF KnownInv
<1> QED
  BY <1>1, <1>4, <1>8, <1>11, Advances

\* Past its lines, a charge holds nothing apart in the store.
LEMMA Restocking ==
  ASSUME NEW t \in Clients, ChargeInv(t), tx[t].op = "charge", tx[t].at # "series", ~Selling(t)
  PROVE  \A v \in Variants : tx[t].holds[v] = None
BY DEF ChargeInv

\* From then on, what matters of a charge stays.
LEMMA RestockGoesOn ==
  ASSUME StockIInv, NEW t \in Clients, tx[t].op = "charge", tx[t].at # "series", ~Selling(t),
         tx'[t].op = "charge", tx'[t].at \in {"restock", "balance"},
         tx'[t].at = "balance" => /\ tx'[t].want # None /\ tx'[t].want[2] = Warehouse
                                  /\ tx'[t].want[1] \in tx'[t].todo,
         tx'[t].todo \subseteq tx[t].todo,
         tx'[t].doc = tx[t].doc, tx'[t].lines = tx[t].lines, tx'[t].holds = tx[t].holds,
         tx'[t].saves = tx[t].saves, tx'[t].series = tx[t].series, UNCHANGED <<balance, doc>>
  PROVE  ChargeInv(t)' /\ TakenInv(t)'
<1>1. ChargeInv(t) /\ TakenInv(t)
  BY Knows
<1>2. tx'[t].at # "series" /\ ~Selling(t)'
  BY DEF Selling
<1>3. ChargeInv(t)'
  <2>1. /\ tx[t].doc # None /\ doc[tx[t].doc].status = "DRAFT"
        /\ tx[t].lines = doc[tx[t].doc].lines /\ tx[t].series
        /\ \A w \in tx[t].todo : tx[t].lines[w] > 0
    BY <1>1 DEF ChargeInv
  <2>2. \A w \in Variants : tx[t].holds[w] = None
    BY <1>1, Restocking
  <2> QED
    BY <1>2, <2>1, <2>2 DEF ChargeInv
<1>4. TakenInv(t)'
  <2>1. Taken(t)' = Taken(t)
    BY <1>2 DEF Taken
  <2> QED
    BY <1>1, <2>1, TakenSame
<1> QED
  BY <1>3, <1>4

LEMMA RestockLineKeeps ==
  ASSUME StockIInv, NEW t \in Clients, NEW v \in Variants, RestockLine(t, v)
  PROVE  StockIInv'
<1>1. /\ TypeOK /\ tx[t] \in Transaction /\ LockedInv(t) /\ ChargeInv(t) /\ PromiseInv(t)
      /\ tx[t].op = "charge" /\ tx[t].at = "restock" /\ v \in tx[t].todo /\ ~Selling(t)
      /\ UNCHANGED <<balance, entered, doc, ordered>>
  BY Knows, OnlyCharges DEF RestockLine, Selling
<1>2. ASSUME NEW r \in Transaction, tx' = [tx EXCEPT ![t] = r],
             r.op = "charge", r.at \in {"restock", "balance"}, r.todo \subseteq tx[t].todo,
             r.want = tx[t].want \/ r.want \in Places,
             r.at = "balance" => /\ r.want # None /\ r.want[2] = Warehouse
                                 /\ r.want[1] \in r.todo,
             r.doc = tx[t].doc, r.lines = tx[t].lines, r.holds = tx[t].holds,
             r.saves = tx[t].saves, r.ordered = tx[t].ordered,
             r.series = tx[t].series, r.locks = tx[t].locks
      PROVE  StockIInv'
  <2>1. tx'[t] = r
    BY <1>1, <1>2 DEF TypeOK
  <2>2. LockedInv(t)'
    BY <1>1, <1>2, <2>1 DEF LockedInv
  <2>3. ChargeInv(t)' /\ TakenInv(t)'
    BY <1>1, <1>2, <2>1, RestockGoesOn
  <2>4. SyncInv(t)' /\ MoveInv(t)'
    BY <1>2, <2>1 DEF SyncInv, MoveInv
  <2>5. PromiseInv(t)'
    BY <1>1, <1>2, <2>1 DEF PromiseInv, Reserved, Quantity, HeldByDocs
  <2>6. KnownInv(t)'
    BY <2>2, <2>3, <2>4, <2>5 DEF KnownInv
  <2> QED
    BY <1>1, <1>2, <2>6, Advances
<1>3. ASSUME tx' = [tx EXCEPT ![t].at = "balance", ![t].want = <<v, Warehouse>>]
      PROVE  StockIInv'
  <2> DEFINE r == [tx[t] EXCEPT !.at = "balance", !.want = <<v, Warehouse>>]
  <2>1. <<v, Warehouse>> \in Places /\ <<v, Warehouse>> # None
    BY ConstantsAssumption DEF Places, Boxes
  <2>2. tx' = [tx EXCEPT ![t] = r]
    BY <1>1, <1>3 DEF TypeOK
  <2>3. r \in Transaction
    BY <1>1, <2>1 DEF Transaction
  <2>4. /\ r.op = "charge" /\ r.at = "balance" /\ r.want = <<v, Warehouse>>
        /\ r.doc = tx[t].doc /\ r.lines = tx[t].lines /\ r.holds = tx[t].holds
        /\ r.todo = tx[t].todo /\ r.saves = tx[t].saves /\ r.ordered = tx[t].ordered
        /\ r.series = tx[t].series /\ r.locks = tx[t].locks
    BY <1>1 DEF Transaction
  <2> HIDE DEF r
  <2>5. /\ r.want \in Places /\ r.want # None /\ r.want[2] = Warehouse /\ r.want[1] \in r.todo
        /\ r.at \in {"restock", "balance"} /\ r.todo \subseteq tx[t].todo
    BY <1>1, <2>1, <2>4
  <2> QED
    BY <1>2, <2>2, <2>3, <2>4, <2>5
<1>4. ASSUME tx' = [tx EXCEPT ![t].todo = tx[t].todo \ {v}]
      PROVE  StockIInv'
  <2> DEFINE r == [tx[t] EXCEPT !.todo = tx[t].todo \ {v}]
  <2>1. tx' = [tx EXCEPT ![t] = r]
    BY <1>1, <1>4 DEF TypeOK
  <2>2. r \in Transaction
    BY <1>1 DEF Transaction
  <2>3. /\ r.op = "charge" /\ r.at = "restock" /\ r.want = tx[t].want
        /\ r.doc = tx[t].doc /\ r.lines = tx[t].lines /\ r.holds = tx[t].holds
        /\ r.todo = tx[t].todo \ {v} /\ r.saves = tx[t].saves /\ r.ordered = tx[t].ordered
        /\ r.series = tx[t].series /\ r.locks = tx[t].locks
    BY <1>1 DEF Transaction
  <2> HIDE DEF r
  <2> QED
    BY <1>1, <1>2, <2>1, <2>2, <2>3
<1> QED
  BY <1>3, <1>4 DEF RestockLine

LEMMA ReserveRestockKeeps ==
  ASSUME StockIInv, NEW t \in Clients, ReserveRestock(t)
  PROVE  StockIInv'
<1> DEFINE p == tx[t].want
           v == p[1]
           r == [tx[t] EXCEPT !.at = "restock", !.todo = tx[t].todo \ {v}, !.want = None,
                              !.locks = tx[t].locks \cup {p},
                              !.ordered = [tx[t].ordered EXCEPT ![v] = tx[t].lines[v]]]
<1>1. /\ TypeOK /\ tx[t] \in Transaction /\ LockedInv(t) /\ ChargeInv(t) /\ PromiseInv(t)
      /\ tx[t].locks \subseteq Places
      /\ tx[t].op = "charge" /\ tx[t].at = "balance" /\ PlaceFree(p) /\ p[2] = Warehouse
      /\ Available(t, p) >= tx[t].lines[v]
      /\ UNCHANGED <<balance, entered, doc, ordered>>
  BY Knows DEF ReserveRestock, Granted
<1>2. p \in Places /\ v \in Variants /\ p = <<v, Warehouse>> /\ tx[t].lines[v] \in Nat
  <2>1. p # None
    BY <1>1 DEF ChargeInv
  <2>2. p \in Places
    BY <1>1, <2>1 DEF LockedInv
  <2>3. v \in Variants /\ p = <<v, Warehouse>>
    BY <1>1, <2>2 DEF Places
  <2>4. tx[t].lines[v] \in 0 .. MaxLine
    BY <1>1, <2>3 DEF Transaction
  <2> QED
    BY <2>2, <2>3, <2>4, ConstantsAssumption
<1>3. tx' = [tx EXCEPT ![t] = r]
  BY <1>1, <1>2 DEF ReserveRestock, TypeOK, Transaction
<1>4. /\ r \in Transaction /\ r.op = "charge" /\ r.at = "restock" /\ r.want = None
      /\ r.doc = tx[t].doc /\ r.lines = tx[t].lines /\ r.holds = tx[t].holds
      /\ r.todo = tx[t].todo \ {v} /\ r.saves = tx[t].saves
      /\ r.ordered = [tx[t].ordered EXCEPT ![v] = tx[t].lines[v]]
      /\ r.series = tx[t].series /\ r.locks = tx[t].locks \cup {p}
  <2>1. [tx[t].ordered EXCEPT ![v] = tx[t].lines[v]] \in [Variants -> 0 .. MaxLine]
    BY <1>1, <1>2 DEF Transaction
  <2>2. tx[t].locks \cup {p} \subseteq Places /\ tx[t].todo \ {v} \subseteq Variants
    BY <1>1, <1>2 DEF Transaction
  <2> HIDE DEF p, v
  <2>3. r \in Transaction
    BY <1>1, <2>1, <2>2 DEF Transaction
  <2> QED
    BY <1>1, <2>3 DEF Transaction
<1>5. /\ \A w \in Variants \ {v} : r.ordered[w] = tx[t].ordered[w]
      /\ r.ordered[v] = tx[t].lines[v]
  <2>1. tx[t].ordered \in [Variants -> 0 .. MaxLine]
    BY <1>1 DEF Transaction
  <2> HIDE DEF v
  <2> QED
    BY <1>2, <1>4, <2>1
<1>6. tx'[t] = r
  BY <1>1, <1>3 DEF TypeOK
<1> HIDE DEF r
<1>7. KnownInv(t)'
  <2>1. LockedInv(t)'
    <3>1. \A w \in Variants : r.ordered[w] # 0 => <<w, Warehouse>> \in r.locks
      BY <1>1, <1>2, <1>4, <1>5 DEF LockedInv
    <3> QED
      BY <1>1, <1>4, <1>6, <3>1 DEF LockedInv
  <2>2. ChargeInv(t)' /\ TakenInv(t)'
    <3>1. ~Selling(t)
      BY <1>1 DEF Selling
    <3> QED
      BY <1>1, <1>4, <1>6, <3>1, RestockGoesOn
  <2>3. SyncInv(t)' /\ MoveInv(t)'
    BY <1>4, <1>6 DEF SyncInv, MoveInv
  <2>4. PromiseInv(t)'
    <3> SUFFICES ASSUME NEW q \in tx[t].locks \cup {p}
                 PROVE  Reserved(t, q[1], q[2])' <= Quantity(t, q)'
      BY <1>4, <1>6 DEF PromiseInv
    <3>1. q \in Places /\ q[1] \in Variants /\ q = <<q[1], q[2]>>
      BY <1>1, <1>2 DEF Places
    <3>2. HeldAt(tx[t].holds, q[1], q[2]) = HeldAt(r.holds, q[1], q[2])
      BY <1>4
    <3>3. /\ Reserved(t, q[1], q[2])' = Reserved(t, q[1], q[2])
               - OrderedAt(tx[t].ordered, q[1], q[2]) + OrderedAt(r.ordered, q[1], q[2])
          /\ Reserved(t, q[1], q[2]) \in Nat
          /\ OrderedAt(tx[t].ordered, q[1], q[2]) \in Nat
          /\ OrderedAt(r.ordered, q[1], q[2]) \in Nat
      BY <1>1, <1>4, <1>6, <3>1, <3>2, ReservedNext
    <3>4. Quantity(t, q)' = Quantity(t, q) /\ Quantity(t, q) \in Int
      BY <1>1, <1>4, <1>6, <3>1, QuantityType DEF Quantity
    <3>5. CASE q = p
      <4>1. OrderedAt(r.ordered, q[1], q[2]) = tx[t].lines[v]
        BY <1>2, <1>5, <3>5 DEF OrderedAt
      <4>2. Quantity(t, q) - Reserved(t, q[1], q[2]) >= tx[t].lines[v]
        BY <1>1, <3>5 DEF Available
      <4> QED
        BY <1>2, <3>3, <3>4, <4>1, <4>2
    <3>6. CASE q # p
      <4>1. OrderedAt(tx[t].ordered, q[1], q[2]) = OrderedAt(r.ordered, q[1], q[2])
        BY <1>2, <1>5, <3>1, <3>6 DEF OrderedAt
      <4>2. Reserved(t, q[1], q[2]) <= Quantity(t, q)
        BY <1>1, <3>6 DEF PromiseInv
      <4> QED
        BY <3>3, <3>4, <4>1, <4>2
    <3> QED
      BY <3>5, <3>6
  <2> QED
    BY <2>1, <2>2, <2>3, <2>4 DEF KnownInv
<1> QED
  BY <1>1, <1>3, <1>4, <1>7, Advances

\* One more sale is charged.
LEMMA SoldMore ==
  ASSUME NEW f, NEW g, NEW d \in Docs, NEW v,
         \A e \in Docs : f[e].lines[v] \in Int /\ g[e].lines[v] = f[e].lines[v],
         \A e \in Docs \ {d} : g[e].status = f[e].status,
         f[d].status # "COMPLETED", g[d].status = "COMPLETED"
  PROVE  Sold(g, v) = Sold(f, v) + f[d].lines[v] /\ Sold(f, v) \in Int
<1> DEFINE D == {e \in Docs : f[e].status = "COMPLETED"}
           E == {e \in Docs : g[e].status = "COMPLETED"}
           F == [e \in D |-> f[e].lines[v]]
           G == [e \in E |-> g[e].lines[v]]
           H == [e \in Docs |-> f[e].lines[v]]
<1>1. E = D \cup {d} /\ d \notin D /\ D \subseteq Docs
  OBVIOUS
<1>2. IsFiniteSet(D) /\ IsFiniteSet(E)
  BY ConstantsAssumption, FS_Subset
<1>3. /\ \A e \in D : F[e] = H[e]
      /\ \A e \in E : G[e] = H[e]
      /\ \A e \in Docs : H[e] \in Int
      /\ H[d] = f[d].lines[v]
  OBVIOUS
<1>4. Sold(f, v) = SumFunctionOnSet(F, D) /\ Sold(g, v) = SumFunctionOnSet(G, E)
  BY DEF Sold, SumFunction
<1> HIDE DEF D, E, F, G, H
<1>5. SumFunctionOnSet(F, D) = SumFunctionOnSet(H, D)
  BY <1>2, <1>3, SumSame
<1>6. SumFunctionOnSet(G, E) = SumFunctionOnSet(H, E)
  BY <1>2, <1>3, SumSame
<1>7. SumFunctionOnSet(H, D \cup {d}) = SumFunctionOnSet(H, D) + H[d]
  BY <1>1, <1>2, <1>3, SumAdded
<1>8. SumFunctionOnSet(H, D) \in Int
  BY <1>1, <1>2, <1>3, SumType
<1> QED
  BY <1>1, <1>3, <1>4, <1>5, <1>6, <1>7, <1>8

\* A balance of v changes, and no other of v.
LEMMA UnitsMoved ==
  ASSUME NEW f \in [Places -> Int], NEW g \in [Places -> Int], NEW v \in Variants, NEW b \in Boxes,
         \A c \in Boxes \ {b} : g[<<v, c>>] = f[<<v, c>>]
  PROVE  /\ UnitsIn(g, v) = UnitsIn(f, v) + g[<<v, b>>] - f[<<v, b>>]
         /\ UnitsIn(f, v) \in Int
<1> DEFINE F == [c \in Boxes |-> f[<<v, c>>]]
           G == [c \in Boxes |-> g[<<v, c>>]]
<1>1. IsFiniteSet(Boxes)
  BY ConstantsAssumption, FS_AddElement DEF Boxes
<1>2. /\ \A c \in Boxes : F[c] \in Int /\ G[c] \in Int
      /\ \A c \in Boxes \ {b} : F[c] = G[c]
      /\ F[b] = f[<<v, b>>] /\ G[b] = g[<<v, b>>]
  BY DEF Places
<1>3. UnitsIn(f, v) = SumFunctionOnSet(F, Boxes) /\ UnitsIn(g, v) = SumFunctionOnSet(G, Boxes)
  BY DEF UnitsIn, SumFunction
<1> HIDE DEF F, G
<1>4. SumFunctionOnSet(G, Boxes) = SumFunctionOnSet(F, Boxes) - F[b] + G[b]
  BY <1>1, <1>2, SumChange
<1>5. SumFunctionOnSet(F, Boxes) \in Int
  BY <1>1, <1>2, SumType
<1> QED
  BY <1>2, <1>3, <1>4, <1>5

LEMMA UnitsSame ==
  ASSUME NEW f, NEW g, NEW v, \A c \in Boxes : g[<<v, c>>] = f[<<v, c>>]
  PROVE  UnitsIn(g, v) = UnitsIn(f, v)
<1> DEFINE F == [c \in Boxes |-> f[<<v, c>>]]
           G == [c \in Boxes |-> g[<<v, c>>]]
<1>1. F = G
  OBVIOUS
<1> QED
  BY <1>1 DEF UnitsIn

LEMMA CommitChargeKeeps ==
  ASSUME StockIInv, NEW t \in Clients, CommitCharge(t)
  PROVE  StockIInv'
<1> DEFINE d == tx[t].doc
           sold == [doc[d] EXCEPT !.status = "COMPLETED", !.holds = tx[t].holds]
<1>1. /\ TypeOK /\ tx[t] \in Transaction /\ LockedInv(t) /\ ChargeInv(t) /\ TakenInv(t)
      /\ PromiseInv(t) /\ tx[t].locks \subseteq Places
      /\ NeverPromisedTwice /\ HeldIsWhatIsCharged /\ UnitsConserved /\ HeldInStore
      /\ tx[t].op = "charge" /\ tx[t].at = "restock" /\ entered' = entered
      /\ balance' = Saved(t) /\ tx' = [tx EXCEPT ![t] = NoTransaction]
      /\ ordered' = [v \in Variants |-> ordered[v] + tx[t].ordered[v]]
  BY Knows, OnlyCharges DEF CommitCharge, Finish, StockIInv, ReservationsHold
<1>2. /\ d \in Docs /\ doc[d] \in Doc /\ doc[d].status = "DRAFT"
      /\ tx[t].lines = doc[d].lines
  BY <1>1, RowTypes DEF ChargeInv, Transaction
<1>3. doc' = [doc EXCEPT ![d] = sold]
  BY <1>1, <1>2 DEF CommitCharge, TypeOK, Doc
<1>4. /\ sold \in Doc /\ sold.status = "COMPLETED" /\ sold.lines = doc[d].lines
      /\ sold.holds = tx[t].holds
  BY <1>1, <1>2 DEF Doc, Transaction
<1>5. \A v \in Variants : tx[t].holds[v] = None
  BY <1>1, Restocking DEF Selling
<1> HIDE DEF sold
<1>6. doc' \in [Docs -> Doc] /\ doc'[d] = sold /\ \A e \in Docs \ {d} : doc'[e] = doc[e]
  BY <1>1, <1>2, <1>3, <1>4 DEF TypeOK
<1> HIDE DEF d
<1>7. \A p \in Places : balance'[p] = Quantity(t, p) /\ balance'[p] \in 0 .. MaxQty
  BY <1>1, QuantityType DEF Saved
<1>8. \A v \in Variants : /\ ordered[v] \in Nat /\ tx[t].ordered[v] \in Nat
                          /\ ordered'[v] = ordered[v] + tx[t].ordered[v]
  BY <1>1, RowTypes, ConstantsAssumption DEF Transaction
<1>9. TypeOK'
  <2>1. balance' \in [Places -> 0 .. MaxQty]
    BY <1>1, <1>7 DEF Saved
  <2>2. ordered' \in [Variants -> Nat]
    BY <1>1, <1>8
  <2> QED
    BY <1>1, <1>6, <2>1, <2>2, Idlest DEF TypeOK
\* Elsewhere it changes nothing, and its sale lets go of what it held.
<1>10. ASSUME NEW v \in Variants, NEW b \in Boxes, <<v, b>> \notin tx[t].locks
       PROVE  /\ balance'[<<v, b>>] = balance[<<v, b>>]
              /\ OrderedAt(ordered', v, b) <= OrderedAt(ordered, v, b)
              /\ \A e \in Docs : HeldAt(doc'[e].holds, v, b) <= HeldAt(doc[e].holds, v, b)
  <2>1. balance'[<<v, b>>] = balance[<<v, b>>]
    BY <1>1, <1>7, <1>10 DEF LockedInv, Quantity, Places
  <2>2. OrderedAt(ordered', v, b) <= OrderedAt(ordered, v, b)
    BY <1>1, <1>8, <1>10 DEF LockedInv, OrderedAt
  <2>3. ASSUME NEW e \in Docs
        PROVE HeldAt(doc'[e].holds, v, b) <= HeldAt(doc[e].holds, v, b)
    <3>1. HeldAt(doc[e].holds, v, b) \in Nat
      BY <1>1, RowTypes, HeldAtType DEF Doc, HoldsRow
    <3>2. CASE e = d
      BY <1>4, <1>5, <1>6, <3>1, <3>2 DEF HeldAt
    <3>3. CASE e # d
      BY <1>6, <3>1, <3>3
    <3> QED
      BY <3>2, <3>3
  <2> QED
    BY <2>1, <2>2, <2>3
<1>11. NeverPromisedTwice'
  <2>1. ASSUME NEW v \in Variants, NEW b \in Boxes
        PROVE  Held(doc', Docs, v, b) + OrderedAt(ordered', v, b) <= balance'[<<v, b>>]
    <3>1. CASE <<v, b>> \in tx[t].locks
      <4>1. Reserved(t, v, b) <= balance'[<<v, b>>]
        BY <1>1, <1>7, <3>1 DEF PromiseInv
      <4>2. /\ Held(doc', Docs, v, b) = Reserved(t, v, b)
                 - OrderedAt(ordered, v, b) - OrderedAt(tx[t].ordered, v, b)
            /\ Reserved(t, v, b) \in Nat
            /\ OrderedAt(ordered, v, b) \in Nat /\ OrderedAt(tx[t].ordered, v, b) \in Nat
        BY <1>1, <1>2, <1>4, <1>6, ReservedIsHeld DEF d
      <4>3. OrderedAt(ordered', v, b) = OrderedAt(ordered, v, b) + OrderedAt(tx[t].ordered, v, b)
        BY <1>8 DEF OrderedAt
      <4>4. balance'[<<v, b>>] \in Int
        BY <1>1, <1>7, <3>1
      <4> QED
        BY <4>1, <4>2, <4>3, <4>4
    <3>2. CASE <<v, b>> \notin tx[t].locks
      BY <1>1, <1>9, <1>10, <3>2, StillThere
    <3> QED
      BY <3>1, <3>2
  <2> QED
    BY <2>1 DEF NeverPromisedTwice, HeldByDocs, Held
<1>12. HeldIsWhatIsCharged' /\ HeldInStore'
  <2>1. ASSUME NEW e \in Docs, NEW v \in Variants
        PROVE  /\ IF doc'[e].status = "DRAFT" /\ doc'[e].lines[v] > 0
                  THEN doc'[e].holds[v] # None /\ doc'[e].holds[v].quantity = doc'[e].lines[v]
                  ELSE doc'[e].holds[v] = None
               /\ doc'[e].holds[v] # None => doc'[e].holds[v].box \in StoreBoxes
    <3>1. CASE e = d
      BY <1>4, <1>5, <1>6, <3>1
    <3>2. CASE e # d
      BY <1>1, <1>6, <3>2 DEF HeldIsWhatIsCharged, HeldInStore
    <3> QED
      BY <3>1, <3>2
  <2> QED
    BY <2>1 DEF HeldIsWhatIsCharged, HeldInStore
\* What leaves the boxes of a reference is what the sale had of it.
<1>13. ASSUME NEW v \in Variants
       PROVE  UnitsIn(balance', v) = entered[v] - Sold(doc', v)
  <2>1. UnitsIn(balance, v) = entered[v] - Sold(doc, v)
    BY <1>1 DEF UnitsConserved, Sold
  <2>2. Sold(doc', v) = Sold(doc, v) + doc[d].lines[v] /\ Sold(doc, v) \in Int
    <3>1. \A e \in Docs : doc[e].lines[v] \in Int /\ doc'[e].lines[v] = doc[e].lines[v]
      BY <1>1, <1>4, <1>6, RowTypes, ConstantsAssumption DEF Doc
    <3>2. /\ \A e \in Docs \ {d} : doc'[e].status = doc[e].status
          /\ doc[d].status # "COMPLETED" /\ doc'[d].status = "COMPLETED"
      BY <1>2, <1>4, <1>6
    <3> QED
      BY <1>2, <3>1, <3>2, SoldMore
  <2>3. UnitsIn(balance', v) = UnitsIn(balance, v) - doc[d].lines[v]
    <3>1. \A c \in Boxes : <<v, c>> \in Places /\ balance'[<<v, c>>] = Quantity(t, <<v, c>>)
      BY <1>7 DEF Places
    <3>2. /\ balance \in [Places -> Int] /\ balance' \in [Places -> Int]
          /\ doc[d].lines[v] \in Nat
      BY <1>1, <1>2, <1>9, ConstantsAssumption DEF TypeOK, Doc
    <3>3. CASE v \in Taken(t)
      <4>1. PICK b \in StoreBoxes :
                   /\ tx[t].saves[<<v, b>>] = balance[<<v, b>>] - tx[t].lines[v]
                   /\ \A c \in Boxes \ {b} : tx[t].saves[<<v, c>>] = None
        BY <1>1, <3>3 DEF TakenInv, SavesLess
      <4>2. b \in Boxes /\ balance[<<v, b>>] \in Int
        BY <3>2 DEF Boxes, Places
      <4>3. balance'[<<v, b>>] = balance[<<v, b>>] - doc[d].lines[v]
        BY <1>2, <3>1, <3>2, <4>1, <4>2, ConstantsAssumption DEF Quantity
      <4>4. \A c \in Boxes \ {b} : balance'[<<v, c>>] = balance[<<v, c>>]
        BY <3>1, <4>1 DEF Quantity
      <4>5. /\ UnitsIn(balance', v) = UnitsIn(balance, v) + balance'[<<v, b>>] - balance[<<v, b>>]
            /\ UnitsIn(balance, v) \in Int
        BY <3>2, <4>2, <4>4, UnitsMoved
      <4> QED
        BY <3>2, <4>2, <4>3, <4>5
    <3>4. CASE v \notin Taken(t)
      <4>1. doc[d].lines[v] = 0
        BY <1>1, <1>2, <3>2, <3>4 DEF Taken, Selling
      <4>2. \A c \in Boxes : balance'[<<v, c>>] = balance[<<v, c>>]
        BY <1>1, <3>1, <3>4 DEF TakenInv, SavesNone, Quantity
      <4>3. UnitsIn(balance', v) = UnitsIn(balance, v)
        BY <4>2, UnitsSame
      <4>4. UnitsIn(balance, v) \in Int
        BY <3>2, UnitsAreWhole
      <4> QED
        BY <4>1, <4>3, <4>4
    <3> QED
      BY <3>3, <3>4
  <2>4. entered[v] \in Int /\ doc[d].lines[v] \in Int
    BY <1>1, <1>2, RowTypes DEF Doc
  <2> QED
    BY <2>1, <2>2, <2>3, <2>4
<1>14. UnitsConserved'
  BY <1>1, <1>13 DEF UnitsConserved, Sold
<1>15. \A p \in Places \ tx[t].locks :
          /\ balance'[p] = balance[p]
          /\ OrderedAt(ordered', p[1], p[2]) <= OrderedAt(ordered, p[1], p[2])
          /\ \A e \in Docs :
               HeldAt(doc'[e].holds, p[1], p[2]) <= HeldAt(doc[e].holds, p[1], p[2])
  <2> TAKE p \in Places \ tx[t].locks
  <2>1. p[1] \in Variants /\ p[2] \in Boxes /\ p = <<p[1], p[2]>>
    BY DEF Places
  <2> QED
    BY <1>10, <2>1
<1> QED
  BY <1>1, <1>6, <1>9, <1>11, <1>12, <1>14, <1>15, Commits DEF d

-----------------------------------------------------------------------------
(* Units are moved by hand *)

\* The lowest of the ends there are.
LEMMA LowestEnd ==
  ASSUME NEW from \in Boxes \cup {None}, NEW to \in Boxes \cup {None},
         NEW S \in SUBSET EndsOf(from, to), S # {}
  PROVE  Min(S) \in S /\ \A b \in S : Min(S) <= b /\ b \in Int
<1>1. \A b \in S : b \in Int /\ (b = from \/ b = to)
  BY ConstantsAssumption DEF EndsOf
<1>2. \E x \in S : \A y \in S : x <= y
  <2>1. PICK a \in S : TRUE
    OBVIOUS
  <2>2. CASE \A y \in S : a <= y
    BY <2>2
  <2>3. CASE ~ \A y \in S : a <= y
    <3>1. PICK c \in S : ~(a <= c)
      BY <2>3
    <3>2. c < a /\ \A y \in S : y = a \/ y = c
      BY <1>1, <3>1
    <3> QED
      BY <1>1, <3>2
  <2> QED
    BY <2>2, <2>3
<1> QED
  BY <1>1, <1>2 DEF Min

LEMMA BeginMoveKeeps ==
  ASSUME StockIInv, NEW t \in Clients, NEW v \in Variants,
         NEW from \in Boxes \cup {None}, NEW to \in Boxes \cup {None}, BeginMove(t, v, from, to)
  PROVE  StockIInv'
<1> DEFINE p == <<v, Min(EndsOf(from, to))>>
           r == [NoTransaction EXCEPT !.op = "move", !.at = "balance", !.from = from,
                                      !.to = to, !.want = p]
<1>1. /\ TypeOK /\ from # to
      /\ tx' = [tx EXCEPT ![t] = r] /\ UNCHANGED <<balance, entered, doc, ordered>>
  BY DEF StockIInv, ReservationsHold, BeginMove, Start
<1>2. /\ p[1] = v /\ p[2] \in EndsOf(from, to)
      /\ \A b \in EndsOf(from, to) : p[2] <= b
  <2>1. EndsOf(from, to) # {}
    BY <1>1 DEF EndsOf
  <2> QED
    BY <2>1, LowestEnd
<1>3. p \in Places
  BY <1>2 DEF EndsOf, Places
<1> HIDE DEF p
<1>4. /\ r \in Transaction
      /\ r.op = "move" /\ r.at = "balance" /\ r.doc = None /\ r.holds = NoHolds
      /\ r.from = from /\ r.to = to /\ r.want = p
      /\ r.saves = [q \in Places |-> None] /\ r.ordered = Nothing
      /\ r.series = FALSE /\ r.locks = {}
  BY <1>3, Idlest DEF NoTransaction, Transaction
<1>5. tx'[t] = r
  BY <1>1 DEF TypeOK
<1> HIDE DEF r
<1>6. KnownInv(t)'
  <2>1. LockedInv(t)'
    BY <1>3, <1>4, <1>5 DEF LockedInv, Nothing
  <2>2. MoveInv(t)'
    BY <1>1, <1>2, <1>3, <1>4, <1>5 DEF MoveInv
  <2>3. SyncInv(t)' /\ ChargeInv(t)' /\ TakenInv(t)' /\ PromiseInv(t)'
    BY <1>4, <1>5 DEF SyncInv, ChargeInv, TakenInv, PromiseInv
  <2> QED
    BY <2>1, <2>2, <2>3 DEF KnownInv
<1> QED
  BY <1>1, <1>4, <1>6, Begins

\* A movement sees held apart what everybody sees, and it is there.
LEMMA MoveReserved ==
  ASSUME StockIInv, NEW t \in Clients, tx[t].doc = None, tx[t].holds = NoHolds,
         tx[t].ordered = Nothing, NEW v \in Variants, NEW b \in Boxes
  PROVE  /\ Reserved(t, v, b) = Held(doc, Docs, v, b) + OrderedAt(ordered, v, b)
         /\ Reserved(t, v, b) <= balance[<<v, b>>]
         /\ Held(doc, Docs, v, b) \in Nat /\ OrderedAt(ordered, v, b) \in Nat
<1>1. TypeOK /\ NeverPromisedTwice
  BY DEF StockIInv, ReservationsHold
<1>2. HeldAt(tx[t].holds, v, b) = 0 /\ OrderedAt(tx[t].ordered, v, b) = 0
  BY DEF HeldAt, OrderedAt, NoHolds, Nothing
<1>3. Docs \ {tx[t].doc} = Docs
  BY ConstantsAssumption
<1>4. /\ Reserved(t, v, b) =
           Held(doc, Docs \ {tx[t].doc}, v, b) + HeldAt(tx[t].holds, v, b)
             + OrderedAt(ordered, v, b) + OrderedAt(tx[t].ordered, v, b)
      /\ Held(doc, Docs \ {tx[t].doc}, v, b) \in Nat
      /\ OrderedAt(ordered, v, b) \in Nat
  BY <1>1, ReservedIs
<1>5. Held(doc, Docs, v, b) + OrderedAt(ordered, v, b) <= balance[<<v, b>>]
  BY <1>1 DEF NeverPromisedTwice, HeldByDocs, Held
<1>6. Held(doc, Docs \ {tx[t].doc}, v, b) = Held(doc, Docs, v, b)
  BY <1>3, Zenon
<1> QED
  BY <1>2, <1>4, <1>5, <1>6

LEMMA LockForMoveKeeps ==
  ASSUME StockIInv, NEW t \in Clients, LockForMove(t)
  PROVE  StockIInv'
<1> DEFINE p    == tx[t].want
           ends == EndsOf(tx[t].from, tx[t].to)
           left == {b \in ends : <<p[1], b>> \notin tx[t].locks \cup {p}}
           at   == IF left = {} THEN "commit" ELSE "balance"
           want == IF left = {} THEN p ELSE <<p[1], Min(left)>>
           r    == [tx[t] EXCEPT !.locks = tx[t].locks \cup {p},
                                 !.saves = [tx[t].saves EXCEPT ![p] = balance[p]],
                                 !.at = at, !.want = want]
<1>1. /\ TypeOK /\ tx[t] \in Transaction /\ LockedInv(t) /\ MoveInv(t)
      /\ tx[t].locks \subseteq Places
      /\ tx[t].op = "move" /\ tx[t].at = "balance" /\ PlaceFree(p)
      /\ UNCHANGED <<balance, entered, doc, ordered>>
  BY Knows DEF LockForMove, Granted
<1>2. /\ tx[t].doc = None /\ tx[t].holds = NoHolds /\ tx[t].ordered = Nothing
      /\ ~tx[t].series /\ tx[t].from # tx[t].to
      /\ p \in Places /\ p[2] \in ends
      /\ \A q \in Places : tx[t].saves[q] = IF q \in tx[t].locks THEN balance[q] ELSE None
      /\ \A q \in tx[t].locks : q[1] = p[1] /\ q[2] \in ends /\ q[2] < p[2]
      /\ \A b \in ends : <<p[1], b>> \in tx[t].locks \/ p[2] <= b
  BY <1>1 DEF MoveInv
<1>3. tx' = [tx EXCEPT ![t] = r]
  BY <1>1, <1>2 DEF LockForMove, TypeOK, Transaction
<1>4. /\ tx[t].from \in Boxes \cup {None} /\ tx[t].to \in Boxes \cup {None}
      /\ ends \subseteq Boxes /\ Boxes \subseteq Int
      /\ p[1] \in Variants /\ p[2] \in Boxes /\ p = <<p[1], p[2]>>
  BY <1>1, <1>2, ConstantsAssumption DEF Transaction, EndsOf, Places
<1>5. left # {} => Min(left) \in left /\ \A b \in left : Min(left) <= b
  <2>1. left \subseteq ends
    OBVIOUS
  <2> HIDE DEF left
  <2> QED
    BY <1>4, <2>1, LowestEnd
<1>6. want \in Places /\ want[1] = p[1] /\ want[2] \in ends
  BY <1>2, <1>4, <1>5 DEF Places
<1>7. \A q \in tx[t].locks \cup {p} : q[1] = p[1] /\ q[2] \in ends /\ q = <<q[1], q[2]>>
  BY <1>1, <1>2, <1>4 DEF Places
<1> DEFINE locked == tx[t].locks \cup {p}
<1>8. left = {} => locked = {<<p[1], b>> : b \in ends}
  BY <1>7
<1>9. left # {} => /\ \A q \in locked : q[2] < want[2]
                   /\ \A b \in ends : <<p[1], b>> \in locked \/ want[2] <= b
  <2> SUFFICES ASSUME left # {}
               PROVE  /\ \A q \in locked : q[2] < want[2]
                      /\ \A b \in ends : <<p[1], b>> \in locked \/ want[2] <= b
    OBVIOUS
  <2>1. want = <<p[1], Min(left)>> /\ want[2] = Min(left)
    OBVIOUS
  <2>2. want[2] \in ends /\ <<p[1], want[2]>> \notin locked /\ want[2] \in Int
    BY <1>4, <1>5, <2>1
  <2>3. p[2] <= want[2] /\ p[2] # want[2] /\ p[2] \in Int
    BY <1>2, <1>4, <2>2
  <2>4. \A q \in locked : q[2] < want[2]
    <3> TAKE q \in locked
    <3> HIDE DEF want
    <3>1. q[2] \in Int
      BY <1>4, <1>7
    <3>2. CASE q = p
      BY <2>2, <2>3, <3>2
    <3>3. CASE q # p
      <4>1. q[2] < p[2]
        BY <1>2, <3>3
      <4> QED
        BY <2>2, <2>3, <3>1, <4>1
    <3> QED
      BY <3>2, <3>3
  <2>5. \A b \in ends : <<p[1], b>> \in locked \/ want[2] <= b
    BY <1>5, <2>1
  <2> QED
    BY <2>4, <2>5
<1>10. locked \subseteq Places /\ p \in locked /\ balance[p] \in 0 .. MaxQty
  BY <1>1, <1>2, RowTypes
<1>11. /\ at \in {"commit", "balance"} /\ (at = "commit" <=> left = {})
  OBVIOUS
<1> HIDE DEF at, want, left
<1>12. /\ r \in Transaction
       /\ r.op = "move" /\ r.at = at /\ r.doc = None /\ r.holds = NoHolds
       /\ r.from = tx[t].from /\ r.to = tx[t].to /\ r.want = want
       /\ r.saves = [tx[t].saves EXCEPT ![p] = balance[p]] /\ r.ordered = Nothing
       /\ r.series = tx[t].series /\ r.locks = locked
  <2>1. [tx[t].saves EXCEPT ![p] = balance[p]] \in [Places -> (0 .. MaxQty) \cup {None}]
    BY <1>1, <1>10 DEF Transaction
  <2> HIDE DEF p, locked
  <2>2. r = [tx[t] EXCEPT !.locks = locked,
                          !.saves = [tx[t].saves EXCEPT ![p] = balance[p]],
                          !.at = at, !.want = want]
    BY DEF locked, p
  <2> HIDE DEF r
  <2>3. r \in Transaction
    BY <1>1, <1>6, <1>10, <1>11, <2>1, <2>2 DEF Transaction
  <2> QED
    BY <1>1, <1>2, <2>2, <2>3 DEF Transaction
<1> HIDE DEF locked, ends, r
<1>13. tx'[t] = r
  BY <1>1, <1>3 DEF TypeOK
<1>14. \A q \in Places : r.saves[q] = IF q \in locked THEN balance[q] ELSE None
  <2> TAKE q \in Places
  <2>1. tx[t].saves \in [Places -> (0 .. MaxQty) \cup {None}]
    BY <1>1 DEF Transaction
  <2>2. CASE q = p
    BY <1>2, <1>10, <1>12, <2>1, <2>2
  <2>3. CASE q # p
    BY <1>2, <1>12, <2>1, <2>3 DEF locked
  <2> QED
    BY <2>2, <2>3
<1>15. KnownInv(t)'
  <2>1. LockedInv(t)'
    BY <1>6, <1>11, <1>12, <1>13, <1>14 DEF LockedInv, Nothing
  <2>2. MoveInv(t)'
    <3>1. EndsOf(tx'[t].from, tx'[t].to) = ends
      BY <1>12, <1>13 DEF ends
    <3>2. /\ tx'[t].at = "commit" => tx'[t].locks = {<<tx'[t].want[1], b>> : b \in ends}
          /\ tx'[t].at = "balance" =>
               /\ \A q \in tx'[t].locks :
                    q[1] = tx'[t].want[1] /\ q[2] \in ends /\ q[2] < tx'[t].want[2]
               /\ \A b \in ends : <<tx'[t].want[1], b>> \in tx'[t].locks \/ tx'[t].want[2] <= b
      BY <1>6, <1>7, <1>8, <1>9, <1>11, <1>12, <1>13 DEF locked
    <3>3. /\ tx'[t].doc = None /\ tx'[t].holds = NoHolds /\ tx'[t].ordered = Nothing
          /\ ~tx'[t].series /\ tx'[t].from # tx'[t].to
          /\ tx'[t].at \in {"balance", "commit"}
          /\ tx'[t].want \in Places /\ tx'[t].want[2] \in ends
      BY <1>2, <1>6, <1>11, <1>12, <1>13
    <3>4. \A q \in Places : tx'[t].saves[q] = IF q \in tx'[t].locks THEN balance'[q] ELSE None
      BY <1>1, <1>12, <1>13, <1>14
    <3> QED
      BY <3>1, <3>2, <3>3, <3>4 DEF MoveInv
  <2>3. SyncInv(t)' /\ ChargeInv(t)' /\ TakenInv(t)'
    BY <1>12, <1>13 DEF SyncInv, ChargeInv, TakenInv
  <2>4. PromiseInv(t)'
    <3> SUFFICES ASSUME NEW q \in locked
                 PROVE  Reserved(t, q[1], q[2])' <= Quantity(t, q)'
      BY <1>12, <1>13 DEF PromiseInv
    <3>1. q \in Places /\ q[1] \in Variants /\ q[2] \in Boxes /\ q = <<q[1], q[2]>>
      BY <1>10 DEF Places
    <3>2. Reserved(t, q[1], q[2])' = Reserved(t, q[1], q[2])
      BY <1>1, <1>2, <1>12, <1>13 DEF Reserved, HeldByDocs
    <3>3. Reserved(t, q[1], q[2]) <= balance[<<q[1], q[2]>>]
      BY <1>2, <3>1, MoveReserved
    <3>4. Quantity(t, q)' = balance[q]
      BY <1>1, <1>13, <1>14, <3>1, ConstantsAssumption DEF Quantity
    <3> QED
      BY <3>1, <3>2, <3>3, <3>4
  <2> QED
    BY <2>1, <2>2, <2>3, <2>4 DEF KnownInv
<1>16. /\ r.doc = tx[t].doc /\ r.series = tx[t].series
       /\ \A q \in r.locks : q \in tx[t].locks \/ PlaceFree(q)
  BY <1>1, <1>2, <1>12 DEF locked
<1> QED
  BY <1>1, <1>3, <1>12, <1>15, <1>16, Advances

\* A movement as it commits: it knows the balances it read, and moves those.
LEMMA MoveReady ==
  ASSUME StockIInv, NEW t \in Clients, tx[t].op = "move", tx[t].at = "commit"
  PROVE  /\ tx[t].doc = None /\ tx[t].holds = NoHolds /\ tx[t].ordered = Nothing
         /\ tx[t].want[1] \in Variants /\ tx[t].from # tx[t].to
         /\ tx[t].from \in Boxes \cup {None} /\ tx[t].to \in Boxes \cup {None}
         /\ \A p \in Places : Quantity(t, p) = balance[p]
         /\ tx[t].locks = {<<tx[t].want[1], b>> : b \in EndsOf(tx[t].from, tx[t].to)}
<1>1. TypeOK /\ tx[t] \in Transaction /\ MoveInv(t)
  BY Knows
<1>2. /\ tx[t].doc = None /\ tx[t].holds = NoHolds /\ tx[t].ordered = Nothing
      /\ tx[t].want \in Places /\ tx[t].from # tx[t].to
      /\ \A q \in Places : tx[t].saves[q] = IF q \in tx[t].locks THEN balance[q] ELSE None
      /\ tx[t].locks = {<<tx[t].want[1], b>> : b \in EndsOf(tx[t].from, tx[t].to)}
  BY <1>1 DEF MoveInv
<1>3. tx[t].want[1] \in Variants
  BY <1>2 DEF Places
<1>4. tx[t].from \in Boxes \cup {None} /\ tx[t].to \in Boxes \cup {None}
  BY <1>1 DEF Transaction
<1>5. \A p \in Places : Quantity(t, p) = balance[p]
  BY <1>2 DEF Quantity
<1> QED
  BY <1>2, <1>3, <1>4, <1>5

LEMMA CommitMoveKeeps ==
  ASSUME StockIInv, NEW t \in Clients, NEW amount \in Amounts, CommitMove(t, amount)
  PROVE  StockIInv'
<1>1. PICK v, from, to : v = tx[t].want[1] /\ from = tx[t].from /\ to = tx[t].to
  OBVIOUS
<1>2. /\ TypeOK /\ NeverPromisedTwice /\ HeldIsWhatIsCharged /\ UnitsConserved /\ HeldInStore
      /\ tx[t].op = "move" /\ tx[t].at = "commit" /\ doc' = doc /\ ordered' = ordered
      /\ tx' = [tx EXCEPT ![t] = NoTransaction]
  BY DEF CommitMove, Finish, StockIInv, ReservationsHold
<1>3. /\ tx[t].doc = None /\ tx[t].holds = NoHolds /\ tx[t].ordered = Nothing
      /\ v \in Variants /\ from # to /\ from \in Boxes \cup {None} /\ to \in Boxes \cup {None}
      /\ \A p \in Places : Quantity(t, p) = balance[p]
      /\ tx[t].locks = {<<v, b>> : b \in EndsOf(from, to)}
  BY <1>1, <1>2, MoveReady
<1> DEFINE moved == [b \in Boxes |-> (IF b = to THEN amount ELSE 0)
                                     - (IF b = from THEN amount ELSE 0)]
           in  == IF to # None THEN amount ELSE 0
           out == IF from # None THEN amount ELSE 0
<1>4. /\ balance' = [p \in Places |-> IF p[1] = v THEN Quantity(t, p) + moved[p[2]]
                                                  ELSE balance[p]]
      /\ entered' = [entered EXCEPT ![v] = entered[v] + in - out]
      /\ from # None => Available(t, <<v, from>>) >= amount
      /\ to # None => Quantity(t, <<v, to>>) + amount <= MaxQty
  BY <1>1, <1>2 DEF CommitMove, CanTake, TypeOK
<1>5. /\ amount \in Nat /\ amount > 0 /\ in \in Int /\ out \in Int
      /\ None \notin Boxes
      /\ \A p \in Places : balance[p] \in 0 .. MaxQty /\ balance[p] \in Int
  <2>1. amount \in Nat /\ amount > 0
    BY ConstantsAssumption DEF Amounts
  <2>2. None \notin Boxes
    <3>1. None \notin Int
      BY ConstantsAssumption
    <3>2. \A b \in Boxes : b \in Int
      BY ConstantsAssumption
    <3> QED
      BY <3>1, <3>2, Zenon
  <2>3. \A p \in Places : balance[p] \in 0 .. MaxQty /\ balance[p] \in Int
    BY <1>2, RowTypes, ConstantsAssumption
  <2> QED
    BY <2>1, <2>2, <2>3
\* Each balance, one way or the other.
<1>6. /\ to # None => /\ to \in Boxes /\ <<v, to>> \in Places
                      /\ balance'[<<v, to>>] = balance[<<v, to>>] + amount
      /\ from # None => /\ from \in Boxes /\ <<v, from>> \in Places
                        /\ balance'[<<v, from>>] = balance[<<v, from>>] - amount
      /\ \A p \in Places : p # <<v, to>> /\ p # <<v, from>> => balance'[p] = balance[p]
  <2>1. ASSUME to # None
        PROVE /\ to \in Boxes /\ <<v, to>> \in Places
              /\ balance'[<<v, to>>] = balance[<<v, to>>] + amount
    <3>1. to \in Boxes /\ <<v, to>> \in Places
      BY <1>3, <2>1 DEF Places
    <3>2. moved[to] = amount
      BY <1>3, <1>5, <3>1
    <3>3. balance'[<<v, to>>] = Quantity(t, <<v, to>>) + moved[to]
      <4> HIDE DEF moved
      <4> QED
        BY <1>4, <3>1
    <3> QED
      BY <1>3, <3>1, <3>2, <3>3
  <2>2. ASSUME from # None
        PROVE /\ from \in Boxes /\ <<v, from>> \in Places
              /\ balance'[<<v, from>>] = balance[<<v, from>>] - amount
    <3>1. from \in Boxes /\ <<v, from>> \in Places
      BY <1>3, <2>2 DEF Places
    <3>2. moved[from] = 0 - amount
      BY <1>3, <1>5, <3>1
    <3>3. balance'[<<v, from>>] = Quantity(t, <<v, from>>) + moved[from]
      <4> HIDE DEF moved
      <4> QED
        BY <1>4, <3>1
    <3>4. balance[<<v, from>>] \in Int
      BY <1>5, <3>1
    <3> QED
      BY <1>3, <1>5, <3>1, <3>2, <3>3, <3>4
  <2>3. ASSUME NEW p \in Places, p # <<v, to>>, p # <<v, from>>
        PROVE balance'[p] = balance[p]
    <3>1. p[2] \in Boxes /\ p = <<p[1], p[2]>>
      BY DEF Places
    <3>2. CASE p[1] = v
      <4>1. moved[p[2]] = 0
        BY <1>5, <2>3, <3>1, <3>2
      <4>2. balance'[p] = Quantity(t, p) + moved[p[2]]
        <5> HIDE DEF moved
        <5> QED
          BY <1>4, <3>2
      <4> QED
        BY <1>3, <1>5, <4>1, <4>2
    <3>3. CASE p[1] # v
      BY <1>4, <3>3
    <3> QED
      BY <3>2, <3>3
  <2> QED
    BY <2>1, <2>2, <2>3
\* What is taken out was not held apart.
<1>7. from # None =>
        /\ Held(doc, Docs, v, from) + OrderedAt(ordered, v, from)
             <= balance[<<v, from>>] - amount
        /\ Held(doc, Docs, v, from) \in Nat /\ OrderedAt(ordered, v, from) \in Nat
  <2> SUFFICES ASSUME from # None
               PROVE  /\ Held(doc, Docs, v, from) + OrderedAt(ordered, v, from)
                           <= balance[<<v, from>>] - amount
                      /\ Held(doc, Docs, v, from) \in Nat
                      /\ OrderedAt(ordered, v, from) \in Nat
    OBVIOUS
  <2>1. from \in Boxes /\ <<v, from>> \in Places
    BY <1>6
  <2>2. /\ Reserved(t, v, from) = Held(doc, Docs, v, from) + OrderedAt(ordered, v, from)
        /\ Held(doc, Docs, v, from) \in Nat /\ OrderedAt(ordered, v, from) \in Nat
    BY <1>3, <2>1, MoveReserved
  <2>3. Quantity(t, <<v, from>>) = balance[<<v, from>>] /\ balance[<<v, from>>] \in Int
    BY <1>3, <1>5, <2>1
  <2>4. Available(t, <<v, from>>) = Quantity(t, <<v, from>>) - Reserved(t, v, from)
    BY DEF Available
  <2>5. Available(t, <<v, from>>) >= amount
    BY <1>4
  <2> QED
    BY <1>5, <2>2, <2>3, <2>4, <2>5
<1> HIDE DEF moved
<1>8. \A p \in Places : balance'[p] \in 0 .. MaxQty
  <2> TAKE p \in Places
  <2>1. balance[p] \in 0 .. MaxQty
    BY <1>5
  <2>2. CASE to # None /\ p = <<v, to>>
    BY <1>3, <1>4, <1>5, <1>6, <2>1, <2>2, ConstantsAssumption
  <2>3. CASE from # None /\ p = <<v, from>>
    BY <1>5, <1>6, <1>7, <2>1, <2>3, ConstantsAssumption
  <2>4. CASE p # <<v, to>> /\ p # <<v, from>>
    BY <1>6, <2>1, <2>4
  <2>5. p[2] \in Boxes
    BY DEF Places
  <2> QED
    BY <1>5, <2>2, <2>3, <2>4, <2>5
<1>9. TypeOK'
  <2>1. balance' \in [Places -> 0 .. MaxQty]
    BY <1>4, <1>8
  <2>2. entered' \in [Variants -> Int]
    <3>1. entered \in [Variants -> Int] /\ entered[v] + in - out \in Int
      BY <1>2, <1>3, <1>5 DEF TypeOK
    <3> QED
      BY <1>4, <3>1
  <2> QED
    BY <1>2, <2>1, <2>2, Idlest DEF TypeOK
<1>10. NeverPromisedTwice'
  <2>1. ASSUME NEW w \in Variants, NEW b \in Boxes
        PROVE  Held(doc, Docs, w, b) + OrderedAt(ordered, w, b) <= balance'[<<w, b>>]
    <3>1. /\ <<w, b>> \in Places /\ balance[<<w, b>>] \in Int
          /\ Held(doc, Docs, w, b) + OrderedAt(ordered, w, b) <= balance[<<w, b>>]
      BY <1>2, <1>5 DEF NeverPromisedTwice, HeldByDocs, Held, Places
    <3>2. CASE <<w, b>> = <<v, from>>
      BY <1>5, <1>6, <1>7, <3>2
    <3>3. CASE <<w, b>> = <<v, to>>
      <4>1. Held(doc, Docs, w, b) \in Nat /\ OrderedAt(ordered, w, b) \in Nat
        BY <1>3, MoveReserved
      <4>2. balance'[<<w, b>>] = balance[<<w, b>>] + amount
        BY <1>5, <1>6, <3>3
      <4> QED
        BY <1>5, <3>1, <4>1, <4>2
    <3>4. CASE <<w, b>> # <<v, to>> /\ <<w, b>> # <<v, from>>
      BY <1>6, <3>1, <3>4
    <3> QED
      BY <3>2, <3>3, <3>4
  <2> QED
    BY <1>2, <2>1 DEF NeverPromisedTwice, HeldByDocs, Held
<1>11. HeldIsWhatIsCharged' /\ HeldInStore'
  BY <1>2 DEF HeldIsWhatIsCharged, HeldInStore
\* What comes in, and what goes out, is what the balances of the reference change.
<1>12. UnitsIn(balance', v) = UnitsIn(balance, v) + in - out /\ UnitsIn(balance, v) \in Int
  <2> DEFINE mid == IF to = None THEN balance
                    ELSE [balance EXCEPT ![<<v, to>>] = balance[<<v, to>>] + amount]
  <2>1. balance \in [Places -> Int] /\ balance' \in [Places -> Int]
    BY <1>2, <1>9, ConstantsAssumption DEF TypeOK
  <2>2. mid \in [Places -> Int]
    <3>1. CASE to = None
      BY <2>1, <3>1
    <3>2. CASE to # None
      <4>1. balance[<<v, to>>] + amount \in Int
        BY <1>5, <1>6, <3>2
      <4> QED
        BY <2>1, <3>2, <4>1
    <3> QED
      BY <3>1, <3>2
  <2>3. \A p \in Places : mid[p] = IF to # None /\ p = <<v, to>> THEN balance[p] + amount
                                                                ELSE balance[p]
    BY <1>6, <2>1
  <2> HIDE DEF mid
  <2>4. UnitsIn(mid, v) = UnitsIn(balance, v) + in /\ UnitsIn(balance, v) \in Int
    <3>1. UnitsIn(balance, v) \in Int
      BY <1>3, <2>1, UnitsAreWhole
    <3>2. CASE to = None
      <4>1. \A c \in Boxes : mid[<<v, c>>] = balance[<<v, c>>]
        BY <1>3, <2>3, <3>2 DEF Places
      <4>2. UnitsIn(mid, v) = UnitsIn(balance, v)
        BY <4>1, UnitsSame
      <4> QED
        BY <3>1, <3>2, <4>2
    <3>3. CASE to # None
      <4>1. \A c \in Boxes \ {to} : mid[<<v, c>>] = balance[<<v, c>>]
        BY <1>3, <2>3, <3>3 DEF Places
      <4>2. UnitsIn(mid, v) = UnitsIn(balance, v) + mid[<<v, to>>] - balance[<<v, to>>]
        BY <1>3, <1>6, <2>1, <2>2, <3>3, <4>1, UnitsMoved
      <4>3. mid[<<v, to>>] = balance[<<v, to>>] + amount /\ balance[<<v, to>>] \in Int
        BY <1>5, <1>6, <2>3, <3>3
      <4> QED
        BY <1>5, <3>1, <3>3, <4>2, <4>3
    <3> QED
      BY <3>2, <3>3
  <2>5. UnitsIn(balance', v) = UnitsIn(mid, v) - out
    <3>1. UnitsIn(mid, v) \in Int
      BY <1>3, <2>2, UnitsAreWhole
    <3>2. CASE from = None
      <4>1. \A c \in Boxes : balance'[<<v, c>>] = mid[<<v, c>>]
        <5> TAKE c \in Boxes
        <5>1. <<v, c>> \in Places /\ c # from
          BY <1>3, <1>5, <3>2 DEF Places
        <5> QED
          BY <1>5, <1>6, <2>3, <5>1
      <4>2. UnitsIn(balance', v) = UnitsIn(mid, v)
        BY <4>1, UnitsSame
      <4> QED
        BY <3>1, <3>2, <4>2
    <3>3. CASE from # None
      <4>1. \A c \in Boxes \ {from} : balance'[<<v, c>>] = mid[<<v, c>>]
        <5> TAKE c \in Boxes \ {from}
        <5>1. <<v, c>> \in Places /\ c # from
          BY <1>3 DEF Places
        <5> QED
          BY <1>5, <1>6, <2>3, <5>1
      <4>2. UnitsIn(balance', v) = UnitsIn(mid, v) + balance'[<<v, from>>] - mid[<<v, from>>]
        BY <1>3, <1>6, <2>1, <2>2, <3>3, <4>1, UnitsMoved
      <4>3. mid[<<v, from>>] = balance[<<v, from>>] /\ balance[<<v, from>>] \in Int
        BY <1>3, <1>5, <1>6, <2>3, <3>3
      <4> QED
        BY <1>5, <1>6, <3>1, <3>3, <4>2, <4>3
    <3> QED
      BY <3>2, <3>3
  <2> QED
    BY <1>5, <2>4, <2>5
<1> HIDE DEF in, out
<1>13. UnitsConserved'
  <2>1. ASSUME NEW w \in Variants
        PROVE  UnitsIn(balance', w) = entered'[w] - Sold(doc', w)
    <3>1. UnitsIn(balance, w) = entered[w] - Sold(doc, w) /\ Sold(doc', w) = Sold(doc, w)
      BY <1>2 DEF UnitsConserved, Sold
    <3>2. CASE w = v
      <4>1. entered'[v] = entered[v] + in - out /\ entered[v] \in Int
        BY <1>2, <1>3, <1>4 DEF TypeOK
      <4>2. Sold(doc, v) \in Int
        BY <1>2, <1>3, SoldIsWhole
      <4> QED
        BY <1>5, <1>12, <3>1, <3>2, <4>1, <4>2
    <3>3. CASE w # v
      <4>1. entered'[w] = entered[w]
        BY <1>2, <1>4, <3>3 DEF TypeOK
      <4>2. \A c \in Boxes : balance'[<<w, c>>] = balance[<<w, c>>]
        BY <1>6, <3>3 DEF Places
      <4>3. UnitsIn(balance', w) = UnitsIn(balance, w)
        BY <4>2, UnitsSame
      <4> QED
        BY <3>1, <4>1, <4>3
    <3> QED
      BY <3>2, <3>3
  <2> QED
    BY <2>1 DEF UnitsConserved, Sold
<1>14. \A p \in Places \ tx[t].locks :
          /\ balance'[p] = balance[p]
          /\ OrderedAt(ordered', p[1], p[2]) <= OrderedAt(ordered, p[1], p[2])
          /\ \A e \in Docs :
               HeldAt(doc'[e].holds, p[1], p[2]) <= HeldAt(doc[e].holds, p[1], p[2])
  <2> TAKE p \in Places \ tx[t].locks
  <2>1. p[1] \in Variants /\ p[2] \in Boxes /\ p = <<p[1], p[2]>>
    BY DEF Places
  <2>2. p # <<v, to>> /\ p # <<v, from>>
    BY <1>3, <1>5, <2>1 DEF EndsOf
  <2>3. OrderedAt(ordered, p[1], p[2]) \in Nat
    BY <1>2, <2>1, ReservedIs
  <2>4. \A e \in Docs : HeldAt(doc[e].holds, p[1], p[2]) \in Nat
    BY <1>2, <2>1, RowTypes, HeldAtType DEF Doc, HoldsRow
  <2> QED
    BY <1>2, <1>6, <2>2, <2>3, <2>4
<1> QED
  BY <1>2, <1>9, <1>10, <1>11, <1>13, <1>14, Commits

-----------------------------------------------------------------------------
(* Who waits for whom *)

\* Of the charges, only the one that has the number locks anything.
LEMMA ChargesNeverEmbrace ==
  ASSUME StockIInv, NEW S \in SUBSET {t \in Clients : tx[t].op = "charge"}, S # {}
  PROVE  \E t \in S : \A u \in S \ {t} : ~WaitsFor(t, u)
<1>1. \A t \in S : /\ t \in Clients /\ tx[t].op = "charge"
                   /\ tx[t].at = "series" => tx[t].locks = {}
                   /\ tx[t].series <=> tx[t].at # "series"
  <2> TAKE t \in S
  <2>1. t \in Clients /\ tx[t].op = "charge"
    OBVIOUS
  <2>2. ChargeInv(t)
    BY <2>1, Knows
  <2> QED
    BY <2>1, <2>2 DEF ChargeInv
<1>2. CASE \E t \in S : tx[t].series
  <2>1. PICK t \in S : tx[t].series
    BY <1>2
  <2>2. ASSUME NEW u \in S \ {t} PROVE ~WaitsFor(t, u)
    <3>1. ~tx[u].series
      BY <1>1, <2>1 DEF StockIInv, Exclusive
    <3>2. tx[u].locks = {}
      BY <1>1, <3>1
    <3> QED
      BY <3>1, <3>2 DEF WaitsFor
  <2> QED
    BY <2>1, <2>2
<1>3. CASE \A t \in S : ~tx[t].series
  <2>1. PICK t \in S : TRUE
    OBVIOUS
  <2>2. ASSUME NEW u \in S \ {t} PROVE ~WaitsFor(t, u)
    BY <1>1, <1>3 DEF WaitsFor
  <2> QED
    BY <2>1, <2>2
<1> QED
  BY <1>2, <1>3

\* Of the movements, the one that waits for the greatest box, or one that waits
\* for none: whoever waits has only locked lower boxes than the one it waits for.
LEMMA MovesNeverEmbrace ==
  ASSUME StockIInv, NEW S \in SUBSET {t \in Clients : tx[t].op = "move"}, S # {}
  PROVE  \E t \in S : \A u \in S \ {t} : ~WaitsFor(t, u)
<1>1. \A t \in S : /\ t \in Clients /\ tx[t].at \in {"balance", "commit"} /\ ~tx[t].series
                   /\ tx[t].want[2] \in Boxes /\ tx[t].want = <<tx[t].want[1], tx[t].want[2]>>
                   /\ tx[t].at = "balance" =>
                        \A p \in tx[t].locks : p[2] < tx[t].want[2]
  <2> TAKE t \in S
  <2>1. t \in Clients /\ tx[t].op = "move"
    OBVIOUS
  <2>2. MoveInv(t)
    BY <2>1, Knows
  <2>3. /\ tx[t].at \in {"balance", "commit"} /\ ~tx[t].series /\ tx[t].want \in Places
        /\ tx[t].at = "balance" => \A p \in tx[t].locks : p[2] < tx[t].want[2]
    BY <2>1, <2>2 DEF MoveInv
  <2> QED
    BY <2>1, <2>3 DEF Places
<1>2. CASE \E t \in S : tx[t].at # "balance"
  <2>1. PICK t \in S : tx[t].at # "balance"
    BY <1>2
  <2>2. \A u \in S \ {t} : ~WaitsFor(t, u)
    BY <1>1, <2>1 DEF WaitsFor
  <2> QED
    BY <2>2
<1>3. CASE \A t \in S : tx[t].at = "balance"
  <2> DEFINE wanted == {b \in Boxes : \E t \in S : tx[t].want[2] = b}
             id == [b \in Boxes |-> b]
  <2>1. IsFiniteSet(wanted)
    BY ConstantsAssumption, FS_AddElement, FS_Subset DEF Boxes
  <2>2. wanted # {} /\ \A b \in wanted : b \in Int /\ id[b] = b
    BY <1>1, ConstantsAssumption
  <2>3. PICK b \in wanted : \A c \in wanted : c <= b
    <3>1. \E x \in wanted : \A y \in wanted : id[y] <= id[x]
      <4> HIDE DEF wanted, id
      <4> QED
        BY <2>1, <2>2, Largest
    <3> QED
      BY <2>2, <3>1
  <2>4. PICK t \in S : tx[t].want[2] = b
    OBVIOUS
  <2>5. ASSUME NEW u \in S \ {t} PROVE ~WaitsFor(t, u)
    <3>1. tx[u].want[2] \in wanted /\ tx[u].want[2] <= b
      BY <1>1, <2>3
    <3>2. tx[t].want \notin tx[u].locks
      <4>1. ASSUME tx[t].want \in tx[u].locks PROVE FALSE
        <5>1. tx[t].want[2] < tx[u].want[2]
          BY <1>1, <1>3, <4>1
        <5>2. tx[u].want[2] \in Int /\ b \in Int
          BY <2>2, <3>1
        <5> QED
          BY <2>4, <3>1, <5>1, <5>2
      <4> QED
        BY <4>1
    <3> QED
      BY <1>1, <1>3, <3>2 DEF WaitsFor
  <2> QED
    BY <2>5
<1> QED
  BY <1>2, <1>3

-----------------------------------------------------------------------------

\* Whatever is done, and by whoever, keeps what is known.
LEMMA NextKeeps ==
  ASSUME StockIInv, [Next]_vars
  PROVE  StockIInv'
<1>1. CASE UNCHANGED vars
  <2>1. UNCHANGED <<balance, entered, doc, ordered, tx>>
    BY <1>1 DEF vars
  <2>2. ReservationsHold' /\ UnitsConserved' /\ Exclusive' /\ HeldInStore'
    BY <2>1 DEF StockIInv, ReservationsHold, TypeOK, NeverPromisedTwice, HeldByDocs,
                HeldIsWhatIsCharged, UnitsConserved, UnitsIn, Exclusive, HeldInStore
  <2>3. ASSUME NEW t \in Clients PROVE KnownInv(t)'
    <3>1. /\ LockedInv(t) /\ SyncInv(t) /\ ChargeInv(t) /\ TakenInv(t)
          /\ MoveInv(t) /\ PromiseInv(t)
      BY Knows
    <3>2. LockedInv(t)' /\ SyncInv(t)' /\ MoveInv(t)'
      BY <2>1, <3>1 DEF LockedInv, SyncInv, MoveInv
    <3>3. ChargeInv(t)'
      BY <2>1, <3>1 DEF ChargeInv, Selling
    <3>4. TakenInv(t)'
      <4>1. Taken(t)' = Taken(t)
        BY <2>1 DEF Taken, Selling
      <4>2. CASE tx[t].op = "charge"
        BY <2>1, <3>1, <4>1, <4>2, TakenSame
      <4>3. CASE tx[t].op # "charge"
        BY <2>1, <4>3 DEF TakenInv
      <4> QED
        BY <4>2, <4>3
    <3>5. PromiseInv(t)'
      BY <2>1, <3>1 DEF PromiseInv, Reserved, Quantity, HeldByDocs
    <3> QED
      BY <3>2, <3>3, <3>4, <3>5 DEF KnownInv
  <2> QED
    BY <2>2, <2>3 DEF StockIInv
<1>2. ASSUME NEW t \in Clients, Begin(t) PROVE StockIInv'
  BY <1>2, LockForChargeKeeps, LockForEditKeeps, CreateKeeps, BeginMoveKeeps DEF Begin
<1>3. ASSUME NEW t \in Clients, Advance(t) PROVE StockIInv'
  BY <1>3, ChooseBoxKeeps, ReserveKeeps, CommitSyncKeeps, AssignNumberKeeps, ChargeLineKeeps,
     RestockLineKeeps, MoveSoldKeeps, ReserveRestockKeeps, CommitChargeKeeps,
     LockForMoveKeeps, CommitMoveKeeps DEF Advance
<1>4. ASSUME NEW t \in Clients, Abort(t) PROVE StockIInv'
  BY <1>4, AbortKeeps
<1>5. ASSUME NEW d \in Docs, EndDraft(d) PROVE StockIInv'
  BY <1>5, EndDraftKeeps
<1>6. ASSUME NEW v \in Variants, CancelRestock(v) PROVE StockIInv'
  BY <1>6, CancelRestockKeeps
<1> QED
  BY <1>1, <1>2, <1>3, <1>4, <1>5, <1>6 DEF Next

\* What each transaction has locked, read and set apart stays true until it
\* commits or rolls back, whatever the others do meanwhile.
THEOREM StockInvariance == Spec => []StockIInv
<1>1. Init => StockIInv
  BY InitHolds
<1>2. StockIInv /\ [Next]_vars => StockIInv'
  BY NextKeeps
<1> QED
  BY <1>1, <1>2, PTL DEF Spec

\* Nothing is promised twice (reserveInTransaction, recordInTransaction): the
\* units all sales and restocking orders hold apart are in the balance, and a
\* draft holds exactly its lines (syncForSource).
THEOREM ReservationsAlwaysHold == Spec => []ReservationsHold
<1>1. StockIInv => ReservationsHold
  BY DEF StockIInv
<1> QED
  BY <1>1, StockInvariance, PTL

\* No movement is lost (recordInTransaction, completeInTransaction): the units
\* in all boxes are those that came in by hand less those of the charged sales.
THEOREM UnitsAreConserved == Spec => []UnitsConserved
<1>1. StockIInv => UnitsConserved
  BY DEF StockIInv
<1> QED
  BY <1>1, StockInvariance, PTL

\* No set of charges, and no set of movements by hand, waits for itself: the
\* charges share the row of the series (assignNumber), the movements lock their
\* two balances by location (recordInTransaction).
THEOREM AlikesNeverDeadlock == Spec => []AlikesNeverEmbrace
<1>1. StockIInv => AlikesNeverEmbrace
  BY ChargesNeverEmbrace, MovesNeverEmbrace DEF AlikesNeverEmbrace
<1> QED
  BY <1>1, StockInvariance, PTL

=============================================================================
