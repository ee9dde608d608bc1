-------------------------------- MODULE Sums --------------------------------
(***************************************************************************)
(* What the sums of quantities and cents of the other modules satisfy: the *)
(* SUM(quantity) of a query over rows (reserved-quantity.ts), the balances *)
(* of a reference over its locations.  They are SumFunctionOnSet of the    *)
(* community module Functions, which takes the rows in an order nobody     *)
(* knows; here it is shown that the order does not matter, for any finite  *)
(* set of rows.                                                            *)
(*                                                                         *)
(* Each fact is shown by looking at the smallest set of rows for which it  *)
(* would fail (SmallestSet).                                               *)
(***************************************************************************)
EXTENDS Integers, FiniteSets, Functions, FiniteSetTheorems, WellFoundedInduction, TLAPS

\* The row that SumFunctionOnSet takes next.
AnyOf(s) == CHOOSE x \in s : TRUE

\* g adds up the rows of f, for every subset of T, in that order.
Adds(g, f, T) ==
    g = [s \in SUBSET T |-> IF s = {} THEN 0 ELSE f[AnyOf(s)] + g[s \ {AnyOf(s)}]]

LEMMA AnyOfIn == \A s : s # {} => AnyOf(s) \in s
BY Zenon DEF AnyOf

LEMMA SumUnfold ==
  ASSUME NEW f, NEW S
  PROVE SumFunctionOnSet(f, S) = (CHOOSE g : Adds(g, f, S))[S]
BY Zenon DEF SumFunctionOnSet, FoldFunctionOnSet, MapThenFoldSet, Adds, AnyOf

\* Among subsets of a finite set there is one that contains no other of them.
LEMMA SmallestSet ==
  ASSUME NEW S, IsFiniteSet(S), NEW C \in SUBSET SUBSET S, C # {}
  PROVE  \E T \in C : \A U \in C : U \subseteq T => U = T
<1>1. IsWellFoundedOn(StrictSubsetOrdering(S), SUBSET S)
  BY FS_StrictSubsetOrderingWellFounded, FS_FiniteSubsetsOfFinite
<1>2. \E T \in C : \A U \in C : ~(<<U, T>> \in StrictSubsetOrdering(S))
  BY <1>1, WFMin
<1> QED
  BY <1>2 DEF StrictSubsetOrdering

\* What holds of no rows, and of some if it does without the next one, holds of all.
LEMMA RowByRow ==
  ASSUME NEW S, IsFiniteSet(S), NEW C, {} \in C,
         \A s \in SUBSET S : s # {} /\ s \ {AnyOf(s)} \in C => s \in C
  PROVE  S \in C
<1> DEFINE D == (SUBSET S) \ C
<1>1. SUFFICES ASSUME D # {} PROVE FALSE
  BY <1>1
<1>2. PICK s \in D : \A U \in D : U \subseteq s => U = s
  <2>1. D \in SUBSET SUBSET S
    OBVIOUS
  <2> HIDE DEF D
  <2> QED
    BY <1>1, <2>1, SmallestSet
<1>3. s \in SUBSET S /\ s \notin C /\ s # {}
  BY <1>2
<1>4. AnyOf(s) \in s
  BY <1>3, AnyOfIn
<1>5. s \ {AnyOf(s)} \in C
  BY <1>2, <1>3, <1>4
<1> QED
  BY <1>3, <1>5

\* Who adds up more rows adds up the same of fewer.
LEMMA Agree ==
  ASSUME NEW f, NEW S, IsFiniteSet(S), NEW T \in SUBSET S,
         NEW g, Adds(g, f, S), NEW h, Adds(h, f, T)
  PROVE  \A s \in SUBSET T : g[s] = h[s]
<1> DEFINE C == {s \in SUBSET T : g[s] # h[s]}
<1>1. SUFFICES ASSUME C # {} PROVE FALSE
  BY <1>1
<1>2. PICK s \in C : \A U \in C : U \subseteq s => U = s
  <2>1. C \in SUBSET SUBSET S
    OBVIOUS
  <2> HIDE DEF C
  <2> QED
    BY <1>1, <2>1, SmallestSet
<1>3. s \in SUBSET T /\ s \in SUBSET S /\ g[s] # h[s]
  BY <1>2
<1>4. s # {}
  BY <1>3 DEF Adds
<1>5. AnyOf(s) \in s
  BY <1>4, AnyOfIn
<1>6. s \ {AnyOf(s)} \notin C
  BY <1>2, <1>5
<1>7. g[s \ {AnyOf(s)}] = h[s \ {AnyOf(s)}]
  BY <1>3, <1>6
<1>8. g[s] = f[AnyOf(s)] + g[s \ {AnyOf(s)}]
  BY <1>3, <1>4, Zenon DEF Adds
<1>9. h[s] = f[AnyOf(s)] + h[s \ {AnyOf(s)}]
  BY <1>3, <1>4, Zenon DEF Adds
<1> QED
  BY <1>3, <1>7, <1>8, <1>9

\* The recursion of SumFunctionOnSet defines a function.
LEMMA FoldExists ==
  ASSUME NEW f, NEW S, IsFiniteSet(S)
  PROVE  \E g : Adds(g, f, S)
<1> DEFINE C == {s \in SUBSET S : ~ \E g : Adds(g, f, s)}
<1>1. SUFFICES ASSUME C # {} PROVE FALSE
  BY <1>1
<1>2. PICK T \in C : \A U \in C : U \subseteq T => U = T
  <2>1. C \in SUBSET SUBSET S
    OBVIOUS
  <2> HIDE DEF C
  <2> QED
    BY <1>1, <2>1, SmallestSet
<1> DEFINE G(s) == CHOOSE g : Adds(g, f, s)
           h == [s \in SUBSET T |-> IF s = {} THEN 0
                                    ELSE f[AnyOf(s)] + G(s \ {AnyOf(s)})[s \ {AnyOf(s)}]]
<1>3. \A s : s \subseteq T /\ s # T => Adds(G(s), f, s) /\ IsFiniteSet(s)
  BY <1>2, FS_Subset
<1> HIDE DEF G
<1>4. ASSUME NEW s \in SUBSET T, s # {}
      PROVE  h[s \ {AnyOf(s)}] = G(s \ {AnyOf(s)})[s \ {AnyOf(s)}]
  <2> DEFINE u == s \ {AnyOf(s)}
  <2>1. u \subseteq T /\ u # T /\ Adds(G(u), f, u) /\ IsFiniteSet(u)
    BY <1>3, <1>4, AnyOfIn
  <2>2. CASE u = {}
    <3>1. G(u)[u] = 0
      BY <2>1, <2>2, Zenon DEF Adds
    <3> QED
      BY <2>1, <2>2, <3>1
  <2>3. CASE u # {}
    <3> DEFINE w == u \ {AnyOf(u)}
    <3>1. w \subseteq u /\ w \subseteq T /\ w # T
      BY <2>1
    <3>2. Adds(G(w), f, w)
      BY <1>3, <3>1
    <3> HIDE DEF w
    <3>3. G(u)[w] = G(w)[w]
      <4> HIDE DEF u
      <4> QED
        BY <2>1, <3>1, <3>2, Agree
    <3>4. G(u)[u] = f[AnyOf(u)] + G(u)[w]
      BY <2>1, <2>3, Zenon DEF Adds, w
    <3>5. h[u] = f[AnyOf(u)] + G(w)[w]
      BY <2>1, <2>3 DEF w
    <3> QED
      BY <3>3, <3>4, <3>5
  <2> QED
    BY <2>2, <2>3
<1>5. Adds(h, f, T)
  <2>1. ASSUME NEW s \in SUBSET T
        PROVE h[s] = IF s = {} THEN 0 ELSE f[AnyOf(s)] + h[s \ {AnyOf(s)}]
    <3>1. CASE s = {}
      BY <3>1
    <3>2. CASE s # {}
      <4>1. h[s] = f[AnyOf(s)] + G(s \ {AnyOf(s)})[s \ {AnyOf(s)}]
        BY <3>2
      <4> QED
        BY <1>4, <3>2, <4>1
    <3> QED
      BY <3>1, <3>2
  <2> DEFINE k == [s \in SUBSET T |-> IF s = {} THEN 0 ELSE f[AnyOf(s)] + h[s \ {AnyOf(s)}]]
  <2>2. h = k
    <3>1. \A s \in SUBSET T : h[s] = k[s]
      BY <2>1, Zenon
    <3>2. /\ DOMAIN h = SUBSET T /\ h = [s \in DOMAIN h |-> h[s]]
          /\ DOMAIN k = SUBSET T /\ k = [s \in DOMAIN k |-> k[s]]
      OBVIOUS
    <3> HIDE DEF h, k
    <3> QED
      BY <3>1, <3>2
  <2> QED
    BY <2>2 DEF Adds
<1> QED
  BY <1>2, <1>5

\* And it is the one that is chosen.
LEMMA SumIs ==
  ASSUME NEW f, NEW S, IsFiniteSet(S), NEW T \in SUBSET S, NEW g, Adds(g, f, S)
  PROVE  SumFunctionOnSet(f, T) = g[T]
<1>1. IsFiniteSet(T)
  BY FS_Subset
<1> DEFINE h == CHOOSE k : Adds(k, f, T)
<1>2. Adds(h, f, T)
  BY <1>1, FoldExists
<1> HIDE DEF h
<1>3. g[T] = h[T]
  BY <1>2, Agree
<1> QED
  BY <1>3, SumUnfold DEF h

\* No rows: SUM is 0 (COALESCE in reservedQuantity).
THEOREM SumEmpty == ASSUME NEW f PROVE SumFunctionOnSet(f, {}) = 0
<1>1. PICK g : Adds(g, f, {})
  BY FoldExists, FS_EmptySet
<1>2. SumFunctionOnSet(f, {}) = g[{}]
  BY <1>1, SumIs, FS_EmptySet
<1> QED
  BY <1>1, <1>2 DEF Adds

LEMMA SumNext ==
  ASSUME NEW f, NEW S, IsFiniteSet(S), S # {}
  PROVE  /\ AnyOf(S) \in S
         /\ SumFunctionOnSet(f, S) = f[AnyOf(S)] + SumFunctionOnSet(f, S \ {AnyOf(S)})
<1>1. PICK g : Adds(g, f, S)
  BY FoldExists
<1>2. SumFunctionOnSet(f, S) = g[S] /\ SumFunctionOnSet(f, S \ {AnyOf(S)}) = g[S \ {AnyOf(S)}]
  BY <1>1, SumIs
<1>3. g[S] = f[AnyOf(S)] + g[S \ {AnyOf(S)}]
  BY <1>1, Zenon DEF Adds
<1> QED
  BY <1>2, <1>3, AnyOfIn

\* Quantities and cents that are integers add up to an integer.
THEOREM SumType ==
  ASSUME NEW f, NEW S, IsFiniteSet(S), \A x \in S : f[x] \in Int
  PROVE  SumFunctionOnSet(f, S) \in Int
<1> DEFINE C == {s \in SUBSET S : SumFunctionOnSet(f, s) \in Int}
<1>1. {} \in C
  BY SumEmpty
<1>2. ASSUME NEW s \in SUBSET S, s # {}, s \ {AnyOf(s)} \in C PROVE s \in C
  BY <1>2, SumNext, FS_Subset
<1>3. S \in C
  <2> HIDE DEF C
  <2> QED
    BY <1>1, <1>2, RowByRow
<1> QED
  BY <1>3

\* Any row may be the one that is taken first: a query has no order.
THEOREM SumRemove ==
  ASSUME NEW f, NEW S, IsFiniteSet(S), \A x \in S : f[x] \in Int, NEW a \in S
  PROVE  SumFunctionOnSet(f, S) = f[a] + SumFunctionOnSet(f, S \ {a})
<1> DEFINE Sum(s) == SumFunctionOnSet(f, s)
           C == {s \in SUBSET S : \E b \in s : Sum(s) # f[b] + Sum(s \ {b})}
<1>1. SUFFICES ASSUME C # {} PROVE FALSE
  BY <1>1
<1>2. PICK s \in C : \A U \in C : U \subseteq s => U = s
  <2>1. C \in SUBSET SUBSET S
    OBVIOUS
  <2> HIDE DEF C
  <2> QED
    BY <1>1, <2>1, SmallestSet
<1>3. PICK b \in s : Sum(s) # f[b] + Sum(s \ {b})
  BY <1>2
<1>4. IsFiniteSet(s) /\ s \subseteq S
  BY <1>2, FS_Subset
<1> DEFINE c == AnyOf(s)
<1>5. c \in s /\ Sum(s) = f[c] + Sum(s \ {c})
  BY <1>4, SumNext
<1> HIDE DEF c
<1>6. c # b
  BY <1>3, <1>5
<1>7. Sum(s \ {c}) = f[b] + Sum((s \ {c}) \ {b})
  BY <1>2, <1>3, <1>4, <1>5, <1>6
<1>8. Sum(s \ {b}) = f[c] + Sum((s \ {b}) \ {c})
  BY <1>2, <1>3, <1>4, <1>5, <1>6
<1>9. (s \ {b}) \ {c} = (s \ {c}) \ {b}
  OBVIOUS
<1>10. f[b] \in Int /\ f[c] \in Int /\ Sum((s \ {b}) \ {c}) \in Int
  <2>1. IsFiniteSet((s \ {b}) \ {c}) /\ \A x \in (s \ {b}) \ {c} : f[x] \in Int
    BY <1>4, FS_Subset
  <2> QED
    BY <1>3, <1>4, <1>5, <2>1, SumType
<1> DEFINE r == Sum((s \ {b}) \ {c})
<1>11. Sum(s \ {c}) = f[b] + r
  BY <1>7, <1>9
<1>12. Sum(s \ {b}) = f[c] + r /\ r \in Int
  BY <1>8, <1>10
<1> HIDE DEF r
<1>13. Sum(s) = f[b] + Sum(s \ {b})
  BY <1>5, <1>10, <1>11, <1>12
<1> QED
  BY <1>3, <1>13

\* Only the rows that are added matter: what is written elsewhere changes nothing.
THEOREM SumSame ==
  ASSUME NEW f, NEW g, NEW S, IsFiniteSet(S), \A x \in S : f[x] = g[x]
  PROVE  SumFunctionOnSet(f, S) = SumFunctionOnSet(g, S)
<1> DEFINE C == {s \in SUBSET S : SumFunctionOnSet(f, s) = SumFunctionOnSet(g, s)}
<1>1. {} \in C
  BY SumEmpty
<1>2. ASSUME NEW s \in SUBSET S, s # {}, s \ {AnyOf(s)} \in C PROVE s \in C
  BY <1>2, SumNext, FS_Subset
<1>3. S \in C
  <2> HIDE DEF C
  <2> QED
    BY <1>1, <1>2, RowByRow
<1> QED
  BY <1>3

\* One row is updated: the sum changes by what the row does.
THEOREM SumChange ==
  ASSUME NEW f, NEW g, NEW S, IsFiniteSet(S), NEW a \in S,
         \A x \in S : f[x] \in Int /\ g[x] \in Int,
         \A x \in S \ {a} : f[x] = g[x]
  PROVE  SumFunctionOnSet(g, S) = SumFunctionOnSet(f, S) - f[a] + g[a]
<1>1. IsFiniteSet(S \ {a})
  BY FS_Subset
<1>2. SumFunctionOnSet(f, S \ {a}) = SumFunctionOnSet(g, S \ {a})
  BY <1>1, SumSame
<1>3. SumFunctionOnSet(f, S) = f[a] + SumFunctionOnSet(f, S \ {a})
  BY SumRemove
<1>4. SumFunctionOnSet(g, S) = g[a] + SumFunctionOnSet(g, S \ {a})
  BY SumRemove
<1>5. SumFunctionOnSet(f, S \ {a}) \in Int
  BY <1>1, SumType
<1> QED
  BY <1>2, <1>3, <1>4, <1>5

\* One row is inserted.
THEOREM SumAdded ==
  ASSUME NEW f, NEW S, IsFiniteSet(S), NEW a, a \notin S, f[a] \in Int,
         \A x \in S : f[x] \in Int
  PROVE  SumFunctionOnSet(f, S \cup {a}) = SumFunctionOnSet(f, S) + f[a]
<1>1. IsFiniteSet(S \cup {a}) /\ (S \cup {a}) \ {a} = S
  BY FS_AddElement
<1>2. SumFunctionOnSet(f, S \cup {a}) = f[a] + SumFunctionOnSet(f, S)
  <2>1. SumFunctionOnSet(f, S \cup {a}) = f[a] + SumFunctionOnSet(f, (S \cup {a}) \ {a})
    BY <1>1, SumRemove
  <2> QED
    BY <1>1, <2>1
<1>3. SumFunctionOnSet(f, S) \in Int
  BY SumType
<1> QED
  BY <1>2, <1>3

\* Two columns add up together, or each on its own.
THEOREM SumLinear ==
  ASSUME NEW f, NEW g, NEW h, NEW S, IsFiniteSet(S),
         \A x \in S : f[x] \in Int /\ g[x] \in Int /\ h[x] = f[x] + g[x]
  PROVE  SumFunctionOnSet(h, S) = SumFunctionOnSet(f, S) + SumFunctionOnSet(g, S)
<1> DEFINE Sum(k, s) == SumFunctionOnSet(k, s)
           C == {s \in SUBSET S : Sum(h, s) = Sum(f, s) + Sum(g, s)}
<1>1. {} \in C
  BY SumEmpty
<1>2. ASSUME NEW s \in SUBSET S, s # {}, s \ {AnyOf(s)} \in C PROVE s \in C
  <2> DEFINE a == AnyOf(s)
             r == s \ {a}
  <2>1. /\ a \in s
        /\ Sum(f, s) = f[a] + Sum(f, r)
        /\ Sum(g, s) = g[a] + Sum(g, r)
        /\ Sum(h, s) = h[a] + Sum(h, r)
    BY <1>2, SumNext, FS_Subset
  <2>2. IsFiniteSet(r) /\ \A x \in r : f[x] \in Int /\ g[x] \in Int
    BY <1>2, FS_Subset
  <2>3. Sum(f, r) \in Int /\ Sum(g, r) \in Int
    BY <2>2, SumType
  <2> QED
    BY <1>2, <2>1, <2>3
<1>3. S \in C
  <2> HIDE DEF C
  <2> QED
    BY <1>1, <1>2, RowByRow
<1> QED
  BY <1>3

\* Rows that do not grow make a sum that does not grow (releasing reservations).
THEOREM SumBounds ==
  ASSUME NEW f, NEW g, NEW S, IsFiniteSet(S),
         \A x \in S : f[x] \in Int /\ g[x] \in Int /\ f[x] <= g[x]
  PROVE  SumFunctionOnSet(f, S) <= SumFunctionOnSet(g, S)
<1> DEFINE Sum(k, s) == SumFunctionOnSet(k, s)
           C == {s \in SUBSET S : Sum(f, s) <= Sum(g, s)}
<1>1. {} \in C
  BY SumEmpty
<1>2. ASSUME NEW s \in SUBSET S, s # {}, s \ {AnyOf(s)} \in C PROVE s \in C
  <2> DEFINE a == AnyOf(s)
             r == s \ {a}
  <2>1. /\ a \in s
        /\ Sum(f, s) = f[a] + Sum(f, r)
        /\ Sum(g, s) = g[a] + Sum(g, r)
    BY <1>2, SumNext, FS_Subset
  <2>2. IsFiniteSet(r) /\ \A x \in r : f[x] \in Int /\ g[x] \in Int
    BY <1>2, FS_Subset
  <2>3. Sum(f, r) \in Int /\ Sum(g, r) \in Int
    BY <2>2, SumType
  <2> QED
    BY <1>2, <2>1, <2>3
<1>3. S \in C
  <2> HIDE DEF C
  <2> QED
    BY <1>1, <1>2, RowByRow
<1> QED
  BY <1>3

\* Rows of nothing add up to nothing.
THEOREM SumZero ==
  ASSUME NEW f, NEW S, IsFiniteSet(S), \A x \in S : f[x] = 0
  PROVE  SumFunctionOnSet(f, S) = 0
<1> DEFINE C == {s \in SUBSET S : SumFunctionOnSet(f, s) = 0}
<1>1. {} \in C
  BY SumEmpty
<1>2. ASSUME NEW s \in SUBSET S, s # {}, s \ {AnyOf(s)} \in C PROVE s \in C
  BY <1>2, SumNext, FS_Subset
<1>3. S \in C
  <2> HIDE DEF C
  <2> QED
    BY <1>1, <1>2, RowByRow
<1> QED
  BY <1>3

\* Quantities are never negative, and so is their sum.
THEOREM SumNat ==
  ASSUME NEW f, NEW S, IsFiniteSet(S), \A x \in S : f[x] \in Nat
  PROVE  SumFunctionOnSet(f, S) \in Nat
<1> DEFINE zero == [x \in S |-> 0]
<1>1. SumFunctionOnSet(zero, S) = 0
  BY SumZero
<1>2. SumFunctionOnSet(zero, S) <= SumFunctionOnSet(f, S)
  BY SumBounds
<1>3. SumFunctionOnSet(f, S) \in Int
  BY SumType
<1> QED
  BY <1>1, <1>2, <1>3

\* No row holds more than all of them together.
THEOREM SumPart ==
  ASSUME NEW f, NEW S, IsFiniteSet(S), \A x \in S : f[x] \in Nat, NEW a \in S
  PROVE  f[a] <= SumFunctionOnSet(f, S)
<1>1. IsFiniteSet(S \ {a})
  BY FS_Subset
<1>2. SumFunctionOnSet(f, S \ {a}) \in Nat
  BY <1>1, SumNat
<1> QED
  BY <1>2, SumRemove

\* One row on its own.
THEOREM SumOne ==
  ASSUME NEW f, NEW a, f[a] \in Int
  PROVE  SumFunctionOnSet(f, {a}) = f[a]
<1>1. SumFunctionOnSet(f, {} \cup {a}) = SumFunctionOnSet(f, {}) + f[a]
  BY SumAdded, FS_EmptySet
<1>2. {} \cup {a} = {a}
  OBVIOUS
<1> QED
  BY <1>1, <1>2, SumEmpty

\* Some of the rows, and then the rest of them.
THEOREM SumSplit ==
  ASSUME NEW f, NEW S, IsFiniteSet(S), \A x \in S : f[x] \in Int, NEW T \in SUBSET S
  PROVE  SumFunctionOnSet(f, S) = SumFunctionOnSet(f, T) + SumFunctionOnSet(f, S \ T)
<1> DEFINE Sum(s) == SumFunctionOnSet(f, s)
           C == {s \in SUBSET S : Sum(S) = Sum(s) + Sum(S \ s)}
<1>0. ASSUME NEW s \in SUBSET S
      PROVE  IsFiniteSet(s) /\ (\A x \in s : f[x] \in Int) /\ Sum(s) \in Int
  BY SumType, FS_Subset
<1>1. {} \in C
  <2>1. S \ {} = S /\ Sum(S) \in Int /\ Sum({}) = 0
    BY <1>0, SumEmpty
  <2> QED
    BY <2>1
<1>2. ASSUME NEW s \in SUBSET S, s # {}, s \ {AnyOf(s)} \in C PROVE s \in C
  <2> DEFINE a == AnyOf(s)
             r == s \ {a}
  <2>1. a \in s
    BY <1>2, AnyOfIn
  <2> HIDE DEF a
  <2>2. Sum(s) = f[a] + Sum(r)
    BY <1>0, <2>1, SumRemove
  <2>3. Sum(S \ r) = f[a] + Sum((S \ r) \ {a})
    <3>1. a \in S \ r /\ IsFiniteSet(S \ r) /\ \A x \in S \ r : f[x] \in Int
      BY <1>0, <2>1
    <3> HIDE DEF r, Sum
    <3> QED
      BY <3>1, SumRemove DEF Sum
  <2>4. (S \ r) \ {a} = S \ s
    BY <2>1
  <2>5. Sum(S) = Sum(r) + Sum(S \ r)
    BY <1>2 DEF a
  <2>6. f[a] \in Int /\ Sum(r) \in Int /\ Sum(S \ s) \in Int
    BY <1>0, <2>1
  <2>7. Sum(S \ r) = f[a] + Sum(S \ s)
    BY <2>3, <2>4, Zenon
  <2>8. Sum(S) = Sum(s) + Sum(S \ s)
    BY <2>2, <2>5, <2>6, <2>7
  <2> QED
    BY <2>8
<1>3. T \in C
  <2> DEFINE D == {s \in SUBSET T : s \in C}
  <2>1. {} \in D
    BY <1>1
  <2>2. ASSUME NEW s \in SUBSET T, s # {}, s \ {AnyOf(s)} \in D PROVE s \in D
    <3>1. s \in SUBSET S
      OBVIOUS
    <3> HIDE DEF C
    <3> QED
      BY <1>2, <2>2, <3>1
  <2>3. IsFiniteSet(T)
    BY <1>0
  <2>4. T \in D
    <3> HIDE DEF D
    <3> QED
      BY <2>1, <2>2, <2>3, RowByRow
  <2> QED
    BY <2>4
<1> QED
  BY <1>3

\* The rows of T are updated: the sum changes by what they do.
THEOREM SumUpdate ==
  ASSUME NEW f, NEW g, NEW S, IsFiniteSet(S), NEW T \in SUBSET S,
         \A x \in S : f[x] \in Int /\ g[x] \in Int,
         \A x \in S \ T : f[x] = g[x]
  PROVE  SumFunctionOnSet(g, S)
           = SumFunctionOnSet(f, S) - SumFunctionOnSet(f, T) + SumFunctionOnSet(g, T)
<1>1. IsFiniteSet(T) /\ IsFiniteSet(S \ T)
  BY FS_Subset
<1>2. SumFunctionOnSet(f, S) = SumFunctionOnSet(f, T) + SumFunctionOnSet(f, S \ T)
  BY SumSplit
<1>3. SumFunctionOnSet(g, S) = SumFunctionOnSet(g, T) + SumFunctionOnSet(g, S \ T)
  BY SumSplit
<1>4. SumFunctionOnSet(f, S \ T) = SumFunctionOnSet(g, S \ T)
  BY <1>1, SumSame
<1>5. /\ SumFunctionOnSet(f, T) \in Int /\ SumFunctionOnSet(f, S \ T) \in Int
      /\ SumFunctionOnSet(g, T) \in Int
  BY <1>1, SumType
<1> QED
  BY <1>2, <1>3, <1>4, <1>5

\* Of finitely many numbers one is the greatest (the last balance in lock order).
THEOREM Largest ==
  ASSUME NEW f, NEW S, IsFiniteSet(S), S # {}, \A x \in S : f[x] \in Int
  PROVE  \E x \in S : \A y \in S : f[y] <= f[x]
<1> DEFINE C == {s \in SUBSET S : s # {} => \E x \in s : \A y \in s : f[y] <= f[x]}
<1>1. {} \in C
  OBVIOUS
<1>2. ASSUME NEW s \in SUBSET S, s # {}, s \ {AnyOf(s)} \in C PROVE s \in C
  <2> DEFINE a == AnyOf(s)
  <2>1. a \in s
    BY <1>2, AnyOfIn
  <2> HIDE DEF a
  <2>2. CASE s = {a}
    BY <2>2
  <2>3. CASE s # {a}
    <3>1. PICK x \in s \ {a} : \A y \in s \ {a} : f[y] <= f[x]
      BY <1>2, <2>1, <2>3 DEF a
    <3>2. CASE f[a] <= f[x]
      BY <3>1, <3>2
    <3>3. CASE f[x] <= f[a]
      BY <2>1, <3>1, <3>3
    <3> QED
      BY <2>1, <3>1, <3>2, <3>3
  <2> QED
    BY <2>2, <2>3
<1>3. S \in C
  <2> HIDE DEF C
  <2> QED
    BY <1>1, <1>2, RowByRow
<1> QED
  BY <1>3

\* Of some numbers one is the smallest (findStockLocation, findOrCreateRunnerLocation).
THEOREM Smallest ==
  ASSUME NEW C \in SUBSET Nat, C # {}
  PROVE  \E n \in C : \A m \in C : n <= m
<1>1. \E n \in C : \A m \in C : ~(<<m, n>> \in OpToRel(<, Nat))
  BY NatLessThanWellFounded, WFMin, Zenon
<1>2. PICK n \in C : \A m \in C : ~(<<m, n>> \in OpToRel(<, Nat))
  BY <1>1
<1>3. ASSUME NEW m \in C PROVE n <= m
  <2>1. m \in Nat /\ n \in Nat
    OBVIOUS
  <2>2. ~(<<m, n>> \in OpToRel(<, Nat))
    BY <1>2
  <2>3. ~(m < n)
    BY <2>1, <2>2 DEF OpToRel
  <2> QED
    BY <2>1, <2>3
<1> QED
  BY <1>3

\* G is the table F seen by columns.
Transposed(F, G, S, T) == \A x \in S, y \in T : F[x][y] \in Int /\ G[y][x] = F[x][y]

\* A table adds up to the same by rows and by columns.
THEOREM SumSwap ==
  ASSUME NEW F, NEW G, NEW S, NEW T, IsFiniteSet(S), IsFiniteSet(T), Transposed(F, G, S, T),
         NEW row, \A x \in S : row[x] = SumFunctionOnSet(F[x], T),
         NEW col, \A y \in T : col[y] = SumFunctionOnSet(G[y], S)
  PROVE  SumFunctionOnSet(row, S) = SumFunctionOnSet(col, T)
<1> DEFINE Sum(f, s) == SumFunctionOnSet(f, s)
           Upto(s) == [y \in T |-> Sum(G[y], s)]
           C == {s \in SUBSET S : Sum(row, s) = Sum(Upto(s), T)}
<1>0. \A x \in S, y \in T : F[x][y] \in Int /\ G[y][x] = F[x][y]
  BY DEF Transposed
<1>1. {} \in C
  <2>1. Sum(row, {}) = 0 /\ \A y \in T : Upto({})[y] = 0
    BY SumEmpty
  <2>2. Sum(Upto({}), T) = 0
    <3> HIDE DEF Upto
    <3> QED
      BY <2>1, SumZero
  <2> QED
    BY <2>1, <2>2
<1>2. ASSUME NEW s \in SUBSET S, s # {}, s \ {AnyOf(s)} \in C PROVE s \in C
  <2> DEFINE a == AnyOf(s)
             r == s \ {a}
  <2>1. a \in s /\ a \in S
    BY <1>2, AnyOfIn
  <2>2. Sum(row, s) = Sum(F[a], T) + Sum(row, r)
    <3>1. IsFiniteSet(s) /\ Sum(row, s) = row[a] + Sum(row, r)
      BY <1>2, SumNext, FS_Subset
    <3> QED
      BY <2>1, <3>1
  <2>3. ASSUME NEW y \in T
        PROVE  F[a][y] \in Int /\ Upto(r)[y] \in Int /\ Upto(s)[y] = F[a][y] + Upto(r)[y]
    <3>1. IsFiniteSet(s) /\ IsFiniteSet(r) /\ r \in SUBSET S
      BY FS_Subset
    <3>2. Sum(G[y], s) = G[y][a] + Sum(G[y], r)
      BY <1>2, <3>1, SumNext
    <3>3. G[y][a] = F[a][y] /\ F[a][y] \in Int
      BY <1>0, <2>1
    <3>4. \A x \in r : G[y][x] \in Int
      BY <1>0
    <3>5. Sum(G[y], r) \in Int
      <4> HIDE DEF r, a
      <4> QED
        BY <3>1, <3>4, SumType
    <3> QED
      BY <3>2, <3>3, <3>5
  <2>4. Sum(Upto(s), T) = Sum(F[a], T) + Sum(Upto(r), T)
    <3> HIDE DEF Upto, r, a
    <3> QED
      BY <2>3, SumLinear
  <2>5. Sum(row, r) = Sum(Upto(r), T)
    BY <1>2
  <2> QED
    BY <2>2, <2>4, <2>5
<1>3. S \in C
  <2> HIDE DEF C
  <2> QED
    BY <1>1, <1>2, RowByRow
<1>4. \A y \in T : Upto(S)[y] = col[y]
  OBVIOUS
<1>5. Sum(Upto(S), T) = Sum(col, T)
  <2> HIDE DEF Upto
  <2> QED
    BY <1>4, SumSame
<1> QED
  BY <1>3, <1>5

=============================================================================
