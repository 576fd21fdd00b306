--------------------------- MODULE OrderLoop_proofs ---------------------------
(***************************************************************************)
(* Proofs about the planner and its closed loop, for any finite sets of    *)
(* strategies and tickers, any integer notionals and holdings, any cached  *)
(* closes and market prices, and any ceilings.                             *)
(*                                                                         *)
(* The caps speak of sums over tickers, so the first part derives induction*)
(* from well-founded minima, with sets in the place of predicates, and the *)
(* recursion equations of SumFunction from it.                             *)
(***************************************************************************)
EXTENDS OrderLoop, FiniteSetTheorems, TLAPS

-------------------------------------------------------------------------------
(* Induction.                                                              *)

\* A set of naturals that holds 0 and is closed under successor is Nat.
LEMMA NatInductionBySet ==
  ASSUME NEW S \in SUBSET Nat, 0 \in S, \A n \in S : n + 1 \in S
  PROVE  S = Nat
<1> DEFINE R == OpToRel(<, Nat)
<1>1. IsWellFoundedOn(R, Nat)  BY NatLessThanWellFounded
<1>2. \A x, y \in Nat : y < x => <<y, x>> \in R  BY DEF OpToRel
<1> HIDE DEF R
<1>3. SUFFICES ASSUME Nat \ S # {} PROVE FALSE  OBVIOUS
<1>4. PICK m \in Nat \ S : \A y \in Nat \ S : ~ (<<y, m>> \in R)
  BY <1>1, <1>3, WFMin
<1>5. m # 0 /\ m - 1 \in Nat /\ m - 1 < m  OBVIOUS
<1>6. m - 1 \in S  BY <1>2, <1>4, <1>5
<1>7. (m - 1) + 1 \in S  BY <1>6
<1> QED  BY <1>7, <1>5

\* What a set inherits from all its strict subsets, every subset has.
LEMMA SubsetInduction ==
  ASSUME NEW S, IsFiniteSet(S), NEW G,
         \A T \in SUBSET S : (\A U \in SUBSET T : U # T => U \in G) => T \in G
  PROVE  \A T \in SUBSET S : T \in G
<1> DEFINE R == StrictSubsetOrdering(S)
<1>1. IsWellFoundedOn(R, SUBSET S)  BY FS_StrictSubsetOrderingWellFounded, FS_FiniteSubsetsOfFinite
<1>2. \A T, U \in SUBSET S : T \subseteq U /\ T # U => <<T, U>> \in R  BY DEF StrictSubsetOrdering
<1> HIDE DEF R
<1>3. SUFFICES ASSUME (SUBSET S) \ G # {} PROVE FALSE  OBVIOUS
<1> DEFINE Bad == (SUBSET S) \ G
<1>4. PICK M \in Bad : \A T \in Bad : ~ (<<T, M>> \in R)
  <2>1. Bad \subseteq SUBSET S OBVIOUS
  <2>2. Bad # {} BY <1>3
  <2> HIDE DEF Bad
  <2> QED BY <1>1, <2>1, <2>2, WFMin
<1>5. \A U \in SUBSET M : U # M => U \in G
  <2> SUFFICES ASSUME NEW U \in SUBSET M, U # M PROVE U \in G OBVIOUS
  <2>1. U \in SUBSET S /\ M \in SUBSET S BY <1>4
  <2>2. <<U, M>> \in R BY <1>2, <2>1
  <2> QED BY <1>4, <2>1, <2>2
<1> QED  BY <1>4, <1>5

\* The element FoldFunctionOnSet takes out first.
Pick(T) == CHOOSE x \in T : TRUE

\* The sums of the parts of a set, by size, up to that of the set.
SumTable(it, f, S) ==
  /\ \A T \in SUBSET S : it[T] = IF T = {} THEN 0 ELSE f[Pick(T)] + it[T \ {Pick(T)}]
  /\ SumFunctionOnSet(f, S) = it[S]

\* A sum is the last value of a function on subsets that obeys the recursion.
LEMMA SumIterates ==
  ASSUME NEW f, NEW S, IsFiniteSet(S)
  PROVE  \E it : SumTable(it, f, S)
<1> DEFINE Upto(n) == {T \in SUBSET S : Cardinality(T) <= n}
           Step(it, T) == IF T = {} THEN 0 ELSE f[Pick(T)] + it[T \ {Pick(T)}]
           N == {n \in Nat : \E it : it = [T \in Upto(n) |-> Step(it, T)]}
<1>1. \A T \in SUBSET S : IsFiniteSet(T) /\ Cardinality(T) \in Nat
  BY FS_Subset, FS_CardinalityType
<1>2. \A T \in SUBSET S : T # {} => /\ Pick(T) \in T
                                    /\ T \ {Pick(T)} \in SUBSET S
                                    /\ Cardinality(T \ {Pick(T)}) = Cardinality(T) - 1
  BY <1>1, FS_RemoveElement DEF Pick
<1>3. 0 \in N
  <2>1. \A T \in Upto(0) : T = {} BY <1>1, FS_EmptySet
  <2> DEFINE it0 == [T \in Upto(0) |-> 0]
  <2>2. it0 = [T \in Upto(0) |-> Step(it0, T)] BY <2>1
  <2> QED BY <2>2
<1>4. ASSUME NEW n \in N PROVE n + 1 \in N
  <2>1. PICK it : it = [T \in Upto(n) |-> Step(it, T)] OBVIOUS
  <2> DEFINE next == [T \in Upto(n + 1) |-> Step(it, T)]
  <2>2. \A T \in Upto(n) : T \in Upto(n + 1) /\ it[T] = Step(it, T)
    <3>1. \A T \in Upto(n) : T \in Upto(n + 1) BY <1>1
    <3> HIDE DEF Upto, Step
    <3> QED BY <2>1, <3>1
  <2>3. \A T \in Upto(n) : next[T] = it[T] BY <2>2
  <2>4. \A T \in Upto(n + 1) : T # {} => T \ {Pick(T)} \in Upto(n) BY <1>1, <1>2
  <2>5. \A T \in Upto(n + 1) : Step(it, T) = Step(next, T)
    <3> HIDE DEF Upto, next
    <3> QED BY <2>3, <2>4
  <2>6. next = [T \in Upto(n + 1) |-> Step(next, T)]
    <3>1. next = [T \in Upto(n + 1) |-> Step(it, T)] OBVIOUS
    <3> HIDE DEF Upto, next, Step
    <3> QED BY <2>5, <3>1
  <2>7. n + 1 \in Nat OBVIOUS
  <2> HIDE DEF Upto, Step
  <2> QED BY <2>6, <2>7
<1>5. Cardinality(S) \in N
  <2> HIDE DEF N
  <2>1. N \subseteq Nat BY DEF N
  <2>2. N = Nat BY <2>1, <1>3, <1>4, NatInductionBySet
  <2> QED BY <1>1, <2>2
<1>6. Upto(Cardinality(S)) = SUBSET S BY <1>1, FS_Subset
<1>7. PICK g : g = [T \in SUBSET S |-> Step(g, T)]
  <2> HIDE DEF Upto, Step
  <2> QED BY <1>5, <1>6
<1> DEFINE h == CHOOSE it : it = [T \in SUBSET S |-> Step(it, T)]
<1>8. h = [T \in SUBSET S |-> Step(h, T)]
  <2> HIDE DEF Step
  <2> QED BY <1>7
<1>9. SumFunctionOnSet(f, S) = h[S]
  BY DEF SumFunctionOnSet, FoldFunctionOnSet, MapThenFoldSet, Pick
<1>10. \A T \in SUBSET S : h[T] = Step(h, T)
  <2> HIDE DEF h, Step
  <2> QED BY <1>8
<1> QED
  <2> HIDE DEF h
  <2> QED BY <1>9, <1>10 DEF SumTable
\* apply_caps' first step: whatever is asked for, the clamped amount respects
\* the per-ticker ceiling and never changes side.
THEOREM ClampHolds ==
  ASSUME NEW n \in Int
  PROVE  /\ Clamp(n) \in Int /\ Abs(Clamp(n)) <= MaxPosition
         /\ n >= 0 => 0 <= Clamp(n) /\ Clamp(n) <= n
         /\ n <= 0 => n <= Clamp(n) /\ Clamp(n) <= 0
BY PlanningAssumption DEF Clamp, Abs, Larger, Smaller, PlanningAssumption


-------------------------------------------------------------------------------
(* Arithmetic.                                                              *)

LEMMA DivisionBounds ==
  ASSUME NEW a \in Nat, NEW p \in Nat \ {0}
  PROVE  /\ a \div p \in Nat
         /\ (a \div p) * p <= a
         /\ a < (a \div p) * p + p
OBVIOUS

LEMMA ProductMonotonic ==
  ASSUME NEW a \in Int, NEW b \in Int, NEW g \in Nat, a <= b
  PROVE  g * a <= g * b
OBVIOUS

LEMMA ProductCancels ==
  ASSUME NEW a \in Int, NEW b \in Int, NEW g \in Nat \ {0}, g * a <= g * b
  PROVE  a <= b
<1>1. CASE a > b
  <2>1. a >= b + 1 BY <1>1
  <2>2. g * (b + 1) <= g * a BY <2>1, ProductMonotonic
  <2>3. g * (b + 1) = g * b + g OBVIOUS
  <2> QED BY <2>2, <2>3
<1> QED BY <1>1

\* Scaling shrinks toward zero, and by at least the ratio of the total cap.
LEMMA ScaleBounds ==
  ASSUME NEW c \in Int, NEW g \in Nat, g > MaxTotal
  PROVE  /\ Scale(c, g) \in Int
         /\ c >= 0 => 0 <= Scale(c, g) /\ Scale(c, g) <= c
         /\ c <= 0 => c <= Scale(c, g) /\ Scale(c, g) <= 0
         /\ Abs(Scale(c, g)) \in Nat
         /\ g * Abs(Scale(c, g)) <= MaxTotal * Abs(c)
<1>1. MaxTotal \in Nat \ {0} /\ g \in Nat \ {0} BY PlanningAssumption DEF PlanningAssumption
<1> DEFINE a == Abs(c)
           q == (a * MaxTotal) \div g
<1>2. a \in Nat BY DEF Abs
<1>3. a * MaxTotal \in Nat BY <1>1, <1>2
<1> HIDE DEF a
<1>4. q \in Nat /\ q * g <= a * MaxTotal BY <1>1, <1>3, DivisionBounds
<1>5. a * MaxTotal <= a * g BY <1>1, <1>2, ProductMonotonic
<1>6. q <= a
  <2>1. g * q <= g * a
    <3> HIDE DEF q
    <3>1. g * q = q * g /\ g * a = a * g BY <1>1, <1>2, <1>4
    <3>2. q * g \in Int /\ a * MaxTotal \in Int /\ a * g \in Int BY <1>1, <1>2, <1>4
    <3> QED BY <1>4, <1>5, <3>1, <3>2
  <2> HIDE DEF q
  <2> QED BY <1>1, <1>2, <1>4, <2>1, ProductCancels
<1>7. Scale(c, g) = IF c < 0 THEN -q ELSE q
  <2>1. c < 0 => -c * MaxTotal = a * MaxTotal BY <1>1 DEF a, Abs
  <2>2. ~(c < 0) => a = c BY DEF a, Abs
  <2> QED BY <2>1, <2>2 DEF Scale
<1> HIDE DEF q
<1>8. Abs(Scale(c, g)) = q BY <1>4, <1>7 DEF Abs
<1>9. g * q = q * g /\ a * MaxTotal = MaxTotal * a BY <1>1, <1>2, <1>4
<1> QED BY <1>1, <1>2, <1>4, <1>6, <1>7, <1>8, <1>9 DEF a, Abs

-------------------------------------------------------------------------------
(* Sums.                                                                    *)

LEMMA SumIsInteger ==
  ASSUME NEW f, NEW S, IsFiniteSet(S), \A x \in S : f[x] \in Int
  PROVE  SumFunctionOnSet(f, S) \in Int
<1>it. PICK it : SumTable(it, f, S)  BY SumIterates
<1>1. /\ \A T \in SUBSET S :
          it[T] = IF T = {} THEN 0 ELSE f[Pick(T)] + it[T \ {Pick(T)}]
      /\ SumFunctionOnSet(f, S) = it[S]
  BY <1>it DEF SumTable
<1> DEFINE G == {T \in SUBSET S : it[T] \in Int}
<1>2. ASSUME NEW T \in SUBSET S, \A U \in SUBSET T : U # T => U \in G
      PROVE  T \in G
  <2>1. CASE T = {} BY <1>1, <2>1
  <2>2. CASE T # {}
    <3>1. Pick(T) \in T BY <2>2 DEF Pick
    <3>2. T \ {Pick(T)} \in G BY <1>2, <3>1
    <3>3. it[T] = f[Pick(T)] + it[T \ {Pick(T)}] BY <1>1, <2>2
    <3> QED BY <3>1, <3>2, <3>3
  <2> QED BY <2>1, <2>2
<1> HIDE DEF G
<1>3. \A T \in SUBSET S : T \in G BY <1>2, SubsetInduction
<1>4. S \in G BY <1>3
<1> QED BY <1>1, <1>4 DEF G

\* If g * f[x] stays within m * h[x] everywhere, so do the sums.
LEMMA SumsCompare ==
  ASSUME NEW f, NEW h, NEW S, IsFiniteSet(S), NEW g \in Nat, NEW m \in Nat,
         \A x \in S : f[x] \in Int /\ h[x] \in Int /\ g * f[x] <= m * h[x]
  PROVE  g * SumFunctionOnSet(f, S) <= m * SumFunctionOnSet(h, S)
<1>it. PICK it : SumTable(it, f, S)  BY SumIterates
<1>1. /\ \A T \in SUBSET S :
          it[T] = IF T = {} THEN 0 ELSE f[Pick(T)] + it[T \ {Pick(T)}]
      /\ SumFunctionOnSet(f, S) = it[S]
  BY <1>it DEF SumTable
<1>iu. PICK iu : SumTable(iu, h, S)  BY SumIterates
<1>2. /\ \A T \in SUBSET S :
          iu[T] = IF T = {} THEN 0 ELSE h[Pick(T)] + iu[T \ {Pick(T)}]
      /\ SumFunctionOnSet(h, S) = iu[S]
  BY <1>iu DEF SumTable
<1> DEFINE G == {T \in SUBSET S : it[T] \in Int /\ iu[T] \in Int /\ g * it[T] <= m * iu[T]}
<1>3. ASSUME NEW T \in SUBSET S, \A U \in SUBSET T : U # T => U \in G
      PROVE  T \in G
  <2>1. CASE T = {}
    <3>1. it[T] = 0 /\ iu[T] = 0 BY <1>1, <1>2, <2>1
    <3> QED BY <3>1
  <2>2. CASE T # {}
    <3> DEFINE x == Pick(T)
               U == T \ {Pick(T)}
    <3>1. x \in T BY <2>2 DEF Pick
    <3>2. U \in G BY <1>3, <3>1
    <3>3. it[T] = f[x] + it[U] /\ iu[T] = h[x] + iu[U] BY <1>1, <1>2, <2>2
    <3>4. f[x] \in Int /\ h[x] \in Int /\ g * f[x] <= m * h[x] BY <3>1
    <3>5. it[U] \in Int /\ iu[U] \in Int /\ g * it[U] <= m * iu[U] BY <3>2
    <3> HIDE DEF x, U
    <3>6. g * it[T] = g * f[x] + g * it[U] /\ m * iu[T] = m * h[x] + m * iu[U]
      BY <3>3, <3>4, <3>5
    <3> QED BY <3>3, <3>4, <3>5, <3>6
  <2> QED BY <2>1, <2>2
<1> HIDE DEF G
<1>4. \A T \in SUBSET S : T \in G BY <1>3, SubsetInduction
<1>5. S \in G BY <1>4
<1> QED BY <1>1, <1>2, <1>5 DEF G

LEMMA GrossType ==
  ASSUME NEW net \in [Tickers -> Int]
  PROVE  Gross(net) \in Nat
<1> DEFINE size == [t \in DOMAIN net |-> Abs(net[t])]
           zero == [t \in DOMAIN net |-> 0]
<1>1. IsFiniteSet(Tickers) /\ DOMAIN net = Tickers BY LoopAssumption DEF LoopAssumption
<1>2. \A t \in Tickers : size[t] \in Int /\ zero[t] = 0 /\ 1 * zero[t] <= 1 * size[t]
  BY DEF Abs
<1>3. Gross(net) = SumFunctionOnSet(size, Tickers)
  BY <1>1 DEF Gross, SumFunction
<1> HIDE DEF size
<1>4. SumFunctionOnSet(size, Tickers) \in Int BY <1>1, <1>2, SumIsInteger
<1>5. 0 * SumFunctionOnSet(size, Tickers) <= 1 * SumFunctionOnSet(size, Tickers)
  <2>1. \A t \in Tickers : size[t] \in Int /\ 0 * size[t] <= 1 * size[t]
    BY <1>2 DEF zero
  <2> QED BY <1>1, <2>1, SumsCompare
<1> QED BY <1>3, <1>4, <1>5

\* apply_caps on any net: scaling every clamped amount by the same factor and
\* truncating brings the gross under the total and keeps sign and ceiling.
THEOREM CapsRespected ==
  ASSUME NEW net \in [Tickers -> Int]
  PROVE  LET capped == ApplyCaps(net)
         IN  /\ capped \in [Tickers -> Int]
             /\ Gross(capped) <= MaxTotal
             /\ \A t \in Tickers : Abs(capped[t]) <= MaxPosition /\ capped[t] * net[t] >= 0
<1> DEFINE clamped == [t \in DOMAIN net |-> Clamp(net[t])]
           capped == ApplyCaps(net)
           scaled == [t \in DOMAIN net |-> Scale(clamped[t], Gross(clamped))]
<1>0. DOMAIN net = Tickers /\ IsFiniteSet(Tickers) BY LoopAssumption DEF LoopAssumption
<1>1. clamped \in [Tickers -> Int]
      /\ \A t \in Tickers : /\ clamped[t] \in Int /\ Abs(clamped[t]) <= MaxPosition
                            /\ net[t] >= 0 => clamped[t] >= 0
                            /\ net[t] <= 0 => clamped[t] <= 0
  BY <1>0, ClampHolds
<1>2. \A x, y \in Int : (x >= 0 => y >= 0) /\ (x <= 0 => y <= 0) => y * x >= 0
  <2> SUFFICES ASSUME NEW x \in Int, NEW y \in Int,
                      x >= 0 => y >= 0, x <= 0 => y <= 0
               PROVE  y * x >= 0
    OBVIOUS
  <2>1. CASE x >= 0 BY <2>1
  <2>2. CASE x <= 0 BY <2>2
  <2> QED BY <2>1, <2>2
<1>3. Gross(clamped) \in Nat
  <2> HIDE DEF clamped
  <2> QED BY <1>1, GrossType
<1>4. capped = IF Gross(clamped) > MaxTotal THEN scaled ELSE clamped BY DEF ApplyCaps
<1> HIDE DEF capped, clamped
<1>5. CASE ~(Gross(clamped) > MaxTotal)
  <2>1. capped = clamped BY <1>4, <1>5
  <2>2. \A t \in Tickers : capped[t] * net[t] >= 0 BY <1>1, <1>2, <2>1
  <2>3. Gross(capped) <= MaxTotal
    BY <1>3, <1>5, <2>1, PlanningAssumption DEF PlanningAssumption
  <2> QED BY <1>1, <2>1, <2>2, <2>3 DEF capped
<1>6. CASE Gross(clamped) > MaxTotal
  <2> DEFINE g == Gross(clamped)
             shrunk == [t \in DOMAIN scaled |-> Abs(scaled[t])]
             size == [t \in DOMAIN clamped |-> Abs(clamped[t])]
  <2>1. capped = scaled BY <1>4, <1>6
  <2>2. \A t \in Tickers :
          /\ scaled[t] = Scale(clamped[t], g)
          /\ scaled[t] \in Int /\ Abs(scaled[t]) \in Nat
          /\ clamped[t] >= 0 => 0 <= scaled[t] /\ scaled[t] <= clamped[t]
          /\ clamped[t] <= 0 => clamped[t] <= scaled[t] /\ scaled[t] <= 0
          /\ g * Abs(scaled[t]) <= MaxTotal * Abs(clamped[t])
    <3> TAKE t \in Tickers
    <3>1. scaled[t] = Scale(clamped[t], g) BY <1>0
    <3> HIDE DEF scaled, g
    <3>2. g \in Nat /\ g > MaxTotal BY <1>3, <1>6 DEF g
    <3> QED BY <1>1, <3>1, <3>2, ScaleBounds
  <2>3. DOMAIN scaled = Tickers /\ DOMAIN clamped = Tickers BY <1>0, <1>1
  <2> HIDE DEF scaled
  <2>4. \A t \in Tickers : /\ shrunk[t] \in Int /\ size[t] \in Int
                           /\ g * shrunk[t] <= MaxTotal * size[t]
    <3>1. \A t \in Tickers : shrunk[t] = Abs(scaled[t]) /\ size[t] = Abs(clamped[t])
      BY <2>3
    <3>2. \A t \in Tickers : Abs(clamped[t]) \in Int BY <1>1 DEF Abs
    <3> HIDE DEF shrunk, size, g
    <3> QED BY <2>2, <3>1, <3>2
  <2>5. Gross(scaled) = SumFunctionOnSet(shrunk, Tickers) /\ g = SumFunctionOnSet(size, Tickers)
    BY <2>3 DEF Gross, SumFunction
  <2>6. MaxTotal \in Nat \ {0} BY PlanningAssumption DEF PlanningAssumption
  <2>7. g \in Nat /\ g > MaxTotal BY <1>3, <1>6
  <2> HIDE DEF g, shrunk, size
  <2>8. g * SumFunctionOnSet(shrunk, Tickers) <= MaxTotal * SumFunctionOnSet(size, Tickers)
    BY <1>0, <2>4, <2>6, <2>7, SumsCompare
  <2>9. g * Gross(scaled) <= g * MaxTotal
    <3>1. SumFunctionOnSet(shrunk, Tickers) \in Int BY <1>0, <2>4, SumIsInteger
    <3> QED BY <2>5, <2>6, <2>7, <2>8, <3>1
  <2>10. Gross(scaled) \in Int BY <1>0, <2>4, <2>5, SumIsInteger
  <2>11. Gross(scaled) <= MaxTotal BY <2>6, <2>7, <2>9, <2>10, ProductCancels
  <2>12. \A t \in Tickers : Abs(scaled[t]) <= MaxPosition
    <3>1. \A t \in Tickers : Abs(scaled[t]) <= Abs(clamped[t]) BY <1>1, <2>2 DEF Abs
    <3>2. \A t \in Tickers : Abs(clamped[t]) \in Int BY <1>1 DEF Abs
    <3>3. MaxPosition \in Int BY PlanningAssumption DEF PlanningAssumption
    <3> QED BY <1>1, <2>2, <3>1, <3>2, <3>3
  <2>13. \A t \in Tickers : scaled[t] * net[t] >= 0
    <3> TAKE t \in Tickers
    <3>1. net[t] >= 0 => scaled[t] >= 0 BY <1>1, <2>2
    <3>2. net[t] <= 0 => scaled[t] <= 0 BY <1>1, <2>2
    <3>3. net[t] \in Int /\ scaled[t] \in Int BY <2>2
    <3> QED BY <1>2, <3>1, <3>2, <3>3
  <2>14. scaled \in [Tickers -> Int] BY <1>0, <2>2 DEF scaled
  <2> QED BY <2>1, <2>11, <2>12, <2>13, <2>14 DEF capped
<1> QED BY <1>5, <1>6

-------------------------------------------------------------------------------
(* One order.                                                               *)

LEMMA EffectiveChoice ==
  ASSUME NEW target \in Int, NEW v \in Int
  PROVE  LET eff == EffectiveTarget(target, v)
         IN  /\ eff \in {0, target}
             /\ v > 0 => eff >= 0
             /\ v < 0 => eff <= 0
             /\ eff # target => (v > 0 /\ target < 0) \/ (v < 0 /\ target > 0)
<1>1. v > 0 /\ target < 0 => target * v < 0 OBVIOUS
<1>2. v < 0 /\ target > 0 => target * v < 0 OBVIOUS
<1>3. (v >= 0 /\ target >= 0) \/ (v <= 0 /\ target <= 0) => ~(target * v < 0) OBVIOUS
<1> QED BY <1>1, <1>2, <1>3 DEF EffectiveTarget

\* Where an order can take a position: never through zero, but a short bought
\* back below the market; toward its target, and past it only on the short side
\* by the ratio of market price and cached close.
Within(v, new, effective, c, m) ==
  LET gap   == effective - v
      moved == new - v
  IN  /\ v * new < 0 => v < 0 /\ c < m
      /\ moved * gap >= 0
      /\ \/ Abs(moved) <= Abs(gap)
         \/ effective < 0 /\ c < m /\ Abs(moved) * c <= Abs(gap) * m

LEMMA SquaresArePositive ==
  ASSUME NEW v \in Int
  PROVE  v * v \in Int /\ v * v >= 0
<1>1. CASE v >= 0 BY <1>1
<1>2. CASE v < 0 BY <1>2
<1> QED BY <1>1, <1>2

LEMMA StandingStill ==
  ASSUME NEW v \in Int, NEW effective \in Int, NEW c, NEW m
  PROVE  Within(v, v, effective, c, m)
<1>1. v - v = 0 /\ v * v >= 0 /\ v * v \in Int BY SquaresArePositive
<1>2. (v - v) * (effective - v) = 0 BY <1>1
<1>3. Abs(v - v) <= Abs(effective - v) BY DEF Abs
<1> DEFINE square == v * v
<1>4. ~(square < 0)
  <2>1. square \in Int /\ square >= 0 BY <1>1
  <2> HIDE DEF square
  <2> QED BY <2>1
<1> QED BY <1>2, <1>3, <1>4 DEF Within

\* A position that goes no further than its target and not through zero.
LEMMA WithinGap ==
  ASSUME NEW v \in Int, NEW new \in Int, NEW effective \in Int, NEW c, NEW m,
         \/ v <= new /\ new <= effective
         \/ effective <= new /\ new <= v,
         v > 0 => new >= 0, v < 0 => new <= 0
  PROVE  Within(v, new, effective, c, m)
<1> DEFINE gap == effective - v
           moved == new - v
<1>1. gap \in Int /\ moved \in Int /\ Abs(moved) <= Abs(gap) BY DEF Abs
<1>2. (moved >= 0 /\ gap >= 0) \/ (moved <= 0 /\ gap <= 0) OBVIOUS
<1>3. v * new >= 0
  <2>1. CASE v > 0 BY <2>1
  <2>2. CASE v < 0 BY <2>2
  <2>3. CASE v = 0 BY <2>3
  <2> QED BY <2>1, <2>2, <2>3
<1>4. v * new \in Int OBVIOUS
<1> HIDE DEF gap, moved
<1>5. moved * gap >= 0
  <2>1. CASE moved >= 0 /\ gap >= 0 BY <1>1, <2>1
  <2>2. CASE moved <= 0 /\ gap <= 0 BY <1>1, <2>2
  <2> QED BY <1>2, <2>1, <2>2
<1> QED BY <1>1, <1>3, <1>4, <1>5 DEF Within, gap, moved

\* Whole shares counted at one price and filled at another, on the short side.
LEMMA WithinRatio ==
  ASSUME NEW v \in Int, NEW effective \in Int, v <= 0, effective < 0,
         NEW c \in Nat \ {0}, NEW m \in Nat \ {0}, NEW shares \in Nat,
         shares * c <= Abs(effective - v)
  PROVE  Within(v, IF effective - v > 0 THEN v + shares * m ELSE v - shares * m,
                effective, c, m)
<1> DEFINE gap == effective - v
           step == shares * m
           counted == shares * c
           new == IF gap > 0 THEN v + step ELSE v - step
           moved == new - v
<1>1. gap \in Int /\ step \in Nat /\ counted \in Nat /\ counted <= Abs(gap) OBVIOUS
<1>2. new \in Int /\ moved = IF gap > 0 THEN step ELSE -step BY <1>1
<1>3. Abs(moved) = step BY <1>1, <1>2 DEF Abs
<1>4. moved * gap >= 0
  <2> HIDE DEF gap, step, new
  <2>1. CASE gap > 0 BY <1>1, <1>2, <2>1
  <2>2. CASE ~(gap > 0) BY <1>1, <1>2, <2>2
  <2> QED BY <2>1, <2>2
<1>5. m <= c => step <= Abs(gap)
  <2>1. m <= c => shares * m <= shares * c BY ProductMonotonic
  <2>2. Abs(gap) \in Nat BY <1>1 DEF Abs
  <2> HIDE DEF gap
  <2> QED BY <1>1, <2>1, <2>2
<1>6. step * c <= Abs(gap) * m
  <2>1. step * c = m * counted
    <3>1. (shares * m) * c = m * (shares * c) OBVIOUS
    <3> QED BY <3>1
  <2>2. Abs(gap) \in Nat BY <1>1 DEF Abs
  <2> HIDE DEF gap, step, counted
  <2>3. m * counted <= m * Abs(gap) BY <1>1, <2>2, ProductMonotonic
  <2>4. m * Abs(gap) = Abs(gap) * m BY <2>2
  <2> QED BY <2>1, <2>3, <2>4
<1>7. v * new < 0 => v < 0 /\ c < m
  <2>1. CASE v = 0 BY <1>2, <2>1
  <2>2. CASE v < 0 /\ m <= c
    <3>1. step <= Abs(gap) BY <1>5, <2>2
    <3>2. new <= 0 BY <1>1, <2>2, <3>1 DEF Abs
    <3> HIDE DEF new
    <3>3. v * new >= 0 BY <1>2, <2>2, <3>2
    <3> QED BY <1>2, <3>3
  <2>3. CASE v < 0 /\ c < m BY <2>3
  <2> QED BY <2>1, <2>2, <2>3
<1>8. m <= c \/ c < m OBVIOUS
<1> HIDE DEF gap, step, counted
<1>9. Within(v, new, effective, c, m)
  <2>1. moved = new - v /\ gap = effective - v BY DEF gap
  <2> HIDE DEF new, moved
  <2>2. /\ v * new < 0 => v < 0 /\ c < m
        /\ moved * gap >= 0
        /\ \/ Abs(moved) <= Abs(gap)
           \/ effective < 0 /\ c < m /\ Abs(moved) * c <= Abs(gap) * m
    BY <1>3, <1>4, <1>5, <1>6, <1>7, <1>8
  <2> QED BY <2>1, <2>2 DEF Within
<1> QED BY <1>9 DEF gap, step

\* plan_orders and the broker, one order, its shares counted at any cached
\* close and filled at any market price: its shape is accepted, what it leaves
\* is within the bounds above, and whole shares are the only way below zero.
THEOREM OneOrder ==
  ASSUME value \in [Tickers -> Int], price \in [Tickers -> Nat],
         market \in [Tickers -> Nat \ {0}], rendered \in [Tickers -> Renderings],
         NEW t \in Tickers, NEW target \in Int,
         value[t] <= 0 => rendered[t] = "exact"
  PROVE  LET d == PlanTicker(target, value[t], value[t], FALSE, price[t])
             new == Filled(t, d, target)
         IN  /\ BrokerAccepts(t, d)
             /\ new \in Int
             /\ Within(value[t], new, EffectiveTarget(target, value[t]), price[t], market[t])
             /\ \A r \in MayRender(t, d, new) : r \in Renderings /\ (new <= 0 => r = "exact")
<1> DEFINE v == value[t]
           p == price[t]
           m == market[t]
           eff == EffectiveTarget(target, v)
           delta == eff - v
           shares == Abs(delta) \div p
           d == PlanTicker(target, v, v, FALSE, p)
           new == Filled(t, d, target)
           Texts == \A r \in MayRender(t, d, new) :
                      r \in Renderings /\ (new <= 0 => r = "exact")
<1>1. v \in Int /\ p \in Nat /\ m \in Nat \ {0} OBVIOUS
<1>0. rendered[t] \in Renderings /\ (v <= 0 => rendered[t] = "exact") OBVIOUS
<1> SUFFICES /\ BrokerAccepts(t, d)
             /\ new \in Int
             /\ Within(v, new, eff, p, m)
             /\ Texts
    OBVIOUS
<1>2. /\ eff \in {0, target} /\ (v > 0 => eff >= 0) /\ (v < 0 => eff <= 0)
  BY <1>1, EffectiveChoice
<1>3. eff \in Int /\ delta \in Int /\ Abs(delta) \in Nat BY <1>1, <1>2 DEF Abs
<1>4. new = CASE d.kind = "notional" -> v + Signed(d)
              [] d.kind = "qty" -> IF eff = 0 THEN Closed(t) ELSE v + Signed(d) * m
              [] OTHER -> v
  BY DEF Filled
<1>5. d = IF Abs(delta) < MinOrder THEN NoOrder
          ELSE IF eff = 0 /\ v # 0 THEN QtyOrder(Side(-v), Abs(v))
          ELSE IF eff > 0 /\ v >= 0 THEN NotionalOrder(Side(delta), Abs(delta))
          ELSE IF p <= 0 THEN Skip("no_reference_price")
          ELSE IF shares < 1 THEN Skip("below_one_share")
          ELSE QtyOrder(Side(delta), shares)
  BY DEF PlanTicker
<1>6. d.kind # "notional" => Texts
  <2>1. d.kind # "notional" =>
          \A r \in MayRender(t, d, new) : (r = rendered[t] /\ new = v) \/ r = "exact"
    BY DEF MayRender
  <2>2. "exact" \in Renderings BY DEF Renderings
  <2> HIDE DEF d, new, v
  <2> QED BY <1>0, <2>1, <2>2
<1>7. new \in Int /\ new > 0 => Texts
  <2>1. \A r \in MayRender(t, d, new) : r \in Renderings
    BY <1>0 DEF MayRender, Renderings
  <2> HIDE DEF d, new
  <2>2. new \in Int /\ new > 0 => ~(new <= 0) OBVIOUS
  <2> QED BY <2>1, <2>2
<1> HIDE DEF d, new, delta, eff, v, p, m, Texts
<1>8. CASE d.kind \notin {"notional", "qty"}
  <2>1. new = v BY <1>4, <1>8
  <2>2. BrokerAccepts(t, d) BY <1>8 DEF BrokerAccepts
  <2>3. Within(v, v, eff, p, m) BY <1>1, <1>3, StandingStill
  <2> QED BY <1>1, <1>6, <1>8, <2>1, <2>2, <2>3
<1>9. CASE ~(Abs(delta) < MinOrder) /\ eff = 0 /\ v # 0
  <2>1. d = QtyOrder(Side(-v), Abs(v)) BY <1>5, <1>9
  <2>2. d.kind = "qty" BY <2>1 DEF QtyOrder
  <2>3. new = Closed(t) BY <1>4, <1>9, <2>2
  <2>4. new \in {0, v} \/ (new = 1 /\ v > 0)
    <3>1. rendered[t] \in {"exact", "less", "more"} BY <1>0 DEF Renderings
    <3>2. rendered[t] = "less" => v > 0 BY <1>0, <1>1
    <3> QED BY <2>3, <3>1, <3>2 DEF Closed, Dust, v
  <2>5. /\ new \in Int /\ (v > 0 => new >= 0) /\ (v < 0 => new <= 0)
        /\ \/ v <= new /\ new <= eff
           \/ eff <= new /\ new <= v
    <3>1. CASE v > 0 BY <1>1, <1>9, <2>4, <3>1
    <3>2. CASE v < 0 BY <1>1, <1>9, <2>4, <3>2
    <3> QED BY <1>1, <1>9, <3>1, <3>2
  <2>6. Within(v, new, eff, p, m) BY <1>1, <1>3, <2>5, WithinGap
  <2>7. BrokerAccepts(t, d) BY <2>2 DEF BrokerAccepts
  <2> QED BY <1>6, <2>2, <2>5, <2>6, <2>7
<1>10. CASE ~(Abs(delta) < MinOrder) /\ ~(eff = 0 /\ v # 0) /\ eff > 0 /\ v >= 0
  <2>1. d = NotionalOrder(Side(delta), Abs(delta)) BY <1>5, <1>10
  <2>2. d.kind = "notional" BY <2>1 DEF NotionalOrder
  <2>3. Signed(d) = delta BY <1>3, <2>1 DEF NotionalOrder, Signed, Side, Abs
  <2>4. new = eff BY <1>1, <1>3, <1>4, <2>2, <2>3 DEF delta
  <2>5. BrokerAccepts(t, d) BY <1>1, <1>3, <1>10, <2>3 DEF BrokerAccepts, delta, v
  <2>6. Within(v, new, eff, p, m) BY <1>1, <1>3, <1>10, <2>4, WithinGap
  <2> QED BY <1>3, <1>7, <1>10, <2>4, <2>5, <2>6
<1>11. CASE /\ d = QtyOrder(Side(delta), shares) /\ ~(Abs(delta) < MinOrder)
            /\ ~(p <= 0) /\ ~(shares < 1)
            /\ ~(eff = 0 /\ v # 0) /\ ~(eff > 0 /\ v >= 0)
  <2>1. p \in Nat \ {0} BY <1>1, <1>11
  <2>2. shares \in Nat /\ shares * p <= Abs(delta) BY <1>3, <2>1, DivisionBounds
  <2>3. d.kind = "qty" /\ Signed(d) = IF delta > 0 THEN shares ELSE -shares
    BY <1>11 DEF QtyOrder, Signed, Side
  <2>4. eff < 0 /\ v <= 0
    <3>1. eff = 0 /\ v = 0 => Abs(delta) = 0 BY DEF delta, Abs
    <3>2. MinOrder \in Nat \ {0} BY PlanningAssumption DEF PlanningAssumption
    <3> QED BY <1>1, <1>2, <1>3, <1>11, <3>1, <3>2
  <2> HIDE DEF shares
  <2>5. new = IF delta > 0 THEN v + shares * m ELSE v - shares * m
    <3>1. new = v + Signed(d) * m BY <1>4, <2>3, <2>4
    <3>2. shares * m \in Int /\ (-shares) * m = -(shares * m) BY <1>1, <2>2
    <3> QED BY <1>1, <2>3, <3>1, <3>2
  <2>6. Within(v, new, eff, p, m) BY <1>1, <1>3, <2>1, <2>2, <2>4, <2>5, WithinRatio DEF delta
  <2>7. new \in Int
    <3>1. shares * m \in Int BY <1>1, <2>2
    <3> HIDE DEF shares
    <3> QED BY <1>1, <2>5, <3>1
  <2>8. BrokerAccepts(t, d) BY <2>3 DEF BrokerAccepts
  <2> QED BY <1>6, <2>3, <2>6, <2>7, <2>8
<1>12. d = NoOrder \/ d = Skip("no_reference_price") \/ d = Skip("below_one_share")
         => d.kind \notin {"notional", "qty"}
  BY DEF NoOrder, Skip
<1> QED BY <1>5, <1>8, <1>9, <1>10, <1>11, <1>12

-------------------------------------------------------------------------------
(* The loop.                                                                *)

LEMMA NetType ==
  ASSUME TypeOK
  PROVE  Net \in [Tickers -> Int]
<1>1. SUFFICES ASSUME NEW t \in Tickers
               PROVE  SumFunction([s \in DOMAIN legs |-> legs[s][t]]) \in Int
  BY DEF Net, AggregateTargets
<1> DEFINE asks == [s \in DOMAIN legs |-> legs[s][t]]
<1>2. DOMAIN legs = Strategies /\ IsFiniteSet(Strategies)
  BY LoopAssumption DEF TypeOK, LoopAssumption
<1>3. DOMAIN asks = Strategies /\ \A s \in Strategies : asks[s] \in Int
  BY <1>2 DEF TypeOK
<1>4. SumFunction(asks) = SumFunctionOnSet(asks, Strategies) BY <1>3 DEF SumFunction
<1> HIDE DEF asks
<1>5. SumFunctionOnSet(asks, Strategies) \in Int BY <1>2, <1>3, SumIsInteger
<1> QED BY <1>4, <1>5 DEF asks

LEMMA CapsLemma ==
  ASSUME TypeOK
  PROVE  CapsHold /\ Capped \in [Tickers -> Int]
         /\ \A t \in Tickers : Abs(Capped[t]) <= MaxPosition
<1>1. Net \in [Tickers -> Int] BY NetType
<1> QED BY <1>1, CapsRespected DEF CapsHold, Capped

\* What the planner decides about each ticker, and what its order leaves.
LEMMA DecisionsLemma ==
  ASSUME TypeOK, NEW t \in Tickers
  PROVE  LET d == Decisions(Capped)[t]
             new == Filled(t, d, Capped[t])
         IN  /\ BrokerAccepts(t, d)
             /\ new \in Int
             /\ Within(value[t], new, EffectiveTarget(Capped[t], value[t]), price[t], market[t])
             /\ \A r \in MayRender(t, d, new) : r \in Renderings /\ (new <= 0 => r = "exact")
             /\ t \notin Managed => new = value[t]
<1>1. Capped \in [Tickers -> Int] BY CapsLemma
<1>2. /\ value \in [Tickers -> Int] /\ price \in [Tickers -> Nat]
      /\ market \in [Tickers -> Nat \ {0}] /\ rendered \in [Tickers -> Renderings]
      /\ value[t] <= 0 => rendered[t] = "exact"
  <2>1. Markets \subseteq Nat \ {0} BY LoopAssumption DEF LoopAssumption
  <2>2. Markets \cup {0} \subseteq Nat BY <2>1
  <2>3. market \in [Tickers -> Markets] /\ price \in [Tickers -> Markets \cup {0}] BY DEF TypeOK
  <2>4. market \in [Tickers -> Nat \ {0}] BY <2>1, <2>3
  <2>5. price \in [Tickers -> Nat] BY <2>2, <2>3
  <2> QED BY <2>4, <2>5 DEF TypeOK
<1>3. Decisions(Capped)[t] = IF t \in Managed
                     THEN PlanTicker(Capped[t], value[t], value[t], FALSE, price[t])
                     ELSE NoOrder
  BY DEF Decisions
<1>4. CASE t \in Managed
  <2>1. Decisions(Capped)[t] = PlanTicker(Capped[t], value[t], value[t], FALSE, price[t])
    BY <1>3, <1>4
  <2> QED BY <1>1, <1>2, <1>4, <2>1, OneOrder
<1>5. CASE t \notin Managed
  <2> DEFINE v == value[t]
             eff == EffectiveTarget(Capped[t], v)
  <2>1. Decisions(Capped)[t] = NoOrder BY <1>3, <1>5
  <2>2. NoOrder.kind = "none" BY DEF NoOrder
  <2>3. Filled(t, NoOrder, Capped[t]) = v BY <2>2 DEF Filled
  <2>4. BrokerAccepts(t, NoOrder) BY <2>2 DEF BrokerAccepts
  <2>5. v \in Int /\ eff \in Int
    <3>1. v \in Int /\ Capped[t] \in Int BY <1>1, <1>2
    <3> HIDE DEF v
    <3> QED BY <3>1 DEF EffectiveTarget
  <2> HIDE DEF v, eff
  <2>6. Within(v, v, eff, price[t], market[t]) BY <2>5, StandingStill
  <2>7. \A r \in MayRender(t, NoOrder, v) : r = rendered[t] BY DEF MayRender, v
  <2>8. rendered[t] \in Renderings /\ (v <= 0 => rendered[t] = "exact") BY <1>2 DEF v
  <2> QED BY <2>1, <2>3, <2>4, <2>5, <2>6, <2>7, <2>8 DEF v, eff
<1> QED BY <1>4, <1>5

\* What a tick does to each position.
LEMMA TickMoves ==
  ASSUME TypeOK, Tick, NEW t \in Tickers
  PROVE  /\ value'[t] \in Int
         /\ rendered'[t] \in Renderings
         /\ value'[t] <= 0 => rendered'[t] = "exact"
         /\ Within(value[t], value'[t], EffectiveTarget(Capped[t], value[t]), price[t], market[t])
         /\ t \notin Managed => value'[t] = value[t]
<1> DEFINE d == Decisions(Capped)[t]
           new == Filled(t, d, Capped[t])
<1>1. /\ value'[t] = IF BrokerAccepts(t, d) THEN new ELSE value[t]
      /\ rendered'[t] \in MayRender(t, d, value'[t])
  BY DEF Tick
<1>2. /\ BrokerAccepts(t, d) /\ new \in Int
      /\ Within(value[t], new, EffectiveTarget(Capped[t], value[t]), price[t], market[t])
      /\ \A r \in MayRender(t, d, new) : r \in Renderings /\ (new <= 0 => r = "exact")
      /\ t \notin Managed => new = value[t]
  BY DecisionsLemma
<1> HIDE DEF d, new
<1> QED BY <1>1, <1>2

LEMMA LoopStarts == Init => TypeOK
<1> SUFFICES ASSUME Init PROVE TypeOK OBVIOUS
<1>1. legs \in [Strategies -> [Tickers -> Int]] BY DEF Init
<1>2. value \in [Tickers -> Int] BY LoopAssumption DEF Init, LoopAssumption
<1>3. moves \in 0 .. MaxMoves BY LoopAssumption DEF Init, LoopAssumption
<1>4. \A t \in Tickers : value[t] <= 0 => rendered[t] = "exact" BY DEF Init
<1> QED BY <1>1, <1>2, <1>3, <1>4 DEF Init, TypeOK

\* A position keeps its sign at another price.
LEMMA RevaluedKeepsSign ==
  ASSUME NEW v \in Int, NEW from \in Nat \ {0}, NEW to \in Nat \ {0}
  PROVE  /\ Revalued(v, from, to) \in Int
         /\ v > 0 <=> Revalued(v, from, to) > 0
         /\ v < 0 <=> Revalued(v, from, to) < 0
<1>1. CASE v = 0 BY <1>1 DEF Revalued
<1>2. CASE v > 0
  <2>1. v * to \in Nat BY <1>2
  <2> DEFINE q == (v * to) \div from
  <2>2. q \in Nat
    <3> DEFINE a == v * to
    <3>1. a \in Nat BY <2>1
    <3> HIDE DEF a
    <3>2. a \div from \in Nat BY <3>1, DivisionBounds
    <3> QED BY <3>2 DEF a
  <2>3. Revalued(v, from, to) = Larger(1, q) BY <1>2 DEF Revalued
  <2> HIDE DEF q
  <2> QED BY <1>2, <2>2, <2>3 DEF Larger
<1>3. CASE v < 0
  <2>1. -v * to \in Nat
    <3>1. -v \in Nat BY <1>3
    <3>2. \A a \in Nat : a * to \in Nat OBVIOUS
    <3>3. -v * to = (-v) * to BY <1>3
    <3> QED BY <3>1, <3>2, <3>3
  <2> DEFINE q == (-v * to) \div from
  <2>2. q \in Nat
    <3> DEFINE a == -v * to
    <3>1. a \in Nat BY <2>1
    <3> HIDE DEF a
    <3>2. a \div from \in Nat BY <3>1, DivisionBounds
    <3> QED BY <3>2 DEF a
  <2>3. Revalued(v, from, to) = -Larger(1, q) BY <1>3 DEF Revalued
  <2> HIDE DEF q
  <2> QED BY <1>3, <2>2, <2>3 DEF Larger
<1> QED BY <1>1, <1>2, <1>3

LEMMA LoopStep == TypeOK /\ [Next]_vars => TypeOK'
<1> SUFFICES ASSUME TypeOK, [Next]_vars PROVE TypeOK' OBVIOUS
<1>0. /\ MaxMoves \in Nat /\ moves \in 0 .. MaxMoves
      /\ Notionals \subseteq Int /\ Markets \subseteq Nat \ {0}
  BY LoopAssumption DEF LoopAssumption, TypeOK
<1>1. CASE Tick
  <2>1. UNCHANGED <<legs, market, price, moves>> /\ touched' \subseteq Tickers
    BY <1>1 DEF Tick, TypeOK
  <2>2. \A t \in Tickers : value'[t] \in Int /\ (value'[t] <= 0 => rendered'[t] = "exact")
    BY <1>1, TickMoves
  <2>3. value' = [t \in Tickers |-> value'[t]] BY <1>1 DEF Tick
  <2>4. value' \in [Tickers -> Int] BY <2>2, <2>3
  <2>5. rendered' \in [Tickers -> Renderings] BY <1>1 DEF Tick
  <2> QED BY <2>1, <2>2, <2>4, <2>5 DEF TypeOK
<1>2. ASSUME NEW s \in Strategies, NEW t \in Tickers, NEW n \in Notionals,
             SignalMoves(s, t, n)
      PROVE  TypeOK'
  <2>1. legs' \in [Strategies -> [Tickers -> Int]] BY <1>0, <1>2 DEF TypeOK, SignalMoves
  <2>2. moves' \in 0 .. MaxMoves BY <1>0, <1>2 DEF SignalMoves
  <2> QED BY <1>2, <2>1, <2>2 DEF TypeOK, SignalMoves
<1>3. ASSUME NEW t \in Tickers, NEW to \in Markets, MarketMoves(t, to)
      PROVE  TypeOK'
  <2>1. moves' \in 0 .. MaxMoves BY <1>0, <1>3 DEF MarketMoves
  <2>2. value[t] \in Int /\ market[t] \in Nat \ {0} /\ to \in Nat \ {0}
    BY <1>0 DEF TypeOK
  <2> DEFINE new == Revalued(value[t], market[t], to)
  <2>3. new \in Int /\ (value[t] > 0 <=> new > 0) BY <2>2, RevaluedKeepsSign
  <2>4. value' = [value EXCEPT ![t] = new] BY <1>3 DEF MarketMoves
  <2> HIDE DEF new
  <2>5. value' \in [Tickers -> Int] BY <2>3, <2>4 DEF TypeOK
  <2>6. \A u \in Tickers : value'[u] <= 0 => rendered[u] = "exact"
    BY <2>2, <2>3, <2>4 DEF TypeOK
  <2>7. market' \in [Tickers -> Markets] BY <1>3 DEF TypeOK, MarketMoves
  <2> QED BY <1>3, <2>1, <2>5, <2>6, <2>7 DEF TypeOK, MarketMoves
<1>4. ASSUME NEW t \in Tickers, ClosesCached(t)
      PROVE  TypeOK'
  <2>1. moves' \in 0 .. MaxMoves BY <1>0, <1>4 DEF ClosesCached
  <2>2. price' \in [Tickers -> Markets \cup {0}] BY <1>4 DEF TypeOK, ClosesCached
  <2> QED BY <1>4, <2>1, <2>2 DEF TypeOK, ClosesCached
<1>5. CASE UNCHANGED vars BY <1>5 DEF TypeOK, vars
<1> QED BY <1>1, <1>2, <1>3, <1>4, <1>5 DEF Next

\* Every position stays a signed amount, and only a long one has a share count
\* its order text can miss: whatever fills at whatever price.
THEOREM LoopTypes == Spec => []TypeOK
BY LoopStarts, LoopStep, PTL DEF Spec

\* apply_caps: in every reachable state the capped targets respect both dollar
\* ceilings and none is on the other side of what was asked for.
THEOREM CapsAlwaysHold == Spec => []CapsHold
<1>1. TypeOK => CapsHold BY CapsLemma
<1> QED BY <1>1, LoopTypes, PTL

\* plan_orders' routing: no order it plans has a shape the broker refuses.
THEOREM ShapesAlwaysAccepted == Spec => []ShapesAccepted
<1>1. TypeOK => ShapesAccepted BY DecisionsLemma DEF ShapesAccepted
<1> QED BY <1>1, LoopTypes, PTL

\* plan_orders: a long is never carried short, and a short goes long only where
\* it is bought back at a market above the cached close, for any closes and
\* market prices.
THEOREM FlipsNeedAStaleClose == Spec => FlipsOnlyOnStaleClose
<1> DEFINE Kept == \A t \in Tickers :
             value[t] * value'[t] < 0 => value[t] < 0 /\ price[t] < market[t]
<1>1. TypeOK /\ [Next]_vars => [Kept]_vars
  <2> SUFFICES ASSUME TypeOK, Next, NEW t \in Tickers, value[t] * value'[t] < 0
               PROVE  value[t] < 0 /\ price[t] < market[t]
    BY DEF vars
  <2>0. \A u \in Tickers : value[u] \in Int /\ market[u] \in Nat \ {0}
    BY LoopAssumption DEF TypeOK, LoopAssumption
  <2>1. CASE Tick BY <2>1, TickMoves DEF Within
  <2>2. value'[t] # value[t]
    <3>1. value[t] * value[t] \in Int /\ value[t] * value[t] >= 0
      BY <2>0, SquaresArePositive
    <3> DEFINE square == value[t] * value[t]
    <3>2. value'[t] = value[t] => square < 0 OBVIOUS
    <3> HIDE DEF square
    <3>3. square \in Int /\ square >= 0 BY <3>1 DEF square
    <3> QED BY <3>2, <3>3
  <2>3. ASSUME NEW u \in Tickers, NEW to \in Markets, MarketMoves(u, to)
        PROVE  FALSE
    <3>1. u = t BY <2>2, <2>3 DEF MarketMoves, TypeOK
    <3> DEFINE v == value[t]
               new == value'[t]
    <3>2. new = Revalued(v, market[t], to) BY <2>3, <3>1 DEF MarketMoves, TypeOK
    <3>3. to \in Nat \ {0} BY LoopAssumption DEF LoopAssumption
    <3>4. new \in Int /\ (v > 0 <=> new > 0) /\ (v < 0 <=> new < 0)
      BY <2>0, <3>2, <3>3, RevaluedKeepsSign
    <3>5. v \in Int /\ v * new < 0 BY <2>0
    <3> HIDE DEF v, new
    <3>6. CASE v > 0 BY <3>4, <3>5, <3>6
    <3>7. CASE v < 0 BY <3>4, <3>5, <3>7
    <3>8. CASE v = 0 BY <3>4, <3>5, <3>8
    <3> QED BY <3>5, <3>6, <3>7, <3>8
  <2> QED BY <2>1, <2>2, <2>3 DEF Next, SignalMoves, ClosesCached
<1> QED BY <1>1, LoopTypes, PTL DEF Spec, FlipsOnlyOnStaleClose

\* A tick moves a position toward its target, and past it only on the short
\* side of a market above the cached close, by the ratio of the two at most.
THEOREM OvershootBounded == Spec => OvershootsByRatioOnly
<1> DEFINE Kept == moves' = moves =>
             \E capped \in {Capped} : \A t \in Tickers :
               LET effective == EffectiveTarget(capped[t], value[t])
                   gap       == effective - value[t]
                   moved     == value'[t] - value[t]
               IN  /\ moved * gap >= 0
                   /\ \/ Abs(moved) <= Abs(gap)
                      \/ /\ effective < 0 /\ price[t] < market[t]
                         /\ Abs(moved) * price[t] <= Abs(gap) * market[t]
<1>1. TypeOK /\ [Next]_vars => [Kept]_vars
  <2> SUFFICES ASSUME TypeOK, Next, moves' = moves PROVE Kept BY DEF vars
  <2>1. Tick BY DEF Next, SignalMoves, MarketMoves, ClosesCached, TypeOK
  <2> QED BY <2>1, TickMoves DEF Within
<1> QED BY <1>1, LoopTypes, PTL DEF Spec, OvershootsByRatioOnly

\* A position no strategy has named and no order row mentions is never traded.
THEOREM HandsOff == Spec => HandHeldUntouched
<1> DEFINE Kept == \A t \in Tickers :
             (t \notin Named /\ t \notin touched /\ moves' = moves) => value'[t] = value[t]
<1>1. TypeOK /\ [Next]_vars => [Kept]_vars
  <2> SUFFICES ASSUME TypeOK, Next, moves' = moves PROVE Kept BY DEF vars
  <2>1. Tick BY DEF Next, SignalMoves, MarketMoves, ClosesCached, TypeOK
  <2> QED BY <2>1, TickMoves DEF Managed
<1> QED BY <1>1, LoopTypes, PTL DEF Spec, HandHeldUntouched
===============================================================================
