------------------------ MODULE StrategyBreaker_proofs ------------------------
(***************************************************************************)
(* What the breaker's records do, and what its tick does to positions, for *)
(* any finite sets of strategies and tickers, returns and window lengths.  *)
(* The records need no sums; positions and legs do, which are folds, so    *)
(* the second part derives induction, in sets in the place of predicates,  *)
(* and from it what is needed of sums.                                     *)
(***************************************************************************)
EXTENDS StrategyBreaker, FiniteSetTheorems, TLAPS

\* One row per day: no two entries of a ledger share a date.
OnePerDay(days) ==
  /\ IsFiniteSet(days)
  /\ \A r, x \in days : r.date = x.date => r = x

\* Until the first commit of a tick nobody has been pulled since it read who was.
ReadIsNoOlder == (pc = "record" /\ todo = Strategies) => halted \subseteq sawHalted

Ledgers ==
  /\ ledger = [s \in Strategies |-> ledger[s]]
  /\ \A s \in Strategies : OnePerDay(ledger[s])

Frozen == frozen = [s \in Strategies |-> frozen[s]]

IInv == ReadIsNoOlder /\ Ledgers /\ Frozen

-------------------------------------------------------------------------------
LEMMA TrailingIsPart ==
  ASSUME NEW days, NEW n, OnePerDay(days)
  PROVE  OnePerDay(Trailing(days, n))
<1>1. Trailing(days, n) \subseteq days  BY DEF Trailing
<1> QED  BY <1>1, FS_Subset DEF OnePerDay

\* Replacing today's row keeps a ledger one of days.
LEMMA AppendKeepsDays ==
  ASSUME NEW days, NEW date, NEW ret, OnePerDay(days)
  PROVE  OnePerDay(AppendOrUpdateDay(days, date, ret))
<1> DEFINE others == {r \in days : r.date # date}
           row == [date |-> date, ret |-> ret]
<1>1. IsFiniteSet(others)  BY FS_Subset DEF OnePerDay
<1>2. IsFiniteSet(others \cup {row})  BY <1>1, FS_AddElement
<1>3. OnePerDay(others \cup {row})  BY <1>2 DEF OnePerDay
<1> QED  BY <1>3, TrailingIsPart DEF AppendOrUpdateDay

\* A ledger has as many dates as rows.
LEMMA DatesOfRows ==
  ASSUME NEW days, OnePerDay(days)
  PROVE  Cardinality({r.date : r \in days}) = Cardinality(days)
<1> DEFINE dates == {r.date : r \in days}
           f == [r \in days |-> r.date]
<1>1. f \in Bijection(days, dates)
  <2>1. f \in [days -> dates]  OBVIOUS
  <2>2. IsInjective(f)  BY DEF OnePerDay, IsInjective
  <2>3. \A d \in dates : \E r \in days : f[r] = d  OBVIOUS
  <2> QED  BY <2>1, <2>2, <2>3 DEF Bijection, Injection, Surjection
<1>2. ExistsBijection(days, dates)  BY <1>1 DEF ExistsBijection
<1> QED  BY <1>2, FS_Bijection DEF OnePerDay

-------------------------------------------------------------------------------
LEMMA InitIInv == Init => IInv
<1> SUFFICES ASSUME Init PROVE IInv  OBVIOUS
<1>1. IsFiniteSet({})  BY FS_EmptySet
<1> QED  BY <1>1 DEF Init, IInv, ReadIsNoOlder, Ledgers, OnePerDay, Frozen

LEMMA RecordKeeps ==
  ASSUME IInv, NEW s \in Strategies, NEW ret, NEW stale \in BOOLEAN, Record(s, ret, stale)
  PROVE  IInv'
<1>1. ReadIsNoOlder'  BY DEF Record, ReadIsNoOlder
<1>2. OnePerDay(AppendOrUpdateDay(ledger[s], today, ret))
  BY AppendKeepsDays DEF IInv, Ledgers
<1>3. Ledgers'  BY <1>2 DEF Record, IInv, Ledgers
<1>4. Frozen'  BY DEF Record, IInv, Frozen
<1> QED  BY <1>1, <1>3, <1>4 DEF IInv

LEMMA NextKeeps == IInv /\ [Next]_vars => IInv'
<1> SUFFICES ASSUME IInv, [Next]_vars PROVE IInv'  OBVIOUS
<1> USE DEF IInv, ReadIsNoOlder, Ledgers, Frozen, rows, tick, Leave
<1>1. ASSUME NEW signal, LoadTargets(signal) PROVE IInv'  BY <1>1 DEF LoadTargets
<1>2. ASSUME NEW s \in Strategies, NEW ret, NEW stale \in BOOLEAN, Record(s, ret, stale)
      PROVE IInv'
  BY <1>2, RecordKeeps
<1>3. CASE AllRecorded  BY <1>3 DEF AllRecorded
<1>4. CASE Trade  BY <1>4 DEF Trade
<1>5. CASE Crash  BY <1>5 DEF Crash
<1>6. ASSUME NEW s \in Strategies, ResumeStrategy(s) PROVE IInv'  BY <1>6 DEF ResumeStrategy
<1>7. ASSUME NEW t, NEW by, Drifts(t, by) PROVE IInv'  BY <1>7 DEF Drifts
<1>8. CASE DayPasses  BY <1>8 DEF DayPasses
<1>9. CASE UNCHANGED vars  BY <1>9 DEF vars
<1> QED  BY <1>1, <1>2, <1>3, <1>4, <1>5, <1>6, <1>7, <1>8, <1>9 DEF Next

LEMMA Holds == Spec => []IInv
<1> QED  BY InitIInv, NextKeeps, PTL DEF Spec

\* Who is pulled after a step: nobody else, unless the step records a strategy.
LEMMA OthersPullNobody ==
  ASSUME [Next]_vars,
         ~ \E s \in Strategies, ret \in Returns, stale \in BOOLEAN : Record(s, ret, stale)
  PROVE  /\ halted' \subseteq halted
         /\ \A s \in halted' : UNCHANGED ledger
<1> USE DEF rows, tick, Leave
<1>1. ASSUME NEW signal, LoadTargets(signal) PROVE UNCHANGED rows  BY <1>1 DEF LoadTargets
<1>2. CASE AllRecorded \/ Trade \/ Crash \/ DayPasses
  BY <1>2 DEF AllRecorded, Trade, Crash, DayPasses
<1>3. ASSUME NEW s \in Strategies, ResumeStrategy(s)
      PROVE halted' \subseteq halted /\ UNCHANGED ledger
  BY <1>3 DEF ResumeStrategy
<1>4. ASSUME NEW t, NEW by, Drifts(t, by) PROVE UNCHANGED rows  BY <1>4 DEF Drifts
<1>5. CASE UNCHANGED vars  BY <1>5 DEF vars
<1> QED  BY <1>1, <1>2, <1>3, <1>4, <1>5 DEF Next

-------------------------------------------------------------------------------
\* No strategy is ever pulled before its ledger holds MinDays different days,
\* however often the tick ran on each of them, crashed, or was resumed in between.
THEOREM CountsDays == Spec => TripsOnDays
<1>1. ASSUME IInv, [Next]_vars, NEW s \in halted' \ halted
      PROVE  Cardinality({r.date : r \in ledger'[s]}) >= MinDays
  <2>1. PICK x \in Strategies, ret \in Returns, stale \in BOOLEAN : Record(x, ret, stale)
    BY <1>1, OthersPullNobody
  <2>2. x = s /\ Breached(ledger'[s])  BY <1>1, <2>1 DEF Record, IInv, Ledgers
  <2>3. OnePerDay(ledger'[s])  BY <1>1, <2>1, <2>2, RecordKeeps DEF IInv, Ledgers
  <2>4. Cardinality(ledger'[s]) >= MinDays  BY <2>2 DEF Breached
  <2> QED  BY <2>3, <2>4, DatesOfRows
<1>2. IInv /\ [Next]_vars => [\A s \in halted' \ halted :
                                Cardinality({r.date : r \in ledger'[s]}) >= MinDays]_vars
  BY <1>1
<1> QED  BY <1>2, Holds, PTL DEF Spec, TripsOnDays

\* What a strategy was frozen at stays what it was until a human resumes it: no
\* later tick, and no tick that read the row before it was halted, writes it again.
THEOREM FrozenForGood == Spec => FrozenStays
<1>1. ASSUME IInv, [Next]_vars, NEW s \in halted \cap halted'
      PROVE  frozen'[s] = frozen[s]
  <2> USE DEF rows, tick, Leave
  <2>1. ASSUME NEW signal, LoadTargets(signal) PROVE UNCHANGED frozen  BY <2>1 DEF LoadTargets
  <2>2. ASSUME NEW x \in Strategies, NEW ret, NEW stale \in BOOLEAN, Record(x, ret, stale)
        PROVE  frozen'[s] = frozen[s]
    <3>1. x = s => UNCHANGED frozen
      BY <1>1, <2>2 DEF Record, IInv, ReadIsNoOlder
    <3>2. x # s => frozen'[s] = frozen[s]  BY <2>2 DEF Record
    <3> QED  BY <3>1, <3>2
  <2>3. CASE AllRecorded \/ Trade \/ Crash \/ DayPasses
    BY <2>3 DEF AllRecorded, Trade, Crash, DayPasses
  <2>4. ASSUME NEW x \in Strategies, ResumeStrategy(x) PROVE frozen'[s] = frozen[s]
    BY <1>1, <2>4 DEF ResumeStrategy
  <2>5. ASSUME NEW t, NEW by, Drifts(t, by) PROVE UNCHANGED frozen  BY <2>5 DEF Drifts
  <2>6. CASE UNCHANGED vars  BY <2>6 DEF vars
  <2> QED  BY <1>1, <2>1, <2>2, <2>3, <2>4, <2>5, <2>6 DEF Next
<1>2. IInv /\ [Next]_vars => [\A s \in halted \cap halted' : frozen'[s] = frozen[s]]_vars
  BY <1>1
<1> QED  BY <1>2, Holds, PTL DEF Spec, FrozenStays

-------------------------------------------------------------------------------
(* Induction and sums.                                                     *)

\* A set of naturals that holds 0 and is closed under successor is Nat.
LEMMA NatInductionBySet ==
  ASSUME NEW S \in SUBSET Nat, 0 \in S, \A n \in S : n + 1 \in S
  PROVE  S = Nat
<1> DEFINE R == OpToRel(<, Nat)
<1>1. IsWellFoundedOn(R, Nat)  BY NatLessThanWellFounded
<1>2. \A x, y \in Nat : y < x => <<y, x>> \in R  BY DEF OpToRel
<1> HIDE DEF R
<1>3. SUFFICES ASSUME Nat \ S # {} PROVE FALSE  OBVIOUS
<1>4. PICK m \in Nat \ S : \A y \in Nat \ S : ~ (<<y, m>> \in R)
  BY <1>1, <1>3, WFMin
<1>5. m # 0 /\ m - 1 \in Nat /\ m - 1 < m  OBVIOUS
<1>6. m - 1 \in S  BY <1>2, <1>4, <1>5
<1>7. (m - 1) + 1 \in S  BY <1>6
<1> QED  BY <1>7, <1>5

\* What a set inherits from all its strict subsets, every subset has.
LEMMA SubsetInduction ==
  ASSUME NEW S, IsFiniteSet(S), NEW G,
         \A T \in SUBSET S : (\A U \in SUBSET T : U # T => U \in G) => T \in G
  PROVE  \A T \in SUBSET S : T \in G
<1> DEFINE R == StrictSubsetOrdering(S)
<1>1. IsWellFoundedOn(R, SUBSET S)  BY FS_StrictSubsetOrderingWellFounded, FS_FiniteSubsetsOfFinite
<1>2. \A T, U \in SUBSET S : T \subseteq U /\ T # U => <<T, U>> \in R  BY DEF StrictSubsetOrdering
<1> HIDE DEF R
<1>3. SUFFICES ASSUME (SUBSET S) \ G # {} PROVE FALSE  OBVIOUS
<1> DEFINE Bad == (SUBSET S) \ G
<1>4. PICK M \in Bad : \A T \in Bad : ~ (<<T, M>> \in R)
  <2>1. Bad \subseteq SUBSET S OBVIOUS
  <2>2. Bad # {} BY <1>3
  <2> HIDE DEF Bad
  <2> QED BY <1>1, <2>1, <2>2, WFMin
<1>5. \A U \in SUBSET M : U # M => U \in G
  <2> SUFFICES ASSUME NEW U \in SUBSET M, U # M PROVE U \in G OBVIOUS
  <2>1. U \in SUBSET S /\ M \in SUBSET S BY <1>4
  <2>2. <<U, M>> \in R BY <1>2, <2>1
  <2> QED BY <1>4, <2>1, <2>2
<1> QED  BY <1>4, <1>5

\* The element FoldFunctionOnSet takes out first.
Pick(T) == CHOOSE x \in T : TRUE

\* The sums of the parts of a set, by size, up to that of the set.
SumTable(it, f, S) ==
  /\ \A T \in SUBSET S : it[T] = IF T = {} THEN 0 ELSE f[Pick(T)] + it[T \ {Pick(T)}]
  /\ SumFunctionOnSet(f, S) = it[S]

\* A sum is the last value of a function on subsets that obeys the recursion.
LEMMA SumIterates ==
  ASSUME NEW f, NEW S, IsFiniteSet(S)
  PROVE  \E it : SumTable(it, f, S)
<1> DEFINE Upto(n) == {T \in SUBSET S : Cardinality(T) <= n}
           Step(it, T) == IF T = {} THEN 0 ELSE f[Pick(T)] + it[T \ {Pick(T)}]
           N == {n \in Nat : \E it : it = [T \in Upto(n) |-> Step(it, T)]}
<1>1. \A T \in SUBSET S : IsFiniteSet(T) /\ Cardinality(T) \in Nat
  BY FS_Subset, FS_CardinalityType
<1>2. \A T \in SUBSET S : T # {} => /\ Pick(T) \in T
                                    /\ T \ {Pick(T)} \in SUBSET S
                                    /\ Cardinality(T \ {Pick(T)}) = Cardinality(T) - 1
  BY <1>1, FS_RemoveElement DEF Pick
<1>3. 0 \in N
  <2>1. \A T \in Upto(0) : T = {} BY <1>1, FS_EmptySet
  <2> DEFINE it0 == [T \in Upto(0) |-> 0]
  <2>2. it0 = [T \in Upto(0) |-> Step(it0, T)] BY <2>1
  <2> QED BY <2>2
<1>4. ASSUME NEW n \in N PROVE n + 1 \in N
  <2>1. PICK it : it = [T \in Upto(n) |-> Step(it, T)] OBVIOUS
  <2> DEFINE next == [T \in Upto(n + 1) |-> Step(it, T)]
  <2>2. \A T \in Upto(n) : T \in Upto(n + 1) /\ it[T] = Step(it, T)
    <3>1. \A T \in Upto(n) : T \in Upto(n + 1) BY <1>1
    <3> HIDE DEF Upto, Step
    <3> QED BY <2>1, <3>1
  <2>3. \A T \in Upto(n) : next[T] = it[T] BY <2>2
  <2>4. \A T \in Upto(n + 1) : T # {} => T \ {Pick(T)} \in Upto(n) BY <1>1, <1>2
  <2>5. \A T \in Upto(n + 1) : Step(it, T) = Step(next, T)
    <3> HIDE DEF Upto, next
    <3> QED BY <2>3, <2>4
  <2>6. next = [T \in Upto(n + 1) |-> Step(next, T)]
    <3>1. next = [T \in Upto(n + 1) |-> Step(it, T)] OBVIOUS
    <3> HIDE DEF Upto, next, Step
    <3> QED BY <2>5, <3>1
  <2>7. n + 1 \in Nat OBVIOUS
  <2> HIDE DEF Upto, Step
  <2> QED BY <2>6, <2>7
<1>5. Cardinality(S) \in N
  <2> HIDE DEF N
  <2>1. N \subseteq Nat BY DEF N
  <2>2. N = Nat BY <2>1, <1>3, <1>4, NatInductionBySet
  <2> QED BY <1>1, <2>2
<1>6. Upto(Cardinality(S)) = SUBSET S BY <1>1, FS_Subset
<1>7. PICK g : g = [T \in SUBSET S |-> Step(g, T)]
  <2> HIDE DEF Upto, Step
  <2> QED BY <1>5, <1>6
<1> DEFINE h == CHOOSE it : it = [T \in SUBSET S |-> Step(it, T)]
<1>8. h = [T \in SUBSET S |-> Step(h, T)]
  <2> HIDE DEF Step
  <2> QED BY <1>7
<1>9. SumFunctionOnSet(f, S) = h[S]
  BY DEF SumFunctionOnSet, FoldFunctionOnSet, MapThenFoldSet, Pick
<1>10. \A T \in SUBSET S : h[T] = Step(h, T)
  <2> HIDE DEF h, Step
  <2> QED BY <1>8
<1> QED
  <2> HIDE DEF h
  <2> QED BY <1>9, <1>10 DEF SumTable

-------------------------------------------------------------------------------
(* Arithmetic.                                                             *)

LEMMA DivisionBounds ==
  ASSUME NEW a \in Nat, NEW p \in Nat \ {0}
  PROVE  /\ a \div p \in Nat
         /\ (a \div p) * p <= a
         /\ a < (a \div p) * p + p
OBVIOUS

LEMMA ProductMonotonic ==
  ASSUME NEW a \in Int, NEW b \in Int, NEW g \in Nat, a <= b
  PROVE  g * a <= g * b
OBVIOUS

LEMMA ProductCancels ==
  ASSUME NEW a \in Int, NEW b \in Int, NEW g \in Nat \ {0}, g * a <= g * b
  PROVE  a <= b
<1>1. CASE a > b
  <2>1. a >= b + 1 BY <1>1
  <2>2. g * (b + 1) <= g * a BY <2>1, ProductMonotonic
  <2>3. g * (b + 1) = g * b + g OBVIOUS
  <2> QED BY <2>2, <2>3
<1> QED BY <1>1

\* Scaling shrinks toward zero, and by at least the ratio of the total cap.
LEMMA ScaleBounds ==
  ASSUME NEW c \in Int, NEW g \in Nat, g > MaxTotal
  PROVE  /\ Scale(c, g) \in Int
         /\ c >= 0 => 0 <= Scale(c, g) /\ Scale(c, g) <= c
         /\ c <= 0 => c <= Scale(c, g) /\ Scale(c, g) <= 0
         /\ Abs(Scale(c, g)) \in Nat
         /\ g * Abs(Scale(c, g)) <= MaxTotal * Abs(c)
<1>1. MaxTotal \in Nat \ {0} /\ g \in Nat \ {0} BY PlanningAssumption DEF PlanningAssumption
<1> DEFINE a == Abs(c)
           q == (a * MaxTotal) \div g
<1>2. a \in Nat BY DEF Abs
<1>3. a * MaxTotal \in Nat BY <1>1, <1>2
<1> HIDE DEF a
<1>4. q \in Nat /\ q * g <= a * MaxTotal BY <1>1, <1>3, DivisionBounds
<1>5. a * MaxTotal <= a * g BY <1>1, <1>2, ProductMonotonic
<1>6. q <= a
  <2>1. g * q <= g * a
    <3> HIDE DEF q
    <3>1. g * q = q * g /\ g * a = a * g BY <1>1, <1>2, <1>4
    <3>2. q * g \in Int /\ a * MaxTotal \in Int /\ a * g \in Int BY <1>1, <1>2, <1>4
    <3> QED BY <1>4, <1>5, <3>1, <3>2
  <2> HIDE DEF q
  <2> QED BY <1>1, <1>2, <1>4, <2>1, ProductCancels
<1>7. Scale(c, g) = IF c < 0 THEN -q ELSE q
  <2>1. c < 0 => -c * MaxTotal = a * MaxTotal BY <1>1 DEF a, Abs
  <2>2. ~(c < 0) => a = c BY DEF a, Abs
  <2> QED BY <2>1, <2>2 DEF Scale
<1> HIDE DEF q
<1>8. Abs(Scale(c, g)) = q BY <1>4, <1>7 DEF Abs
<1>9. g * q = q * g /\ a * MaxTotal = MaxTotal * a BY <1>1, <1>2, <1>4
<1> QED BY <1>1, <1>2, <1>4, <1>6, <1>7, <1>8, <1>9 DEF a, Abs

\* Both ceilings shrink toward zero.
LEMMA ClampShrinks ==
  ASSUME NEW n \in Int
  PROVE  /\ Clamp(n) \in Int
         /\ n >= 0 => 0 <= Clamp(n) /\ Clamp(n) <= n
         /\ n <= 0 => n <= Clamp(n) /\ Clamp(n) <= 0
BY PlanningAssumption DEF Clamp, Abs, Larger, Smaller, PlanningAssumption

LEMMA EffectiveChoice ==
  ASSUME NEW target \in Int, NEW v \in Int
  PROVE  LET eff == EffectiveTarget(target, v)
         IN  /\ eff \in {0, target}
             /\ v > 0 => eff >= 0
             /\ v < 0 => eff <= 0
             /\ eff # target => (v > 0 /\ target < 0) \/ (v < 0 /\ target > 0)
<1>1. v > 0 /\ target < 0 => target * v < 0 OBVIOUS
<1>2. v < 0 /\ target > 0 => target * v < 0 OBVIOUS
<1>3. (v >= 0 /\ target >= 0) \/ (v <= 0 /\ target <= 0) => ~(target * v < 0) OBVIOUS
<1> QED BY <1>1, <1>2, <1>3 DEF EffectiveTarget

-------------------------------------------------------------------------------
(* Sums.                                                                   *)

LEMMA SumIsInteger ==
  ASSUME NEW f, NEW S, IsFiniteSet(S), \A x \in S : f[x] \in Int
  PROVE  SumFunctionOnSet(f, S) \in Int
<1>it. PICK it : SumTable(it, f, S)  BY SumIterates
<1>1. /\ \A T \in SUBSET S :
          it[T] = IF T = {} THEN 0 ELSE f[Pick(T)] + it[T \ {Pick(T)}]
      /\ SumFunctionOnSet(f, S) = it[S]
  BY <1>it DEF SumTable
<1> DEFINE G == {T \in SUBSET S : it[T] \in Int}
<1>2. ASSUME NEW T \in SUBSET S, \A U \in SUBSET T : U # T => U \in G
      PROVE  T \in G
  <2>1. CASE T = {} BY <1>1, <2>1
  <2>2. CASE T # {}
    <3>1. Pick(T) \in T BY <2>2 DEF Pick
    <3>2. T \ {Pick(T)} \in G BY <1>2, <3>1
    <3>3. it[T] = f[Pick(T)] + it[T \ {Pick(T)}] BY <1>1, <2>2
    <3> QED BY <3>1, <3>2, <3>3
  <2> QED BY <2>1, <2>2
<1> HIDE DEF G
<1>3. \A T \in SUBSET S : T \in G BY <1>2, SubsetInduction
<1>4. S \in G BY <1>3
<1> QED BY <1>1, <1>4 DEF G

LEMMA SumOfOne ==
  ASSUME NEW f, NEW S, IsFiniteSet(S), NEW a \in S, f[a] \in Int, \A x \in S \ {a} : f[x] = 0
  PROVE  SumFunctionOnSet(f, S) = f[a]
<1>it. PICK it : SumTable(it, f, S)  BY SumIterates
<1>1. /\ \A T \in SUBSET S :
          it[T] = IF T = {} THEN 0 ELSE f[Pick(T)] + it[T \ {Pick(T)}]
      /\ SumFunctionOnSet(f, S) = it[S]
  BY <1>it DEF SumTable
<1> DEFINE G == {T \in SUBSET S : it[T] = IF a \in T THEN f[a] ELSE 0}
<1>2. ASSUME NEW T \in SUBSET S, \A U \in SUBSET T : U # T => U \in G
      PROVE  T \in G
  <2>1. CASE T = {} BY <1>1, <2>1
  <2>2. CASE T # {}
    <3>1. Pick(T) \in T BY <2>2 DEF Pick
    <3>2. T \ {Pick(T)} \in G BY <1>2, <3>1
    <3>3. it[T] = f[Pick(T)] + it[T \ {Pick(T)}] BY <1>1, <2>2
    <3> DEFINE p == Pick(T)
    <3>4. /\ p \in T /\ it[T] = f[p] + it[T \ {p}]
          /\ it[T \ {p}] = IF a \in T \ {p} THEN f[a] ELSE 0
      BY <3>1, <3>2, <3>3
    <3> HIDE DEF p
    <3>5. CASE p = a
      <4>1. a \notin T \ {p} /\ a \in T BY <3>4, <3>5
      <4> QED BY <3>4, <3>5, <4>1
    <3>6. CASE p # a
      <4>1. f[p] = 0 BY <3>4, <3>6
      <4>2. a \in T \ {p} <=> a \in T BY <3>6
      <4> QED BY <3>4, <4>1, <4>2
    <3> QED BY <3>5, <3>6
  <2> QED BY <2>1, <2>2
<1> HIDE DEF G
<1>3. \A T \in SUBSET S : T \in G BY <1>2, SubsetInduction
<1>4. S \in G BY <1>3
<1> QED BY <1>1, <1>4 DEF G

\* A sum of naturals is at least each of them.
LEMMA SumCovers ==
  ASSUME NEW f, NEW S, IsFiniteSet(S), \A x \in S : f[x] \in Nat, NEW a \in S
  PROVE  SumFunctionOnSet(f, S) \in Nat /\ SumFunctionOnSet(f, S) >= f[a]
<1>it. PICK it : SumTable(it, f, S)  BY SumIterates
<1>1. /\ \A T \in SUBSET S :
          it[T] = IF T = {} THEN 0 ELSE f[Pick(T)] + it[T \ {Pick(T)}]
      /\ SumFunctionOnSet(f, S) = it[S]
  BY <1>it DEF SumTable
<1> DEFINE G == {T \in SUBSET S : it[T] \in Nat /\ (a \in T => it[T] >= f[a])}
<1>2. ASSUME NEW T \in SUBSET S, \A U \in SUBSET T : U # T => U \in G
      PROVE  T \in G
  <2>1. CASE T = {} BY <1>1, <2>1
  <2>2. CASE T # {}
    <3>1. Pick(T) \in T BY <2>2 DEF Pick
    <3>2. T \ {Pick(T)} \in G BY <1>2, <3>1
    <3>3. it[T] = f[Pick(T)] + it[T \ {Pick(T)}] BY <1>1, <2>2
    <3>4. f[Pick(T)] \in Nat /\ f[a] \in Nat BY <3>1
    <3> QED BY <3>1, <3>2, <3>3, <3>4
  <2> QED BY <2>1, <2>2
<1> HIDE DEF G
<1>3. \A T \in SUBSET S : T \in G BY <1>2, SubsetInduction
<1>4. S \in G BY <1>3
<1> QED BY <1>1, <1>4 DEF G

-------------------------------------------------------------------------------
(* The planner, as far as the breaker's tick uses it.                      *)

LEMMA NetIsInteger ==
  ASSUME NEW x \in [Strategies -> [Tickers -> Int]]
  PROVE  /\ AggregateTargets(x, Tickers) \in [Tickers -> Int]
         /\ \A t \in Tickers : AggregateTargets(x, Tickers)[t]
              = SumFunctionOnSet([s \in Strategies |-> x[s][t]], Strategies)
<1>1. IsFiniteSet(Strategies) /\ DOMAIN x = Strategies BY BreakerAssumption DEF BreakerAssumption
<1>2. ASSUME NEW t \in Tickers
      PROVE  SumFunctionOnSet([s \in Strategies |-> x[s][t]], Strategies) \in Int
  <2> DEFINE f == [s \in Strategies |-> x[s][t]]
  <2>1. \A s \in Strategies : f[s] \in Int OBVIOUS
  <2> HIDE DEF f
  <2>2. SumFunctionOnSet(f, Strategies) \in Int BY <1>1, <2>1, SumIsInteger
  <2> QED BY <2>2 DEF f
<1>3. AggregateTargets(x, Tickers)
        = [t \in Tickers |-> SumFunctionOnSet([s \in Strategies |-> x[s][t]], Strategies)]
  BY <1>1 DEF AggregateTargets, SumFunction
<1> QED BY <1>2, <1>3

LEMMA CapsShrink ==
  ASSUME NEW net \in [Tickers -> Int]
  PROVE  /\ ApplyCaps(net) \in [Tickers -> Int]
         /\ \A t \in Tickers : /\ net[t] >= 0 => 0 <= ApplyCaps(net)[t] /\ ApplyCaps(net)[t] <= net[t]
                               /\ net[t] <= 0 => net[t] <= ApplyCaps(net)[t] /\ ApplyCaps(net)[t] <= 0
<1> DEFINE clamped == [t \in DOMAIN net |-> Clamp(net[t])]
           g == Gross(clamped)
           size == [t \in DOMAIN clamped |-> Abs(clamped[t])]
           capped == ApplyCaps(net)
<1>1. DOMAIN net = Tickers /\ IsFiniteSet(Tickers) BY BreakerAssumption DEF BreakerAssumption
<1>2. DOMAIN clamped = Tickers
      /\ \A t \in Tickers : /\ clamped[t] \in Int
                            /\ net[t] >= 0 => 0 <= clamped[t] /\ clamped[t] <= net[t]
                            /\ net[t] <= 0 => net[t] <= clamped[t] /\ clamped[t] <= 0
  BY <1>1, ClampShrinks
<1>3. capped = IF g > MaxTotal THEN [t \in Tickers |-> Scale(clamped[t], g)] ELSE clamped
  BY <1>1 DEF ApplyCaps
<1>4. clamped = [t \in Tickers |-> clamped[t]] BY <1>1
<1> HIDE DEF clamped, capped
<1>5. g \in Int
  <2>1. \A t \in Tickers : size[t] \in Int BY <1>2 DEF Abs
  <2>2. g = SumFunctionOnSet(size, Tickers) BY <1>2 DEF Gross, SumFunction
  <2> HIDE DEF size
  <2> QED BY <1>1, <2>1, <2>2, SumIsInteger
<1>6. CASE g > MaxTotal
  <2> HIDE DEF g
  <2>1. g \in Nat BY <1>5, <1>6, PlanningAssumption DEF PlanningAssumption
  <2>2. ASSUME NEW t \in Tickers
        PROVE  /\ Scale(clamped[t], g) \in Int
               /\ clamped[t] >= 0 => 0 <= Scale(clamped[t], g) /\ Scale(clamped[t], g) <= clamped[t]
               /\ clamped[t] <= 0 => clamped[t] <= Scale(clamped[t], g) /\ Scale(clamped[t], g) <= 0
    BY <1>2, <1>6, <2>1, ScaleBounds
  <2>3. capped \in [Tickers -> Int] /\ \A t \in Tickers : capped[t] = Scale(clamped[t], g)
    BY <1>3, <1>6, <2>2
  <2>4. ASSUME NEW t \in Tickers
        PROVE  /\ net[t] >= 0 => 0 <= capped[t] /\ capped[t] <= net[t]
               /\ net[t] <= 0 => net[t] <= capped[t] /\ capped[t] <= 0
    <3>1. net[t] \in Int /\ capped[t] \in Int /\ clamped[t] \in Int BY <1>2, <2>3
    <3> QED BY <1>2, <2>2, <2>3, <3>1
  <2> QED BY <2>3, <2>4 DEF capped
<1>7. CASE ~(g > MaxTotal)
  <2>1. capped = clamped BY <1>3, <1>7
  <2>2. clamped \in [Tickers -> Int] BY <1>2, <1>4
  <2> QED BY <1>2, <2>1, <2>2 DEF capped
<1> QED BY <1>6, <1>7

\* A filled order leaves the position where it was, or at its effective target.
LEMMA FilledLands ==
  ASSUME NEW t \in Tickers, NEW capped, value[t] \in Int, capped[t] \in Int
  PROVE  Filled(t, capped) \in {value[t], EffectiveTarget(capped[t], value[t])}
         /\ Filled(t, capped) \in Int
<1> DEFINE v == value[t]
           c == capped[t]
           eff == EffectiveTarget(c, v)
           delta == eff - v
           d == PlanTicker(c, v, v, FALSE, 1)
           shares == Abs(delta) \div 1
           new == Filled(t, capped)
<1>1. v \in Int /\ c \in Int OBVIOUS
<1>2. new = IF IsOrder(d) THEN v + Signed(d) ELSE v BY DEF Filled
<1> HIDE DEF v, c
<1>3. eff \in Int /\ delta \in Int /\ Abs(delta) \in Nat
  BY <1>1, EffectiveChoice DEF Abs
<1>4. shares = Abs(delta)
  <2>1. \A n \in Nat : n \div 1 = n OBVIOUS
  <2> QED BY <1>3, <2>1
<1>5. d = IF Abs(delta) < MinOrder THEN NoOrder
          ELSE IF eff = 0 /\ v # 0 THEN QtyOrder(Side(-v), Abs(v))
          ELSE IF eff > 0 /\ v >= 0 THEN NotionalOrder(Side(delta), Abs(delta))
          ELSE IF shares < 1 THEN Skip("below_one_share")
          ELSE QtyOrder(Side(delta), shares)
  BY DEF PlanTicker
<1> HIDE DEF d, eff, shares, new
<1>6. d \in {NoOrder, Skip("below_one_share")} => ~IsOrder(d) BY DEF NoOrder, Skip, IsOrder
<1>7. d \in {QtyOrder(Side(delta), Abs(delta)), NotionalOrder(Side(delta), Abs(delta))}
        => IsOrder(d) /\ Signed(d) = delta
  BY <1>1, <1>3 DEF QtyOrder, NotionalOrder, IsOrder, Signed, Side, Abs
<1>8. d = QtyOrder(Side(-v), Abs(v)) /\ v # 0 => IsOrder(d) /\ Signed(d) = -v
  BY <1>1 DEF QtyOrder, IsOrder, Signed, Side, Abs
<1>9. new \in {v, eff}
  <2>1. CASE Abs(delta) < MinOrder BY <1>2, <1>5, <1>6, <2>1
  <2>2. CASE ~(Abs(delta) < MinOrder) /\ eff = 0 /\ v # 0
    BY <1>1, <1>2, <1>5, <1>8, <2>2
  <2>3. CASE ~(Abs(delta) < MinOrder) /\ ~(eff = 0 /\ v # 0)
    <3>1. d \in {Skip("below_one_share"), QtyOrder(Side(delta), Abs(delta)),
                 NotionalOrder(Side(delta), Abs(delta))}
      BY <1>4, <1>5, <2>3
    <3>2. v + delta = eff BY <1>1, <1>3
    <3> QED BY <1>2, <1>6, <1>7, <3>1, <3>2
  <2> QED BY <2>1, <2>2, <2>3
<1> QED BY <1>1, <1>3, <1>9 DEF v, c, eff, new

-------------------------------------------------------------------------------
(* Types.                                                                  *)

\* Rows of different days, the newest n of them: there are at most n.
LEMMA TrailingIsShort ==
  ASSUME NEW days, OnePerDay(days), \A r \in days : r.date \in Int, NEW n \in Nat
  PROVE  Cardinality(Trailing(days, n)) <= n
<1> DEFINE Newer(r) == {x \in days : x.date > r.date}
           rank == [r \in Trailing(days, n) |-> Cardinality(Newer(r)) + 1]
<1>1. \A r \in days : IsFiniteSet(Newer(r)) /\ Cardinality(Newer(r)) \in Nat
  <2> TAKE r \in days
  <2>1. Newer(r) \subseteq days OBVIOUS
  <2>2. IsFiniteSet(Newer(r)) BY <2>1, FS_Subset DEF OnePerDay
  <2> QED BY <2>2, FS_CardinalityType
<1>2. Trailing(days, n) = {r \in days : Cardinality(Newer(r)) < n} BY DEF Trailing
<1>3. ASSUME NEW r \in days, NEW x \in days, r.date > x.date
      PROVE  Cardinality(Newer(r)) < Cardinality(Newer(x))
  <2>1. Newer(r) \subseteq Newer(x) /\ r \in Newer(x) /\ r \notin Newer(r) BY <1>3
  <2>2. /\ Cardinality(Newer(r)) <= Cardinality(Newer(x))
        /\ Cardinality(Newer(x)) = Cardinality(Newer(r)) => Newer(r) = Newer(x)
    BY <1>1, <2>1, FS_Subset
  <2> HIDE DEF Newer
  <2> QED BY <1>1, <2>1, <2>2
<1>4. \A r \in Trailing(days, n) : rank[r] \in 1 .. n
  <2> HIDE DEF Newer
  <2> QED BY <1>1, <1>2
<1>5. ASSUME NEW r \in Trailing(days, n), NEW x \in Trailing(days, n), rank[r] = rank[x]
      PROVE  r = x
  <2>1. r \in days /\ x \in days BY <1>2
  <2>2. Cardinality(Newer(r)) = Cardinality(Newer(x))
    <3> HIDE DEF Newer
    <3> QED BY <1>1, <1>5, <2>1
  <2> HIDE DEF Newer
  <2>3. ~(r.date > x.date) /\ ~(x.date > r.date) BY <1>1, <1>3, <2>1, <2>2
  <2>4. r.date = x.date BY <2>1, <2>3
  <2> QED BY <2>1, <2>4 DEF OnePerDay
<1> HIDE DEF rank, Newer
<1>6. rank \in Injection(Trailing(days, n), 1 .. n)
  BY <1>4, <1>5 DEF Injection, IsInjective, rank
<1>7. IsFiniteSet(1 .. n) /\ Cardinality(1 .. n) = n BY FS_Interval
<1> QED BY <1>6, <1>7, FS_Injection

\* A quotient by something else than nothing.
LEMMA QuotientIsInteger ==
  ASSUME NEW amount \in Int, NEW whole \in Int \ {0}
  PROVE  Abs(amount) \div Abs(whole) \in Nat
<1>1. Abs(amount) \in Nat /\ Abs(whole) \in Nat \ {0} BY DEF Abs
<1> QED BY <1>1, DivisionBounds

LEMMA ExposureTyped ==
  ASSUME TypeOK, NEW s \in Strategies
  PROVE  Exposure(s) \in [Tickers -> Int]
<1> DEFINE net == AggregateTargets(asks, Tickers)
           sizes(t) == [x \in Strategies |-> Abs(asks[x][t])]
           gross == [t \in Tickers |-> SumFunction(sizes(t))]
           Part(amount, whole) ==
             IF amount * whole < 0 THEN -(Abs(amount) \div Abs(whole))
                                   ELSE Abs(amount) \div Abs(whole)
<1>1. asks \in [Strategies -> [Tickers -> Int]] /\ value \in [Tickers -> Int]
      /\ IsFiniteSet(Strategies)
  BY BreakerAssumption DEF TypeOK, BreakerAssumption
<1>2. net \in [Tickers -> Int] BY <1>1, NetIsInteger
<1>3. Exposure(s) = [t \in Tickers |->
                       IF asks[s][t] = 0 THEN 0
                       ELSE IF net[t] # 0 THEN Part(value[t] * asks[s][t], net[t])
                       ELSE Part(value[t] * Abs(asks[s][t]), gross[t])]
  BY DEF Exposure
<1>4. \A amount \in Int, whole \in Int \ {0} : Part(amount, whole) \in Int
  BY QuotientIsInteger
<1>5. ASSUME NEW t \in Tickers, asks[s][t] # 0 PROVE gross[t] \in Int \ {0}
  <2>1. \A x \in Strategies : sizes(t)[x] \in Nat BY <1>1 DEF Abs
  <2>2. sizes(t)[s] > 0 BY <1>1, <1>5 DEF Abs
  <2>3. gross[t] = SumFunctionOnSet(sizes(t), Strategies) BY DEF SumFunction
  <2> DEFINE f == sizes(t)
  <2> HIDE DEF f, gross
  <2>4. SumFunctionOnSet(f, Strategies) \in Nat /\ SumFunctionOnSet(f, Strategies) >= f[s]
    BY <1>1, <2>1, SumCovers DEF f
  <2> QED BY <2>1, <2>2, <2>3, <2>4 DEF f
<1> HIDE DEF net, gross, Part
<1>6. ASSUME NEW t \in Tickers
      PROVE  (IF asks[s][t] = 0 THEN 0
              ELSE IF net[t] # 0 THEN Part(value[t] * asks[s][t], net[t])
              ELSE Part(value[t] * Abs(asks[s][t]), gross[t])) \in Int
  <2>1. value[t] \in Int /\ asks[s][t] \in Int /\ net[t] \in Int BY <1>1, <1>2
  <2>2. value[t] * asks[s][t] \in Int /\ value[t] * Abs(asks[s][t]) \in Int BY <2>1 DEF Abs
  <2> QED BY <1>4, <1>5, <2>1, <2>2
<1> QED BY <1>3, <1>6

LEMMA LegsTyped ==
  ASSUME TypeOK
  PROVE  Legs \in [Strategies -> [Tickers -> Int]]
BY ExposureTyped DEF Legs, TypeOK

Typed == IInv /\ TypeOK

LEMMA RecordTyped ==
  ASSUME Typed, NEW s \in Strategies, NEW ret \in Returns, NEW stale \in BOOLEAN, Record(s, ret, stale)
  PROVE  TypeOK'
<1> DEFINE days == AppendOrUpdateDay(ledger[s], today, ret)
<1>1. TypeOK /\ IInv BY DEF Typed
<1>2. /\ ledger' = [ledger EXCEPT ![s] = days]
      /\ halted' \in {halted, halted \cup {s}} /\ pulled' \in {pulled, pulled \cup {s}}
      /\ frozen' \in {frozen, [frozen EXCEPT ![s] = Exposure(s)]}
      /\ todo' = todo \ {s} /\ UNCHANGED <<value, today, pc, asks, sawHalted>>
  BY DEF Record
<1> DEFINE new == {r \in ledger[s] : r.date # today} \cup {[date |-> today, ret |-> ret]}
<1>3. days = Trailing(new, HistoryLimit) BY DEF AppendOrUpdateDay
<1>4. new \in SUBSET Entry BY <1>1 DEF TypeOK, Entry
<1>5. OnePerDay(new)
  <2>1. OnePerDay(ledger[s]) BY <1>1 DEF IInv, Ledgers
  <2>2. IsFiniteSet({r \in ledger[s] : r.date # today}) BY <2>1, FS_Subset DEF OnePerDay
  <2>3. IsFiniteSet(new) BY <2>2, FS_AddElement
  <2> QED BY <2>1, <2>3 DEF OnePerDay
<1>6. days \in SUBSET Entry BY <1>3, <1>4 DEF Trailing
<1>7. Cardinality(days) <= HistoryLimit
  <2>1. HistoryLimit \in Nat BY BreakerAssumption DEF BreakerAssumption
  <2>2. \A r \in new : r.date \in Int BY <1>4 DEF Entry
  <2> HIDE DEF new
  <2> QED BY <1>3, <1>5, <2>1, <2>2, TrailingIsShort
<1> HIDE DEF days
<1>8. ledger' \in [Strategies -> SUBSET Entry] BY <1>1, <1>2, <1>6 DEF TypeOK
<1>9. \A x \in Strategies : Cardinality(ledger'[x]) <= HistoryLimit
  BY <1>1, <1>2, <1>7 DEF TypeOK
<1>10. frozen' \in [Strategies -> [Tickers -> Int]]
  BY <1>1, <1>2, ExposureTyped DEF TypeOK
<1> QED BY <1>1, <1>2, <1>8, <1>9, <1>10 DEF TypeOK

LEMMA TradeTyped ==
  ASSUME TypeOK, Trade
  PROVE  value' \in [Tickers -> Int]
<1> DEFINE net == AggregateTargets(Legs, Tickers)
           capped == ApplyCaps(net)
<1>1. value \in [Tickers -> Int] /\ value' = [t \in Tickers |-> Filled(t, capped)]
  BY DEF TypeOK, Trade
<1>2. net \in [Tickers -> Int] BY LegsTyped, NetIsInteger
<1> HIDE DEF net
<1>3. capped \in [Tickers -> Int] BY <1>2, CapsShrink
<1> HIDE DEF capped
<1>4. \A t \in Tickers : Filled(t, capped) \in Int BY <1>1, <1>3, FilledLands
<1> QED BY <1>1, <1>4

LEMMA NextTyped == Typed /\ [Next]_vars => Typed'
<1> SUFFICES ASSUME Typed, [Next]_vars PROVE TypeOK'
  BY NextKeeps DEF Typed
<1>0. TypeOK BY DEF Typed
<1>a. NoLegs \in [Tickers -> Int] BY DEF NoLegs
<1> USE DEF rows, tick, Leave
<1>1. ASSUME NEW signal \in [Strategies -> [Tickers -> Signals]], LoadTargets(signal) PROVE TypeOK'
  <2>1. asks' \in [Strategies -> [Tickers -> Int]]
    <3>1. \A s \in Strategies : signal[s] \in [Tickers -> Int]
      BY BreakerAssumption DEF BreakerAssumption
    <3> QED BY <1>0, <1>1, <3>1 DEF LoadTargets, TypeOK
  <2> QED BY <1>0, <1>1, <2>1 DEF LoadTargets, TypeOK
<1>2. ASSUME NEW s \in Strategies, NEW ret \in Returns, NEW stale \in BOOLEAN, Record(s, ret, stale)
      PROVE  TypeOK'
  BY <1>2, RecordTyped
<1>3. CASE AllRecorded BY <1>0, <1>3 DEF AllRecorded, TypeOK
<1>4. CASE Trade
  <2>1. value' \in [Tickers -> Int] BY <1>0, <1>4, TradeTyped
  <2> QED BY <1>0, <1>4, <1>a, <2>1 DEF Trade, TypeOK
<1>5. CASE Crash BY <1>0, <1>5, <1>a DEF Crash, TypeOK
<1>6. ASSUME NEW s \in Strategies, ResumeStrategy(s) PROVE TypeOK'
  BY <1>0, <1>6, <1>a DEF ResumeStrategy, TypeOK
<1>7. ASSUME NEW t \in Tickers, NEW by \in {-1, 1}, Drifts(t, by) PROVE TypeOK'
  <2>1. value[t] + by \in Int BY <1>0 DEF TypeOK
  <2> QED BY <1>0, <1>7, <2>1 DEF Drifts, TypeOK
<1>8. CASE DayPasses
  <2>1. today' \in 1 .. LastDay BY <1>0, <1>8, BreakerAssumption DEF DayPasses, TypeOK, BreakerAssumption
  <2> QED BY <1>0, <1>8, <2>1 DEF DayPasses, TypeOK
<1>9. CASE UNCHANGED vars BY <1>0, <1>9 DEF vars, TypeOK
<1> QED BY <1>1, <1>2, <1>3, <1>4, <1>5, <1>6, <1>7, <1>8, <1>9 DEF Next

LEMMA InitTyped == Init => Typed
<1> SUFFICES ASSUME Init PROVE TypeOK BY InitIInv DEF Typed
<1>1. NoLegs \in [Tickers -> Int] BY DEF NoLegs
<1>2. Cardinality({}) = 0 BY FS_EmptySet
<1> QED BY <1>1, <1>2, BreakerAssumption DEF Init, TypeOK, BreakerAssumption

LEMMA HoldsTyped == Spec => []Typed
BY InitTyped, NextTyped, PTL DEF Spec

\* Positions, legs and frozen exposures stay whole dollars - no split divides by
\* nothing (targets.py attribute_exposure) - and no ledger outgrows its limit.
THEOREM BreakerTypes == Spec => []TypeOK
<1>1. Typed => TypeOK BY DEF Typed
<1> QED BY <1>1, HoldsTyped, PTL

-------------------------------------------------------------------------------
(* The tick that pulls.                                                    *)

\* The only strategy that asks for a ticker is attributed all of it.
LEMMA LoneExposure ==
  ASSUME TypeOK, NEW s \in Strategies, NEW t \in Tickers,
         asks[s][t] # 0, \A x \in Strategies \ {s} : asks[x][t] = 0
  PROVE  Exposure(s)[t] = value[t]
<1> DEFINE a == asks[s][t]
           v == value[t]
           f == [x \in Strategies |-> asks[x][t]]
           net == AggregateTargets(asks, Tickers)
<1>1. a \in Int \ {0} /\ v \in Int BY DEF TypeOK
<1>2. net[t] = a
  <2>1. IsFiniteSet(Strategies) BY BreakerAssumption DEF BreakerAssumption
  <2>2. net[t] = SumFunctionOnSet(f, Strategies) BY NetIsInteger DEF TypeOK
  <2>3. f[s] = a /\ \A x \in Strategies \ {s} : f[x] = 0 OBVIOUS
  <2> HIDE DEF f, a, net
  <2> QED BY <1>1, <2>1, <2>2, <2>3, SumOfOne
<1>3. Exposure(s)[t] = IF v * a * a < 0 THEN -(Abs(v * a) \div Abs(a))
                                        ELSE Abs(v * a) \div Abs(a)
  <2>1. Exposure(s)[t] = IF v * a * net[t] < 0 THEN -(Abs(v * a) \div Abs(net[t]))
                                               ELSE Abs(v * a) \div Abs(net[t])
    BY <1>1, <1>2 DEF Exposure
  <2> HIDE DEF net
  <2> QED BY <1>2, <2>1
<1> HIDE DEF a, v
<1>4. Abs(v * a) = Abs(v) * Abs(a) /\ Abs(v) \in Nat /\ Abs(a) \in Nat \ {0}
  <2>1. CASE v < 0 /\ a < 0 BY <1>1, <2>1 DEF Abs
  <2>2. CASE v < 0 /\ a > 0 BY <1>1, <2>2 DEF Abs
  <2>3. CASE v >= 0 /\ a < 0 BY <1>1, <2>3 DEF Abs
  <2>4. CASE v >= 0 /\ a > 0 BY <1>1, <2>4 DEF Abs
  <2> QED BY <1>1, <2>1, <2>2, <2>3, <2>4
<1>5. Abs(v * a) \div Abs(a) = Abs(v)
  <2> DEFINE k == Abs(v)
             m == Abs(a)
             q == (k * m) \div m
  <2>1. k \in Nat /\ m \in Nat \ {0} BY <1>4
  <2> HIDE DEF k, m
  <2>2. k * m \in Nat BY <2>1
  <2>3. q \in Nat /\ q * m <= k * m /\ k * m < q * m + m BY <2>1, <2>2, DivisionBounds
  <2> HIDE DEF q
  <2>4. m * q <= m * k BY <2>1, <2>3
  <2>5. q <= k BY <2>1, <2>3, <2>4, ProductCancels
  <2>6. ~(q + 1 <= k)
    <3> SUFFICES ASSUME q + 1 <= k PROVE FALSE OBVIOUS
    <3>1. m * (q + 1) <= m * k BY <2>1, <2>3, ProductMonotonic
    <3>2. m * (q + 1) = q * m + m /\ m * k = k * m BY <2>1, <2>3
    <3> QED BY <2>1, <2>3, <3>1, <3>2
  <2>7. q = k BY <2>1, <2>3, <2>5, <2>6
  <2> QED BY <1>4, <2>7 DEF k, m, q
<1>6. v * a * a < 0 <=> v < 0
  <2>1. a * a > 0 BY <1>1
  <2>2. \A n \in Nat \ {0} : (v * n < 0) <=> (v < 0)
    <3> TAKE n \in Nat \ {0}
    <3>1. CASE v < 0 BY <1>1, <3>1
    <3>2. CASE v >= 0 BY <1>1, <3>2
    <3> QED BY <1>1, <3>1, <3>2
  <2>3. a * a \in Nat \ {0} /\ v * a * a = v * (a * a) BY <1>1, <2>1
  <2> QED BY <2>2, <2>3
<1> QED BY <1>1, <1>3, <1>5, <1>6 DEF Abs, v

LEMMA PulledShrinks ==
  ASSUME Typed, Trade, NEW s \in pulled, NEW t \in Tickers,
         asks[s][t] # 0, \A x \in Strategies \ {s} : asks[x][t] = 0
  PROVE  value'[t] * value[t] >= 0 /\ Abs(value'[t]) <= Abs(value[t])
<1> DEFINE net == AggregateTargets(Legs, Tickers)
           capped == ApplyCaps(net)
           f == [x \in Strategies |-> Legs[x][t]]
           v == value[t]
<1>1. TypeOK /\ s \in Strategies /\ v \in Int /\ IsFiniteSet(Strategies)
  BY BreakerAssumption DEF Typed, TypeOK, BreakerAssumption
<1>2. Legs[s][t] = v BY <1>1, LoneExposure DEF Legs
<1>3. \A x \in Strategies \ {s} : Legs[x][t] = 0 BY DEF Legs, Exposure
<1>4. net[t] = v
  <2>1. net[t] = SumFunctionOnSet(f, Strategies) BY <1>1, LegsTyped, NetIsInteger
  <2>2. f[s] = v /\ \A x \in Strategies \ {s} : f[x] = 0 BY <1>1, <1>2, <1>3
  <2> HIDE DEF f, v, net
  <2> QED BY <1>1, <2>1, <2>2, SumOfOne
<1>5. net \in [Tickers -> Int] BY <1>1, LegsTyped, NetIsInteger
<1>6. value' = [x \in Tickers |-> Filled(x, capped)] BY DEF Trade
<1> HIDE DEF net
<1>7. /\ capped[t] \in Int
      /\ v >= 0 => 0 <= capped[t] /\ capped[t] <= v
      /\ v <= 0 => v <= capped[t] /\ capped[t] <= 0
  BY <1>4, <1>5, CapsShrink
<1> HIDE DEF capped
<1>8. value'[t] \in {v, EffectiveTarget(capped[t], v)} BY <1>1, <1>6, <1>7, FilledLands
<1> DEFINE new == value'[t]
           c == capped[t]
<1>9. EffectiveTarget(c, v) \in {0, c} BY <1>1, <1>7, EffectiveChoice
<1> HIDE DEF v, c, new
<1>10. /\ v \in Int /\ c \in Int /\ new \in {v, 0, c}
       /\ v >= 0 => 0 <= c /\ c <= v
       /\ v <= 0 => v <= c /\ c <= 0
  BY <1>1, <1>7, <1>8, <1>9 DEF c, new
<1>11. Abs(new) <= Abs(v) BY <1>10 DEF Abs
<1>12. new * v >= 0
  <2>1. CASE v >= 0 /\ new >= 0 BY <1>10, <2>1
  <2>2. CASE v <= 0 /\ new <= 0 BY <1>10, <2>2
  <2> QED BY <1>10, <2>1, <2>2
<1> QED BY <1>11, <1>12 DEF new, v

\* A ticker that only a strategy pulled on this tick names is never added to and
\* never crosses zero, whatever its signal and the other legs of the portfolio
\* are (execution_runner.py swaps its legs for the exposure before planning).
THEOREM PulledOnlyShrinks == Spec => PulledOpensNothing
<1>1. Typed /\ [Next]_vars =>
        [Trade => \A s \in pulled, t \in Tickers :
           (asks[s][t] # 0 /\ \A x \in Strategies \ {s} : asks[x][t] = 0)
             => (value'[t] * value[t] >= 0 /\ Abs(value'[t]) <= Abs(value[t]))]_vars
  BY PulledShrinks
<1> QED BY <1>1, HoldsTyped, PTL DEF Spec, PulledOpensNothing
===============================================================================
