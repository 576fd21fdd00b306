-------------------------- MODULE SweepRunner_proofs --------------------------
(***************************************************************************)
(* The sweep runner's counters, for any jobs, grids and batch size.        *)
(*                                                                         *)
(* The runner knows how many combinations of a job are counted, not which. *)
(* What makes the number enough is an order: between ticks the counted     *)
(* combinations are the first ones of the grid, a batch continues them     *)
(* without a gap, and a tick that ends has counted its whole batch.        *)
(***************************************************************************)
EXTENDS SweepRunner, FiniteSetTheorems, TLAPS

Indices(j) == 1 .. Total(j)
CountedStages == {"counted", "missed", "done"}

\* The combinations of a job that are counted, and those of the batch.
Done(j) == {i \in Indices(j) : counts[<<j, i>>] > 0}
InWork(j) == {i \in Indices(j) : <<j, i>> \in DOMAIN work}

Types ==
  /\ job \in [Jobs -> [status : Statuses, completed : Nat, failed : Nat]]
  /\ work = [u \in DOMAIN work |-> work[u]]
  /\ DOMAIN work \subseteq Units
  /\ \A u \in DOMAIN work : work[u] \in Stages
  /\ counts \in [Units -> Nat]

Books(j) ==
  /\ Cursor(j) = Cardinality(Done(j))
  /\ \A i \in Indices(j) : counts[<<j, i>>] <= 1
  /\ \A i \in InWork(j) : i \in Done(j) <=> work[<<j, i>>] \in CountedStages
  /\ \A i \in Done(j) \cup InWork(j), k \in Indices(j) : k < i => k \in Done(j) \cup InWork(j)
  /\ \A i \in InWork(j), k \in Done(j) \ InWork(j) : k < i
  /\ job[j].status = "completed" => Cursor(j) >= Total(j)

AllBooks == \A j \in Jobs : Books(j)

-------------------------------------------------------------------------------
(* Units and sets of indices.                                              *)

LEMMA UnitParts ==
  /\ \A u \in Units : u[1] \in Jobs /\ u[2] \in Indices(u[1]) /\ u = <<u[1], u[2]>>
  /\ \A j \in Jobs : \A i \in Indices(j) : <<j, i>> \in Units
<1> QED  BY DEF Units, Indices

LEMMA JobTypes ==
  ASSUME NEW j \in Jobs
  PROVE  j \in Nat /\ Total(j) \in Nat \ {0} /\ Indices(j) \subseteq Nat \ {0}
<1> QED  BY SweepAssumption DEF Jobs, Total, Indices

LEMMA IndexSets ==
  ASSUME NEW j \in Jobs, NEW S \in SUBSET Indices(j)
  PROVE  /\ IsFiniteSet(S) /\ Cardinality(S) \in Nat
         /\ Cardinality(S) <= Total(j)
         /\ Cardinality(S) >= Total(j) => S = Indices(j)
<1>1. IsFiniteSet(Indices(j)) /\ Cardinality(Indices(j)) = Total(j)
  BY JobTypes, FS_Interval DEF Indices
<1>2. IsFiniteSet(S) /\ Cardinality(S) <= Total(j) /\ (Total(j) = Cardinality(S) => Indices(j) = S)
  BY <1>1, FS_Subset
<1>3. Cardinality(S) \in Nat  BY <1>2, FS_CardinalityType
<1> QED  BY <1>2, <1>3, JobTypes

\* The indices counted from the first on without a gap are those up to their number.
LEMMA Prefix ==
  ASSUME NEW j \in Jobs, NEW S \in SUBSET Indices(j),
         \A i \in S, k \in Indices(j) : k < i => k \in S
  PROVE  \A i \in Indices(j) : i \in S <=> i <= Cardinality(S)
<1>1. IsFiniteSet(S) /\ Cardinality(S) \in Nat  BY IndexSets
<1>2. Total(j) \in Nat  BY JobTypes
<1>3. ASSUME NEW i \in Indices(j), i \in S PROVE i <= Cardinality(S)
  <2>1. i \in Nat  BY <1>2, <1>3 DEF Indices
  <2>2. 1 .. i \subseteq S  BY <1>2, <1>3 DEF Indices
  <2>3. Cardinality(1 .. i) = i  BY <2>1, <1>3, <1>2, FS_Interval DEF Indices
  <2> QED  BY <2>2, <2>3, <1>1, FS_Subset
<1>4. ASSUME NEW i \in Indices(j), i \notin S PROVE i > Cardinality(S)
  <2>1. i \in Nat \ {0}  BY <1>2, <1>4 DEF Indices
  <2>2. S \subseteq 1 .. (i - 1)
    <3> SUFFICES ASSUME NEW k \in S PROVE k \in 1 .. (i - 1)  OBVIOUS
    <3>1. k \in Nat \ {0}  BY <1>2 DEF Indices
    <3>2. ~(i < k) /\ i # k  BY <1>4
    <3> QED  BY <2>1, <3>1, <3>2
  <2>3. IsFiniteSet(1 .. (i - 1)) /\ Cardinality(1 .. (i - 1)) = i - 1
    BY <2>1, FS_Interval
  <2>4. Cardinality(S) <= i - 1
    <3> DEFINE T == 1 .. (i - 1)
    <3>1. S \in SUBSET T /\ IsFiniteSet(T) /\ Cardinality(T) = i - 1  BY <2>2, <2>3
    <3> HIDE DEF T
    <3>2. Cardinality(S) <= Cardinality(T)  BY <3>1, FS_Subset
    <3> QED  BY <3>1, <3>2
  <2> QED  BY <2>1, <2>4, <1>1
<1>5. \A i \in Indices(j) : i \in Nat  BY <1>2 DEF Indices
<1> QED  BY <1>1, <1>3, <1>4, <1>5

LEMMA CursorIsNumber ==
  ASSUME Types, NEW j \in Jobs
  PROVE  Cursor(j) \in Nat
<1> QED  BY DEF Types, Cursor

-------------------------------------------------------------------------------
(* A step that counts nothing of a job, and one that counts one of it.     *)

LEMMA NothingCounted ==
  ASSUME NEW j \in Jobs, Books(j),
         \A i \in Indices(j) : counts'[<<j, i>>] = counts[<<j, i>>],
         \A i \in Indices(j) : <<j, i>> \in DOMAIN work' <=> <<j, i>> \in DOMAIN work,
         \A i \in InWork(j) :
           work'[<<j, i>>] \in CountedStages <=> work[<<j, i>>] \in CountedStages,
         Cursor(j)' = Cursor(j),
         job'[j].status = "completed" => job[j].status = "completed" \/ Cursor(j) >= Total(j)
  PROVE  Books(j)'
<1>1. Done(j)' = Done(j) /\ InWork(j)' = InWork(j)  BY DEF Done, InWork, Indices, Total
<1>2. Indices(j)' = Indices(j) /\ Total(j)' = Total(j)  BY DEF Indices, Total
<1> QED  BY <1>1, <1>2 DEF Books

LEMMA OneCounted ==
  ASSUME Types, AllBooks, NEW u \in DOMAIN work, NEW s \in CountedStages,
         work[u] \notin CountedStages,
         work' = [work EXCEPT ![u] = s],
         counts' = [counts EXCEPT ![u] = @ + 1],
         Cursor(u[1])' = Cursor(u[1]) + 1,
         \A k \in Jobs : k # u[1] => job'[k] = job[k],
         job'[u[1]].status = job[u[1]].status
  PROVE  AllBooks'
<1> DEFINE j == u[1]
           i == u[2]
<1>1. j \in Jobs /\ i \in Indices(j) /\ u = <<j, i>> /\ u \in Units
  BY UnitParts DEF Types
<1>2. DOMAIN work' = DOMAIN work  OBVIOUS
<1>3. ASSUME NEW k \in Jobs, k # j PROVE Books(k)'
  <2>1. \A m \in Indices(k) : <<k, m>> # u  BY <1>1, <1>3
  <2>2. \A m \in Indices(k) : counts'[<<k, m>>] = counts[<<k, m>>]
    BY <2>1, UnitParts DEF Types
  <2>3. \A m \in InWork(k) : work'[<<k, m>>] = work[<<k, m>>]
    BY <2>1 DEF InWork
  <2>4. Cursor(k)' = Cursor(k) /\ job'[k].status = job[k].status  BY <1>3 DEF Cursor
  <2>5. Books(k)  BY DEF AllBooks
  <2> QED  BY <1>2, <2>2, <2>3, <2>4, <2>5, NothingCounted
<1>4. Books(j)'
  <2>1. Books(j) /\ Cursor(j) \in Nat  BY <1>1, CursorIsNumber DEF AllBooks
  <2>2. i \in InWork(j) /\ i \notin Done(j)  BY <1>1, <2>1 DEF InWork, Books
  <2>3. \A m \in Indices(j) : m # i => <<j, m>> # u  BY <1>1
  <2>4. \A m \in Indices(j) : counts[<<j, m>>] \in Nat  BY <1>1, UnitParts DEF Types
  <2>5. \A m \in Indices(j) :
          counts'[<<j, m>>] = IF m = i THEN counts[<<j, m>>] + 1 ELSE counts[<<j, m>>]
    BY <1>1, <2>3, UnitParts DEF Types
  <2>6. counts[<<j, i>>] = 0  BY <1>1, <2>2, <2>4 DEF Done
  <2>7. Done(j)' = Done(j) \cup {i}
    BY <1>1, <2>4, <2>5, <2>6 DEF Done, Indices, Total
  <2>8. InWork(j)' = InWork(j) /\ Indices(j)' = Indices(j) /\ Total(j)' = Total(j)
    BY <1>2 DEF InWork, Indices, Total
  <2>9. IsFiniteSet(Done(j))  BY <1>1, IndexSets DEF Done
  <2>10. Cursor(j)' = Cardinality(Done(j)')
    <3>1. Cardinality(Done(j) \cup {i}) = Cardinality(Done(j)) + 1
      BY <2>2, <2>9, FS_AddElement
    <3>2. Cardinality(Done(j)') = Cardinality(Done(j) \cup {i})  BY <2>7
    <3>3. Cursor(j) = Cardinality(Done(j))  BY <2>1 DEF Books
    <3> HIDE DEF j, i
    <3>4. Cursor(j)' = Cursor(j) + 1  BY DEF j
    <3> QED  BY <3>1, <3>2, <3>3, <3>4
  <2>11. \A m \in InWork(j) :
           work'[<<j, m>>] = IF m = i THEN s ELSE work[<<j, m>>]
    BY <1>1, <2>3 DEF InWork
  <2>12. \A m \in Indices(j) : counts'[<<j, m>>] <= 1
    BY <2>1, <2>5, <2>6 DEF Books
  <2>13. \A m \in InWork(j)' : m \in Done(j)' <=> work'[<<j, m>>] \in CountedStages
    BY <2>1, <2>7, <2>8, <2>11 DEF Books
  <2>14. \A m \in Done(j)' \cup InWork(j)', k \in Indices(j) :
           k < m => k \in Done(j)' \cup InWork(j)'
    BY <2>1, <2>2, <2>7, <2>8 DEF Books
  <2>15. \A m \in InWork(j)', k \in Done(j)' \ InWork(j)' : k < m
    BY <2>1, <2>2, <2>7, <2>8 DEF Books
  <2>16. job'[j].status = "completed" => Cursor(j)' >= Total(j)'
    BY <1>1, <2>1, <2>8, JobTypes DEF Books
  <2> QED  BY <2>8, <2>10, <2>12, <2>13, <2>14, <2>15, <2>16 DEF Books
<1> QED  BY <1>3, <1>4 DEF AllBooks

-------------------------------------------------------------------------------
(* The batch continues every job where its counted combinations end.       *)

LEMMA UnitsFinite == IsFiniteSet(Units)
<1> DEFINE rows == {{j} \X (1 .. Total(j)) : j \in Jobs}
           f == [j \in Jobs |-> {j} \X (1 .. Total(j))]
<1>1. f \in Surjection(Jobs, rows)  BY DEF Surjection
<1>2. IsFiniteSet(rows)  BY <1>1, FS_Surjection, SweepAssumption DEF Jobs
<1>3. \A r \in rows : IsFiniteSet(r)
  <2> SUFFICES ASSUME NEW j \in Jobs PROVE IsFiniteSet({j} \X (1 .. Total(j)))  OBVIOUS
  <2>1. IsFiniteSet(1 .. Total(j))  BY JobTypes, FS_Interval
  <2>2. IsFiniteSet({j})  BY FS_Singleton
  <2> QED  BY <2>1, <2>2, FS_Product
<1> QED  BY <1>2, <1>3, FS_UNION DEF Units

LEMMA BatchHasNoGap ==
  ASSUME Types, NEW u \in PlanBatch, NEW k \in Indices(u[1]), k > Cursor(u[1]), k < u[2]
  PROVE  <<u[1], k>> \in PlanBatch
<1> DEFINE v == <<u[1], k>>
           Before(w) == {x \in Left : Ahead(x, w)}
<1>1. u \in Left /\ u \in Units /\ u[1] \in Jobs  BY UnitParts DEF PlanBatch, Left
<1>2. v \in Left  BY <1>1, UnitParts DEF Left
<1>3. Before(v) \subseteq Before(u)
  <2> SUFFICES ASSUME NEW x \in Left, Ahead(x, v) PROVE Ahead(x, u)  OBVIOUS
  <2>1. x[1] \in Jobs /\ x[1] \in Nat /\ x[2] \in Nat  BY UnitParts, JobTypes DEF Left
  <2>2. Cursor(x[1]) \in Nat /\ Cursor(u[1]) \in Nat  BY <1>1, <2>1, CursorIsNumber
  <2>3. u[1] \in Nat /\ u[2] \in Nat /\ k \in Nat  BY <1>1, UnitParts, JobTypes
  <2>4. v[1] = u[1] /\ v[2] = k  OBVIOUS
  <2> HIDE DEF v
  <2> QED  BY <2>1, <2>2, <2>3, <2>4 DEF Ahead
<1>4. IsFiniteSet(Before(u)) /\ IsFiniteSet(Before(v))
  BY UnitsFinite, FS_Subset DEF Left
<1>5. Cardinality(Before(v)) <= Cardinality(Before(u))  BY <1>3, <1>4, FS_Subset
<1>6. Cardinality(Before(u)) \in Nat /\ Cardinality(Before(v)) \in Nat
  BY <1>4, FS_CardinalityType
<1>7. Cardinality(Before(u)) < BatchSize  BY DEF PlanBatch
<1>8. Cardinality(Before(v)) < BatchSize  BY <1>5, <1>6, <1>7, SweepAssumption
<1> QED  BY <1>2, <1>8 DEF PlanBatch

LEMMA LoadKeeps ==
  ASSUME Types, AllBooks, Load
  PROVE  AllBooks'
<1> SUFFICES ASSUME NEW j \in Jobs PROVE Books(j)'  BY DEF AllBooks
<1>1. Books(j) /\ InWork(j) = {} /\ Cursor(j) \in Nat
  BY CursorIsNumber DEF AllBooks, Load, NoWork, InWork
<1>2. /\ Done(j)' = Done(j) /\ Indices(j)' = Indices(j) /\ Total(j)' = Total(j)
      /\ Cursor(j)' = Cursor(j) /\ UNCHANGED <<job, counts>>
  BY DEF Load, Done, Indices, Total, Cursor
<1>3. InWork(j)' = {i \in Indices(j) : <<j, i>> \in PlanBatch}
  BY DEF Load, InWork, Indices, Total
<1>4. \A i \in Indices(j) : i \in Done(j) <=> i <= Cursor(j)
  <2>1. Done(j) \subseteq Indices(j)  BY DEF Done
  <2>2. \A i \in Done(j), k \in Indices(j) : k < i => k \in Done(j)  BY <1>1 DEF Books
  <2> QED  BY <1>1, <2>1, <2>2, Prefix DEF Books
<1>5. \A i \in InWork(j)' : i > Cursor(j) /\ i \in Indices(j)
  BY <1>3 DEF PlanBatch, Left
<1>6. \A i \in InWork(j)' : work'[<<j, i>>] = "planned"
  BY <1>3 DEF Load
<1>7. \A i \in Indices(j) : i \in Nat  BY JobTypes
<1>8. \A i \in InWork(j)' : i \notin Done(j) /\ work'[<<j, i>>] \notin CountedStages
  BY <1>1, <1>4, <1>5, <1>6, <1>7 DEF CountedStages
<1>9. ASSUME NEW i \in Done(j) \cup InWork(j)', NEW k \in Indices(j), k < i
      PROVE  k \in Done(j) \cup InWork(j)'
  <2>1. CASE k <= Cursor(j)  BY <1>4, <2>1
  <2>2. CASE k > Cursor(j) /\ i \in InWork(j)'
    <3>1. <<j, i>> \in PlanBatch  BY <1>3, <2>2
    <3>2. <<j, k>> \in PlanBatch  BY <1>9, <2>2, <3>1, BatchHasNoGap
    <3> QED  BY <1>3, <3>2
  <2>3. CASE k > Cursor(j) /\ i \in Done(j)
    BY <1>1, <1>4, <1>7, <1>9, <2>3 DEF Done
  <2> QED  BY <1>1, <1>7, <2>1, <2>2, <2>3
<1>10. \A i \in InWork(j)', k \in Done(j) \ InWork(j)' : k < i
  BY <1>1, <1>4, <1>5, <1>7 DEF Done
<1> QED  BY <1>1, <1>2, <1>8, <1>9, <1>10 DEF Books

\* A tick that dies before it has counted anything leaves no gap.
LEMMA DieEarlyKeeps ==
  ASSUME Types, AllBooks, DieEarly
  PROVE  AllBooks'
<1> SUFFICES ASSUME NEW j \in Jobs PROVE Books(j)'  BY DEF AllBooks
<1>1. Books(j)  BY DEF AllBooks
<1>2. /\ Done(j)' = Done(j) /\ Indices(j)' = Indices(j) /\ Total(j)' = Total(j)
      /\ Cursor(j)' = Cursor(j) /\ UNCHANGED <<job, counts>> /\ InWork(j)' = {}
  BY DEF DieEarly, Done, Indices, Total, Cursor, InWork, NoWork
<1>3. \A i \in InWork(j) : i \notin Done(j)
  BY <1>1 DEF DieEarly, Books, InWork, CountedStages
<1>4. \A i \in Indices(j) : i \in Nat  BY JobTypes
<1>5. ASSUME NEW i \in Done(j), NEW k \in Indices(j), k < i PROVE k \in Done(j)
  <2>1. k \in Done(j) \cup InWork(j)  BY <1>1, <1>5 DEF Books
  <2>2. k \in InWork(j) => i < k  BY <1>1, <1>3, <1>5 DEF Books
  <2>3. i \in Nat /\ k \in Nat  BY <1>4, <1>5 DEF Done
  <2> QED  BY <1>5, <2>1, <2>2, <2>3
<1> QED  BY <1>1, <1>2, <1>5 DEF Books

\* A tick that ends has counted every combination of its batch.
LEMMA TickEndsKeeps ==
  ASSUME Types, AllBooks, TickEnds
  PROVE  AllBooks'
<1> SUFFICES ASSUME NEW j \in Jobs PROVE Books(j)'  BY DEF AllBooks
<1>1. Books(j)  BY DEF AllBooks
<1>2. /\ Done(j)' = Done(j) /\ Indices(j)' = Indices(j) /\ Total(j)' = Total(j)
      /\ Cursor(j)' = Cursor(j) /\ UNCHANGED <<job, counts>> /\ InWork(j)' = {}
  BY DEF TickEnds, Done, Indices, Total, Cursor, InWork, NoWork
<1>3. InWork(j) \subseteq Done(j)
  BY <1>1 DEF TickEnds, Books, InWork, CountedStages
<1> QED  BY <1>1, <1>2, <1>3 DEF Books

-------------------------------------------------------------------------------
(* A batch is no larger than it may be.                                    *)

LEMMA BatchBounded ==
  ASSUME Types
  PROVE  Cardinality(PlanBatch) <= BatchSize
<1> DEFINE Before(w) == {x \in Left : Ahead(x, w)}
           rank == [u \in PlanBatch |-> Cardinality(Before(u))]
<1>1. \A u \in Left : /\ u[1] \in Jobs /\ u[1] \in Nat /\ u[2] \in Nat
                       /\ Cursor(u[1]) \in Nat /\ u = <<u[1], u[2]>>
  BY UnitParts, JobTypes, CursorIsNumber DEF Left
<1>2. \A w : IsFiniteSet(Before(w)) /\ Cardinality(Before(w)) \in Nat
  BY UnitsFinite, FS_Subset, FS_CardinalityType DEF Left
<1>3. PlanBatch \subseteq Left  BY DEF PlanBatch
<1>4. ASSUME NEW u \in Left, NEW v \in Left, Ahead(u, v)
      PROVE  Cardinality(Before(u)) < Cardinality(Before(v))
  <2>1. \A x \in Left : Ahead(x, u) => Ahead(x, v)  BY <1>1, <1>4 DEF Ahead
  <2>2. ~Ahead(u, u)  BY <1>1, <1>4 DEF Ahead
  <2>3. Before(u) \subseteq Before(v) /\ u \in Before(v) \ Before(u)  BY <1>4, <2>1, <2>2
  <2>4. Cardinality(Before(u)) <= Cardinality(Before(v))  BY <1>2, <2>3, FS_Subset
  <2>5. Cardinality(Before(u)) # Cardinality(Before(v))  BY <1>2, <2>3, FS_Subset
  <2> QED  BY <1>2, <2>4, <2>5
<1>5. \A u, v \in Left : u = v \/ Ahead(u, v) \/ Ahead(v, u)  BY <1>1 DEF Ahead
<1>6. rank \in [PlanBatch -> 0 .. (BatchSize - 1)]
  <2> SUFFICES ASSUME NEW u \in PlanBatch PROVE Cardinality(Before(u)) \in 0 .. (BatchSize - 1)
    OBVIOUS
  <2>1. Cardinality(Before(u)) < BatchSize  BY DEF PlanBatch
  <2>2. Cardinality(Before(u)) \in Nat  BY <1>2
  <2> HIDE DEF Before
  <2> QED  BY <2>1, <2>2, SweepAssumption
<1>7. \A u, v \in PlanBatch : rank[u] = rank[v] => u = v
  <2> SUFFICES ASSUME NEW u \in PlanBatch, NEW v \in PlanBatch,
                      Cardinality(Before(u)) = Cardinality(Before(v))
               PROVE  u = v
    OBVIOUS
  <2>1. u \in Left /\ v \in Left  BY <1>3
  <2>2. Cardinality(Before(u)) \in Nat  BY <1>2
  <2>3. Ahead(u, v) => Cardinality(Before(u)) < Cardinality(Before(v))  BY <1>4, <2>1
  <2>4. Ahead(v, u) => Cardinality(Before(v)) < Cardinality(Before(u))  BY <1>4, <2>1
  <2>5. u = v \/ Ahead(u, v) \/ Ahead(v, u)  BY <1>5, <2>1
  <2> HIDE DEF Before
  <2> QED  BY <2>2, <2>3, <2>4, <2>5
<1>8. rank \in Injection(PlanBatch, 0 .. (BatchSize - 1))
  BY <1>6, <1>7 DEF Injection, IsInjective
<1>9. IsFiniteSet(0 .. (BatchSize - 1)) /\ Cardinality(0 .. (BatchSize - 1)) = BatchSize
  BY FS_Interval, SweepAssumption
<1> QED  BY <1>8, <1>9, FS_Injection

Bounded == Cardinality(DOMAIN work) <= BatchSize

\* Everything a tick does to its units, by what it leaves of the types.
LEMMA TypesKept == Types /\ Bounded /\ [Next]_vars => Types' /\ Bounded'
<1> SUFFICES ASSUME Types, Bounded, [Next]_vars PROVE Types' /\ Bounded'  OBVIOUS
<1> USE DEF Types, Bounded, Stages
<1>1. CASE Load
  <2>1. DOMAIN work' = PlanBatch /\ work' = [u \in PlanBatch |-> "planned"] /\ UNCHANGED <<job, counts>>
    BY <1>1 DEF Load
  <2>2. PlanBatch \subseteq Units  BY DEF PlanBatch, Left
  <2> QED  BY <2>1, <2>2, BatchBounded
<1>2. CASE MarkJobsRunning
  <2>1. DOMAIN work' = DOMAIN work /\ work' = [u \in DOMAIN work |-> "started"] /\ UNCHANGED counts
    BY <1>2 DEF MarkJobsRunning
  <2>2. job' \in [Jobs -> [status : Statuses, completed : Nat, failed : Nat]]
    BY <1>2 DEF MarkJobsRunning, Statuses
  <2> QED  BY <2>1, <2>2
<1>3. CASE TickEnds \/ DieEarly \/ Die
  <2>1. DOMAIN work' = {} /\ work' = NoWork /\ UNCHANGED <<job, counts>>
    BY <1>3 DEF TickEnds, DieEarly, Die, NoWork
  <2>2. Cardinality({}) = 0  BY FS_EmptySet
  <2> QED  BY <2>1, <2>2, SweepAssumption DEF NoWork
<1>4. ASSUME NEW u \in DOMAIN work, UnitStep(u) \/ CompletionRaises(u) PROVE Types' /\ Bounded'
  <2>0. u \in Units /\ u[1] \in Jobs  BY UnitParts
  <2>1. DOMAIN work' = DOMAIN work
    BY <1>4 DEF UnitStep, Lookup, Raise, CountCompleted, MaybeComplete, MarkComboFailed,
                CompletionRaises
  <2>2. work' = [x \in DOMAIN work' |-> work'[x]] /\ \A x \in DOMAIN work' : work'[x] \in Stages
    BY <1>4 DEF UnitStep, Lookup, Raise, CountCompleted, MaybeComplete, MarkComboFailed,
                CompletionRaises
  <2>3. counts' \in [Units -> Nat]
    BY <1>4, <2>0 DEF UnitStep, Lookup, Raise, CountCompleted, MaybeComplete, MarkComboFailed,
                CompletionRaises
  <2>4. job' \in [Jobs -> [status : Statuses, completed : Nat, failed : Nat]]
    <3>1. job[u[1]] \in [status : Statuses, completed : Nat, failed : Nat]  BY <2>0
    <3>2. CASE Lookup(u) \/ Raise(u) \/ CompletionRaises(u)
      BY <3>2 DEF Lookup, Raise, CompletionRaises
    <3>3. CASE CountCompleted(u)  BY <2>0, <3>1, <3>3 DEF CountCompleted
    <3>4. CASE MarkComboFailed(u)  BY <2>0, <3>1, <3>4 DEF MarkComboFailed
    <3>5. CASE MaybeComplete(u)
      <4>1. MaybeCompleted(job[u[1]], Total(u[1])) \in [status : Statuses, completed : Nat, failed : Nat]
        BY <3>1 DEF MaybeCompleted, Statuses
      <4> QED  BY <2>0, <3>5, <4>1 DEF MaybeComplete
    <3> QED  BY <1>4, <3>2, <3>3, <3>4, <3>5 DEF UnitStep
  <2> QED  BY <2>1, <2>2, <2>3, <2>4
<1>5. ASSUME NEW j \in Jobs, Submit(j) PROVE Types' /\ Bounded'
  BY <1>5 DEF Submit, Statuses
<1>6. CASE UNCHANGED vars  BY <1>6 DEF vars
<1> QED  BY <1>1, <1>2, <1>3, <1>4, <1>5, <1>6 DEF Next, TickStep

Surroundings == runs \subseteq {InputHash(u) : u \in Units} /\ faults \in 0 .. MaxFaults /\ upset \in BOOLEAN

LEMMA SurroundingsKept == Types /\ Surroundings /\ [Next]_vars => Surroundings'
<1> SUFFICES ASSUME Types, Surroundings, [Next]_vars PROVE Surroundings'  OBVIOUS
<1> USE DEF Surroundings
<1>0. MaxFaults \in Nat  BY SweepAssumption
<1>1. CASE Load \/ MarkJobsRunning \/ TickEnds
  BY <1>1 DEF Load, MarkJobsRunning, TickEnds
<1>2. ASSUME NEW u \in DOMAIN work, UnitStep(u) \/ CompletionRaises(u) PROVE Surroundings'
  <2>1. u \in Units  BY DEF Types
  <2>2. CASE Lookup(u) \/ Raise(u) \/ MaybeComplete(u) \/ MarkComboFailed(u)
    BY <2>2 DEF Lookup, Raise, MaybeComplete, MarkComboFailed
  <2>3. CASE CountCompleted(u)
    <3>1. runs' = runs \/ runs' = runs \cup {InputHash(u)}  BY <2>3 DEF CountCompleted
    <3>2. UNCHANGED <<faults, upset>>  BY <2>3 DEF CountCompleted
    <3>3. InputHash(u) \in {InputHash(x) : x \in Units}  BY <2>1
    <3> QED  BY <3>1, <3>2, <3>3
  <2>4. CASE CompletionRaises(u)
    <3>1. faults < MaxFaults /\ faults' = faults + 1 /\ upset' = TRUE /\ runs' = runs
      BY <2>4 DEF CompletionRaises
    <3>2. faults' \in 0 .. MaxFaults  BY <1>0, <3>1
    <3> QED  BY <3>1, <3>2
  <2> QED  BY <1>2, <2>2, <2>3, <2>4 DEF UnitStep
<1>3. CASE DieEarly \/ Die
  <2>1. /\ faults < MaxFaults /\ faults' = faults + 1 /\ runs' = runs
        /\ upset' = upset \/ upset' = TRUE
    BY <1>3 DEF DieEarly, Die
  <2>2. faults' \in 0 .. MaxFaults  BY <1>0, <2>1
  <2> QED  BY <2>1, <2>2
<1>4. ASSUME NEW j \in Jobs, Submit(j) PROVE Surroundings'  BY <1>4 DEF Submit
<1>5. CASE UNCHANGED vars  BY <1>5 DEF vars
<1> QED  BY <1>1, <1>2, <1>3, <1>4, <1>5 DEF Next, TickStep

-------------------------------------------------------------------------------
(* The books through every step that does not leave them undone.           *)

LEMMA UnitStepKeeps ==
  ASSUME Types, AllBooks, NEW u \in DOMAIN work, UnitStep(u)
  PROVE  AllBooks'
<1>1. u \in Units /\ u[1] \in Jobs /\ job[u[1]] \in [status : Statuses, completed : Nat, failed : Nat]
  BY UnitParts DEF Types
<1>2. CASE UNCHANGED counts /\ DOMAIN work' = DOMAIN work
           /\ (\A x \in DOMAIN work : work'[x] \in CountedStages <=> work[x] \in CountedStages)
           /\ (\A j \in Jobs : Cursor(j)' = Cursor(j))
           /\ \A j \in Jobs : job'[j].status = "completed" =>
                              job[j].status = "completed" \/ Cursor(j) >= Total(j)
  <2> SUFFICES ASSUME NEW j \in Jobs PROVE Books(j)'  BY DEF AllBooks
  <2>1. Books(j)  BY DEF AllBooks
  <2> QED  BY <1>2, <2>1, NothingCounted DEF InWork
<1>3. CASE Lookup(u) \/ Raise(u)
  BY <1>2, <1>3 DEF Lookup, Raise, Types, CountedStages, Cursor
<1>4. CASE MaybeComplete(u)
  <2>1. /\ UNCHANGED counts /\ DOMAIN work' = DOMAIN work
        /\ \A x \in DOMAIN work : work'[x] \in CountedStages <=> work[x] \in CountedStages
    BY <1>4 DEF MaybeComplete, Types, CountedStages
  <2>2. job' = [job EXCEPT ![u[1]] = MaybeCompleted(@, Total(u[1]))]
    BY <1>4 DEF MaybeComplete
  <2>3. \A j \in Jobs : Cursor(j)' = Cursor(j)
    BY <1>1, <2>2 DEF MaybeCompleted, Cursor, Types
  <2>4. \A j \in Jobs : job'[j].status = "completed" =>
                        job[j].status = "completed" \/ Cursor(j) >= Total(j)
    BY <1>1, <2>2 DEF MaybeCompleted, Cursor, Types
  <2> QED  BY <1>2, <2>1, <2>3, <2>4
<1>5. CASE CountCompleted(u)
  <2>1. CASE work[u] = "missing" /\ InputHash(u) \in runs
    BY <1>2, <1>5, <2>1 DEF CountCompleted, Types, CountedStages, Cursor
  <2>2. CASE ~(work[u] = "missing" /\ InputHash(u) \in runs)
    <3>1. /\ work[u] \notin CountedStages /\ work' = [work EXCEPT ![u] = "counted"]
          /\ counts' = [counts EXCEPT ![u] = @ + 1]
          /\ job' = [job EXCEPT ![u[1]].completed = @ + 1]
      BY <1>5, <2>2 DEF CountCompleted, CountedStages
    <3>2. /\ Cursor(u[1])' = Cursor(u[1]) + 1 /\ job'[u[1]].status = job[u[1]].status
          /\ \A k \in Jobs : k # u[1] => job'[k] = job[k]
      BY <1>1, <3>1 DEF Cursor, Types
    <3> QED  BY <3>1, <3>2, OneCounted DEF CountedStages
  <2> QED  BY <2>1, <2>2
<1>6. CASE MarkComboFailed(u)
  <2>1. /\ work[u] \notin CountedStages /\ work' = [work EXCEPT ![u] = "missed"]
        /\ counts' = [counts EXCEPT ![u] = @ + 1]
        /\ job' = [job EXCEPT ![u[1]].failed = @ + 1]
    BY <1>6 DEF MarkComboFailed, CountedStages
  <2>2. /\ Cursor(u[1])' = Cursor(u[1]) + 1 /\ job'[u[1]].status = job[u[1]].status
        /\ \A k \in Jobs : k # u[1] => job'[k] = job[k]
    BY <1>1, <2>1 DEF Cursor, Types
  <2> QED  BY <2>1, <2>2, OneCounted DEF CountedStages
<1> QED  BY <1>3, <1>4, <1>5, <1>6 DEF UnitStep

\* Marking jobs running and submitting one count nothing.
LEMMA StatusKeeps ==
  ASSUME Types, AllBooks, MarkJobsRunning \/ \E j \in Jobs : Submit(j)
  PROVE  AllBooks'
<1> SUFFICES ASSUME NEW j \in Jobs PROVE Books(j)'  BY DEF AllBooks
<1>1. Books(j)  BY DEF AllBooks
<1>2. UNCHANGED counts /\ DOMAIN work' = DOMAIN work
  BY DEF MarkJobsRunning, Submit
<1>3. \A x \in DOMAIN work : work'[x] \in CountedStages <=> work[x] \in CountedStages
  BY DEF MarkJobsRunning, Submit, CountedStages
<1>4. Cursor(j)' = Cursor(j) /\ (job'[j].status = "completed" => job[j].status = "completed")
  BY DEF MarkJobsRunning, Submit, Cursor, Types
<1> QED  BY <1>1, <1>2, <1>3, <1>4, NothingCounted DEF InWork

IInv == Types /\ Bounded /\ Surroundings /\ (~upset => AllBooks)

LEMMA InitIInv == Init => IInv
<1> SUFFICES ASSUME Init PROVE IInv  OBVIOUS
<1>1. Types /\ Bounded /\ Surroundings
  <2>1. DOMAIN work = {} /\ work = NoWork  BY DEF Init, NoWork
  <2>2. Types  BY <2>1 DEF Init, Types, NoWork, Statuses
  <2>3. Bounded  BY <2>1, FS_EmptySet, SweepAssumption DEF Bounded
  <2>4. Surroundings
    <3>1. runs = {} /\ faults = 0 /\ upset = FALSE  BY DEF Init
    <3>2. 0 \in 0 .. MaxFaults  BY SweepAssumption
    <3> QED  BY <3>1, <3>2 DEF Surroundings
  <2> QED  BY <2>2, <2>3, <2>4
<1>2. ASSUME NEW j \in Jobs PROVE Books(j)
  <2>1. Done(j) = {} /\ InWork(j) = {} /\ Cursor(j) = 0
    BY <1>2, UnitParts DEF Init, Done, InWork, NoWork, Cursor
  <2>2. \A i \in Indices(j) : counts[<<j, i>>] <= 1  BY <1>2, UnitParts DEF Init
  <2>3. job[j].status # "completed"  BY DEF Init
  <2> QED  BY <2>1, <2>2, <2>3, FS_EmptySet DEF Books
<1> QED  BY <1>1, <1>2 DEF IInv, AllBooks

LEMMA NextKeeps == IInv /\ [Next]_vars => IInv'
<1> SUFFICES ASSUME IInv, [Next]_vars PROVE IInv'  OBVIOUS
<1>1. Types' /\ Bounded' /\ Surroundings'
  BY TypesKept, SurroundingsKept DEF IInv
<1>2. ASSUME ~upset' PROVE AllBooks'
  <2>1. Types  BY DEF IInv
  <2>2. upset' = upset \/ upset' = TRUE
    BY DEF Next, TickStep, Load, MarkJobsRunning, TickEnds, UnitStep, Lookup, Raise,
           CountCompleted, MaybeComplete, MarkComboFailed, CompletionRaises, DieEarly, Die,
           Submit, vars
  <2>3. AllBooks  BY <1>2, <2>2 DEF IInv
  <2>4. CASE Load  BY <2>1, <2>3, <2>4, LoadKeeps
  <2>5. CASE MarkJobsRunning \/ \E j \in Jobs : Submit(j)  BY <2>1, <2>3, <2>5, StatusKeeps
  <2>6. CASE TickEnds  BY <2>1, <2>3, <2>6, TickEndsKeeps
  <2>7. CASE DieEarly  BY <2>1, <2>3, <2>7, DieEarlyKeeps
  <2>8. CASE \E u \in DOMAIN work : UnitStep(u)  BY <2>1, <2>3, <2>8, UnitStepKeeps
  <2>9. CASE \E u \in DOMAIN work : CompletionRaises(u)  BY <1>2, <2>9 DEF CompletionRaises
  <2>10. CASE Die  BY <1>2, <2>10 DEF Die
  <2>11. CASE UNCHANGED vars
    <3> SUFFICES ASSUME NEW j \in Jobs PROVE Books(j)'  BY DEF AllBooks
    <3>1. Books(j) /\ UNCHANGED <<counts, work, job>>  BY <2>3, <2>11 DEF AllBooks, vars
    <3> QED  BY <3>1, NothingCounted DEF Cursor
  <2> QED  BY <2>4, <2>5, <2>6, <2>7, <2>8, <2>9, <2>10, <2>11 DEF Next, TickStep
<1> QED  BY <1>1, <1>2 DEF IInv

LEMMA Holds == Spec => []IInv
<1> QED  BY InitIInv, NextKeeps, PTL DEF Spec

-------------------------------------------------------------------------------
\* Type correctness, and no batch larger than BATCH_SIZE, for any jobs.
THEOREM TypeCorrect == Spec => []TypeOK
<1>1. IInv => TypeOK
  BY DEF IInv, Types, Bounded, Surroundings, TypeOK
<1> QED  BY <1>1, Holds, PTL

\* As long as no tick ended with bookkeeping undone, the two counters of a job
\* stand for its combinations: none is counted twice, a completed job has counted
\* all of its grid.
THEOREM CountersStandForCombinations == Spec => []EachCombinationOnce
<1>1. IInv => EachCombinationOnce
  <2> SUFFICES ASSUME IInv, ~upset, NEW j \in Jobs, NEW i \in 1 .. Total(j)
               PROVE  /\ counts[<<j, i>>] <= 1
                      /\ job[j].status = "completed" => counts[<<j, i>>] = 1
    BY DEF EachCombinationOnce
  <2>1. Books(j) /\ i \in Indices(j)  BY DEF IInv, AllBooks, Indices
  <2>2. Done(j) \subseteq Indices(j)  BY DEF Done
  <2>3. job[j].status = "completed" => Done(j) = Indices(j)
    BY <2>1, <2>2, IndexSets DEF Books
  <2>4. counts[<<j, i>>] \in Nat  BY <2>1, UnitParts DEF IInv, Types
  <2> QED  BY <2>1, <2>3, <2>4 DEF Books, Done
<1> QED  BY <1>1, Holds, PTL
-------------------------------------------------------------------------------
(* The batch is dealt out by rounds.                                       *)

\* The units of a job with indices from a to b.
Stretch(j, a, b) == {j} \X (a .. b)

LEMMA StretchSize ==
  ASSUME NEW j, NEW a \in Nat, NEW n \in Nat
  PROVE  IsFiniteSet(Stretch(j, a + 1, a + n)) /\ Cardinality(Stretch(j, a + 1, a + n)) = n
<1>1. IsFiniteSet((a + 1) .. (a + n)) /\ Cardinality((a + 1) .. (a + n)) = n
  <2>1. a + 1 \in Int /\ a + n \in Int  OBVIOUS
  <2>2. /\ IsFiniteSet((a + 1) .. (a + n))
        /\ Cardinality((a + 1) .. (a + n)) =
             IF a + 1 > a + n THEN 0 ELSE (a + n) - (a + 1) + 1
    BY <2>1, FS_Interval
  <2> QED  BY <2>2
<1>2. IsFiniteSet({j}) /\ Cardinality({j}) = 1  BY FS_Singleton
<1>3. /\ IsFiniteSet({j} \X ((a + 1) .. (a + n)))
      /\ Cardinality({j} \X ((a + 1) .. (a + n))) = 1 * Cardinality((a + 1) .. (a + n))
  BY <1>1, <1>2, FS_Product
<1> QED  BY <1>1, <1>3 DEF Stretch

\* A unit of an earlier round than one of the batch is in the batch too.
LEMMA EarlierRoundsFirst ==
  ASSUME Types, NEW u \in PlanBatch, NEW v \in Left,
         v[2] - Cursor(v[1]) < u[2] - Cursor(u[1])
  PROVE  v \in PlanBatch
<1> DEFINE Before(w) == {x \in Left : Ahead(x, w)}
<1>1. u \in Left  BY DEF PlanBatch
<1>2. \A x \in Left : x[1] \in Jobs /\ x[1] \in Nat /\ x[2] \in Nat /\ Cursor(x[1]) \in Nat
  BY UnitParts, JobTypes, CursorIsNumber DEF Left
<1>3. Before(v) \subseteq Before(u)
  <2> SUFFICES ASSUME NEW x \in Left, Ahead(x, v) PROVE Ahead(x, u)  OBVIOUS
  <2> QED  BY <1>1, <1>2 DEF Ahead
<1>4. IsFiniteSet(Before(u)) /\ IsFiniteSet(Before(v))
  BY UnitsFinite, FS_Subset DEF Left
<1>5. Cardinality(Before(v)) <= Cardinality(Before(u))  BY <1>3, <1>4, FS_Subset
<1>6. Cardinality(Before(u)) \in Nat /\ Cardinality(Before(v)) \in Nat
  BY <1>4, FS_CardinalityType
<1>7. Cardinality(Before(u)) < BatchSize  BY DEF PlanBatch
<1>8. Cardinality(Before(v)) < BatchSize  BY <1>5, <1>6, <1>7, SweepAssumption
<1> QED  BY <1>8 DEF PlanBatch

\* A job with n units in the batch has one of round n or later there, so every
\* other job has all it can have of the rounds before.
LEMMA BatchIsFair ==
  ASSUME Types, NEW j \in Active, NEW k \in Active
  PROVE  LET share(m) == Cardinality({u \in PlanBatch : u[1] = m})
         IN  share(j) >= share(k) - 1 \/ share(j) >= Total(j) - Cursor(j)
<1> DEFINE Part(m) == {u \in PlanBatch : u[1] = m}
           n == Cardinality(Part(k))
           left == Total(j) - Cursor(j)
<1> SUFFICES Cardinality(Part(j)) >= n - 1 \/ Cardinality(Part(j)) >= left  OBVIOUS
<1>1. /\ j \in Jobs /\ k \in Jobs /\ Cursor(j) \in Nat /\ Cursor(k) \in Nat
      /\ Total(j) \in Nat /\ Total(k) \in Nat /\ left \in Int
  BY CursorIsNumber, JobTypes DEF Active
<1>2. \A m : IsFiniteSet(Part(m)) /\ Cardinality(Part(m)) \in Nat
  BY UnitsFinite, FS_Subset, FS_CardinalityType DEF PlanBatch, Left
<1>3. n \in Nat /\ Cardinality(Part(j)) \in Nat  BY <1>2
<1>4. \A m \in Jobs : \A u \in Part(m) : /\ u \in Units /\ u = <<m, u[2]>> /\ u[2] \in Nat
                                        /\ Cursor(m) < u[2] /\ u[2] <= Total(m)
  BY UnitParts, JobTypes DEF PlanBatch, Left, Indices
<1>5. ASSUME NEW size \in Nat, size <= left,
             \A i \in (Cursor(j) + 1) .. (Cursor(j) + size) : <<j, i>> \in PlanBatch
      PROVE  Cardinality(Part(j)) >= size
  <2>1. Stretch(j, Cursor(j) + 1, Cursor(j) + size) \subseteq Part(j)  BY <1>5 DEF Stretch
  <2>2. Cardinality(Stretch(j, Cursor(j) + 1, Cursor(j) + size)) = size
    BY <1>1, StretchSize
  <2> QED  BY <1>2, <2>1, <2>2, FS_Subset
<1> HIDE DEF n
<1>6. CASE n = 0 \/ n = 1
  BY <1>3, <1>6
<1>7. CASE n > 1
  <2>1. PICK u \in Part(k) : u[2] - Cursor(k) >= n
    <3> SUFFICES ASSUME \A u \in Part(k) : ~(u[2] - Cursor(k) >= n) PROVE FALSE  OBVIOUS
    <3>1. Part(k) \subseteq Stretch(k, Cursor(k) + 1, Cursor(k) + (n - 1))
      <4> SUFFICES ASSUME NEW u \in Part(k)
                   PROVE  u \in Stretch(k, Cursor(k) + 1, Cursor(k) + (n - 1))
        OBVIOUS
      <4>1. u = <<k, u[2]>> /\ u[2] \in Nat /\ Cursor(k) < u[2] /\ ~(u[2] - Cursor(k) >= n)
        BY <1>1, <1>4
      <4>3. u[2] \in (Cursor(k) + 1) .. (Cursor(k) + (n - 1))  BY <1>1, <1>3, <4>1
      <4> QED  BY <4>1, <4>3 DEF Stretch
    <3>2. n \in Nat /\ n - 1 \in Nat  BY <1>3, <1>7
    <3>3. /\ IsFiniteSet(Stretch(k, Cursor(k) + 1, Cursor(k) + (n - 1)))
          /\ Cardinality(Stretch(k, Cursor(k) + 1, Cursor(k) + (n - 1))) = n - 1
      BY <1>1, <3>2, StretchSize
    <3>4. n <= n - 1  BY <3>1, <3>3, FS_Subset DEF n
    <3> QED  BY <3>2, <3>4
  <2>2. n \in Nat /\ u \in PlanBatch /\ u[1] = k /\ u[2] \in Nat  BY <1>1, <1>3, <1>4
  <2>3. ASSUME NEW i \in (Cursor(j) + 1) .. (Cursor(j) + (n - 1)), i <= Total(j)
        PROVE  <<j, i>> \in PlanBatch
    <3>1. i \in Nat /\ i > Cursor(j) /\ i - Cursor(j) < n /\ i \in Indices(j)
      BY <1>1, <2>2, <2>3 DEF Indices
    <3>2. <<j, i>> \in Left  BY <1>1, <3>1, UnitParts DEF Left
    <3>3. <<j, i>>[2] - Cursor(<<j, i>>[1]) < u[2] - Cursor(u[1])
      BY <1>1, <2>1, <2>2, <3>1
    <3> QED  BY <2>2, <3>2, <3>3, EarlierRoundsFirst
  <2>4. CASE n - 1 <= left
    <3>1. n - 1 \in Nat  BY <1>7, <2>2
    <3>2. \A i \in (Cursor(j) + 1) .. (Cursor(j) + (n - 1)) : i <= Total(j)
      BY <1>1, <2>2, <2>4
    <3>3. Cardinality(Part(j)) >= n - 1  BY <1>5, <2>3, <2>4, <3>1, <3>2
    <3> QED  BY <3>3
  <2>5. CASE n - 1 > left /\ left < 0
    BY <1>1, <1>3, <2>5
  <2>6. CASE n - 1 > left /\ left >= 0
    <3>1. \A i \in (Cursor(j) + 1) .. (Cursor(j) + left) :
            i \in (Cursor(j) + 1) .. (Cursor(j) + (n - 1)) /\ i <= Total(j)
      BY <1>1, <2>2, <2>6
    <3>2. Cardinality(Part(j)) >= left  BY <1>1, <1>5, <2>3, <2>6, <3>1
    <3> QED  BY <3>2
  <2> QED  BY <1>1, <2>2, <2>4, <2>5, <2>6
<1> QED  BY <1>3, <1>6, <1>7

\* "One large sweep never starves a smaller concurrent one": the round-robin of
\* _plan_batch gives every active job as many units of a batch as any other, one
\* less at most, or all it has left, for any number of jobs and any batch size.
THEOREM SharesAreFair == Spec => FairShare
<1> DEFINE Share(m) == Cardinality({u \in DOMAIN work' : u[1] = m})
           Fair == work = NoWork =>
                     \A j, k \in Active :
                       LET share(m) == Cardinality({u \in DOMAIN work' : u[1] = m})
                       IN  DOMAIN work' # {} => \/ share(j) >= share(k) - 1
                                                \/ share(j) >= Total(j) - Cursor(j)
<1>1. IInv /\ [Next]_vars => [Fair]_vars
  <2> SUFFICES ASSUME IInv, Next, work = NoWork, NEW j \in Active, NEW k \in Active,
                      DOMAIN work' # {}
               PROVE  Share(j) >= Share(k) - 1 \/ Share(j) >= Total(j) - Cursor(j)
    OBVIOUS
  <2>1. DOMAIN work = {}  BY DEF NoWork
  <2>2. Load
    BY <2>1 DEF Next, TickStep, MarkJobsRunning, TickEnds, DieEarly, Die, Submit, NoWork
  <2>3. DOMAIN work' = PlanBatch  BY <2>2 DEF Load
  <2>4. Types  BY DEF IInv
  <2> QED  BY <2>3, <2>4, BatchIsFair
<1> QED  BY <1>1, Holds, PTL DEF Spec, FairShare
===============================================================================
