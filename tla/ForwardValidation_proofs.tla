----------------------- MODULE ForwardValidation_proofs -----------------------
(***************************************************************************)
(* Forward validation implements TrackRecord, starts no record in the      *)
(* past, and keeps a record that is the batch backtest over its days, with *)
(* no silent gap: for any number of passes, any calendar and any windows.  *)
(***************************************************************************)
EXTENDS ForwardValidation, FiniteSetTheorems, TLAPS

USE DEF Never

(***************************************************************************)
(* InOrder lists a finite set of days in ascending order.                  *)
(***************************************************************************)
LEMMA BeforeGrows ==
  ASSUME NEW S \in SUBSET Nat, IsFiniteSet(S), NEW d \in S, NEW e \in S, d < e
  PROVE  /\ Cardinality(Before(S, d)) \in Nat /\ Cardinality(Before(S, e)) \in Nat
         /\ Cardinality(Before(S, d)) < Cardinality(Before(S, e))
<1>1. IsFiniteSet(Before(S, e))
  BY FS_Subset DEF Before
<1>2. Before(S, d) \subseteq Before(S, e) /\ d \in Before(S, e) /\ d \notin Before(S, d)
  <2>1. ASSUME NEW x \in Before(S, d) PROVE x \in Before(S, e)
    <3>1. x \in Nat /\ d \in Nat /\ e \in Nat /\ x \in S /\ x < d
      BY DEF Before
    <3> QED
      BY <3>1 DEF Before
  <2>2. d \in Nat /\ e \in Nat /\ ~(d < d)
    BY SMT
  <2>3. d \in Before(S, e) /\ d \notin Before(S, d)
    BY <2>2 DEF Before
  <2> QED
    BY <2>1, <2>3
<1>3. /\ IsFiniteSet(Before(S, d))
      /\ Cardinality(Before(S, d)) <= Cardinality(Before(S, e))
      /\ Cardinality(Before(S, e)) = Cardinality(Before(S, d)) => Before(S, d) = Before(S, e)
  BY <1>1, <1>2, FS_Subset
<1>4. Cardinality(Before(S, d)) \in Nat /\ Cardinality(Before(S, e)) \in Nat
  BY <1>1, <1>3, FS_CardinalityType
<1> QED
  BY <1>2, <1>3, <1>4

LEMMA EveryPlaceTaken ==
  ASSUME NEW S \in SUBSET Nat, IsFiniteSet(S), NEW k \in 1 .. Cardinality(S)
  PROVE  \E d \in S : Cardinality(Before(S, d)) = k - 1
<1> DEFINE n == Cardinality(S)
           rank == [d \in S |-> Cardinality(Before(S, d)) + 1]
<1>1. n \in Nat
  BY FS_CardinalityType
<1>2. ASSUME NEW d \in S PROVE rank[d] \in 1 .. n
  <2>1. Before(S, d) \subseteq S /\ d \notin Before(S, d)
    BY DEF Before
  <2>2. /\ IsFiniteSet(Before(S, d))
        /\ Cardinality(Before(S, d)) <= n
        /\ n = Cardinality(Before(S, d)) => S = Before(S, d)
    BY <2>1, FS_Subset
  <2>3. Cardinality(Before(S, d)) \in Nat
    BY <2>2, FS_CardinalityType
  <2> QED
    BY <1>1, <2>1, <2>2, <2>3
<1>3. rank \in [S -> 1 .. n]
  BY <1>2
<1>4. ASSUME NEW d \in S, NEW e \in S, rank[d] = rank[e] PROVE d = e
  <2>1. ASSUME d < e PROVE FALSE
    BY <1>4, <2>1, BeforeGrows
  <2>2. ASSUME e < d PROVE FALSE
    BY <1>4, <2>2, BeforeGrows
  <2> QED
    BY <2>1, <2>2
<1>5. rank \in Injection(S, 1 .. n)
  BY <1>3, <1>4 DEF Injection, IsInjective
<1>6. IsFiniteSet(1 .. n) /\ Cardinality(1 .. n) = n
  BY <1>1, FS_Interval
<1>7. rank \in Surjection(S, 1 .. n)
  BY <1>5, <1>6, FS_Injection
<1>8. PICK d \in S : rank[d] = k
  BY <1>7 DEF Surjection
<1>9. Cardinality(Before(S, d)) \in Nat
  BY FS_Subset, FS_CardinalityType DEF Before
<1> QED
  BY <1>8, <1>9

LEMMA InOrderAscends ==
  ASSUME NEW S \in SUBSET (Nat \ {0}), IsFiniteSet(S), S # {}
  PROVE  /\ InOrder(S) \in Seq(Nat \ {0}) /\ InOrder(S) # <<>>
         /\ Len(InOrder(S)) = Cardinality(S)
         /\ \A i \in DOMAIN InOrder(S) : InOrder(S)[i] \in S
         /\ \A i, j \in DOMAIN InOrder(S) : i < j => InOrder(S)[i] < InOrder(S)[j]
<1> DEFINE n == Cardinality(S)
           s == InOrder(S)
<1>1. n \in Nat /\ n # 0
  BY FS_CardinalityType, FS_EmptySet
<1>2. ASSUME NEW k \in 1 .. n
      PROVE  s[k] \in S /\ Cardinality(Before(S, s[k])) = k - 1
  <2>1. s[k] = CHOOSE d \in S : Cardinality(Before(S, d)) = k - 1
    BY DEF InOrder
  <2>2. \E d \in S : Cardinality(Before(S, d)) = k - 1
    BY EveryPlaceTaken
  <2> QED
    BY <2>1, <2>2
<1>3. DOMAIN s = 1 .. n /\ s \in [1 .. n -> Nat \ {0}]
  BY <1>2 DEF InOrder
<1>4. s \in Seq(Nat \ {0}) /\ Len(s) = n
  BY <1>1, <1>3
<1>5. ASSUME NEW i \in 1 .. n, NEW j \in 1 .. n, i < j PROVE s[i] < s[j]
  <2>1. s[i] \in S /\ s[j] \in S
    BY <1>2
  <2>2. s[i] # s[j]
    BY <1>2, <1>5
  <2>3. ASSUME s[j] < s[i] PROVE FALSE
    <3>1. Cardinality(Before(S, s[j])) < Cardinality(Before(S, s[i]))
      BY <2>1, <2>3, BeforeGrows
    <3> QED
      BY <3>1, <1>2, <1>5
  <2>4. s[i] \in Nat /\ s[j] \in Nat
    BY <2>1
  <2> HIDE DEF s
  <2> QED
    BY <2>2, <2>3, <2>4
<1> QED
  BY <1>1, <1>2, <1>3, <1>4, <1>5

(***************************************************************************)
(* Which rows a pass steps onto: rows of the frame, after the last         *)
(* processed date, a single one on the first tick.                         *)
(***************************************************************************)
LEMMA RowsAreDue ==
  ASSUME NEW frame \in SUBSET (Nat \ {0}), IsFiniteSet(frame), NEW last \in Nat, NEW maxRows
  PROVE  LET rows == RowsToProcess(frame, last, maxRows)
         IN  /\ rows \subseteq frame /\ IsFiniteSet(rows)
             /\ \A d \in rows : last < d
             /\ last = 0 /\ rows # {} => Cardinality(rows) = 1
<1> DEFINE rows == RowsToProcess(frame, last, maxRows)
<1>1. rows \subseteq frame
  BY DEF RowsToProcess, WithWindow
<1>2. \A d \in rows : d \in Nat /\ last < d
  BY DEF RowsToProcess, WithWindow
<1>3. IsFiniteSet(rows)
  BY <1>1, FS_Subset
<1>4. ASSUME last = 0, rows # {} PROVE Cardinality(rows) = 1
  <2>1. PICK d \in rows : TRUE
    BY <1>4
  <2>2. ASSUME NEW e \in rows PROVE e = d
    <3>1. e \in Nat /\ d \in Nat
      BY <1>2
    <3>2. e <= d /\ d <= e
      BY <1>4 DEF RowsToProcess
    <3> QED
      BY <3>1, <3>2
  <2>3. rows = {d}
    BY <2>2
  <2> QED
    BY <2>3, FS_Singleton
<1> QED
  BY <1>1, <1>2, <1>3, <1>4

LEMMA FirstRowIsNewest ==
  ASSUME NEW frame \in SUBSET (Nat \ {0}), IsFiniteSet(frame), NEW maxRows,
         NEW d \in RowsToProcess(frame, 0, maxRows), NEW e \in frame
  PROVE  e <= d
<1>1. d \in WithWindow(frame) /\ d \in Nat /\ e \in Nat /\ e > 0
  BY DEF RowsToProcess, WithWindow
<1>2. CASE e \in WithWindow(frame)
  BY <1>1, <1>2 DEF RowsToProcess
<1>3. CASE e \notin WithWindow(frame)
  <2>1. ASSUME d < e PROVE FALSE
    <3>1. /\ Cardinality(Before(frame, d)) \in Nat /\ Cardinality(Before(frame, e)) \in Nat
          /\ Cardinality(Before(frame, d)) < Cardinality(Before(frame, e))
      BY <1>1, <2>1, BeforeGrows DEF WithWindow
    <3>2. Cardinality(Before(frame, d)) >= FitWindow
      BY <1>1 DEF WithWindow
    <3>3. ~(Cardinality(Before(frame, e)) >= FitWindow)
      BY <1>3 DEF WithWindow
    <3> QED
      BY <3>1, <3>2, <3>3, ValidationAssumption
  <2> QED
    BY <1>1, <2>1
<1> QED
  BY <1>2, <1>3

-------------------------------------------------------------------------------
(***************************************************************************)
(* The inductive invariant of the record's days.  They do not depend on    *)
(* the engine's state and trades, so rows are typed without these two      *)
(* columns; RInv below adds what is said of them.                          *)
(***************************************************************************)
Columns == {"id", "status", "n", "last", "carry", "days", "trades"}

RowTyped(r) ==
  /\ DOMAIN r = Columns
  /\ r.id \in Nat /\ r.n \in Nat /\ r.last \in Nat
  /\ r.status \in Statuses
  /\ r.days \in Seq(Nat \ {0})
  /\ r.days # <<>> => r.last # 0

\* A row no write has been lost on: counter, last date and record agree.
RowWhole(r) ==
  /\ r.n = Len(r.days)
  /\ r.days = <<>> <=> r.last = 0
  /\ \A i \in DOMAIN r.days : r.days[i] <= r.last

RowFine ==
  /\ RowTyped(row)
  /\ row.status = "none" => row.days = <<>> /\ row.n = 0 /\ row.last = 0
  /\ ~torn => RowWhole(row)

CalendarFine ==
  /\ bars \in SUBSET (Nat \ {0}) /\ IsFiniteSet(bars)
  /\ today \in Nat \ {0}
  /\ \A d \in bars : d < today
  /\ born \subseteq bars
  /\ torn \in BOOLEAN

PassFields == {"pc", "op", "end", "snap", "steps", "seen", "overtaken"}

\* What a pass has in hand: rows after the date it loaded, one if there is none.
StepsFine(v) ==
  /\ v.steps \in Seq(Nat \ {0}) /\ v.steps # <<>>
  /\ \A i, j \in DOMAIN v.steps : i < j => v.steps[i] < v.steps[j]
  /\ \A i \in DOMAIN v.steps : v.snap.last < v.steps[i]
  /\ v.snap.last = 0 => Len(v.steps) = 1

SeenFine(v) ==
  /\ RowTyped(v.seen)
  /\ v.seen.status # "none"
  /\ v.seen.id = v.snap.id /\ v.seen.last = v.snap.last

PassFine(v) ==
  /\ DOMAIN v = PassFields
  /\ v.pc \in {"idle", "loaded", "fetched", "checked"}
  /\ v.overtaken \in BOOLEAN
  /\ v.pc # "idle" => v.snap.id \in Nat /\ v.snap.last \in Nat
  /\ v.pc \in {"fetched", "checked"} => StepsFine(v)
  /\ v.pc = "checked" => SeenFine(v)

\* How it stands to the row r: what it saw is still there unless overtaken.
PassAgrees(v, r) ==
  /\ v.pc # "idle" => v.snap.id <= r.id
  /\ (v.pc = "checked" /\ ~v.overtaken /\ r.status # "none" /\ r.id = v.snap.id) => r = v.seen

\* No day is older than those of b, and only the first may be one of them.
After(days, b) == \A i \in DOMAIN days, d \in b : d <= days[i] /\ (i > 1 => d < days[i])

\* Nothing in hand is older than b, the bars of the registration's day.
PassForward(v, r, b) ==
  v.snap.id = r.id =>
    /\ (v.pc # "idle" /\ v.snap.last # 0) => \A d \in b : d <= v.snap.last
    /\ v.pc \in {"fetched", "checked"} => \A i \in DOMAIN v.steps, d \in b : d <= v.steps[i]
    /\ v.pc = "checked" => After(v.seen.days, b)

PassesFine ==
  /\ pass = [p \in Passes |-> pass[p]]
  /\ \A p \in Passes :
       PassFine(pass[p]) /\ PassAgrees(pass[p], row) /\ PassForward(pass[p], row, born)

LastForward == row.last # 0 => \A d \in born : d <= row.last

IInv == RowFine /\ CalendarFine /\ PassesFine /\ NoHindsight /\ LastForward

-------------------------------------------------------------------------------
LEMMA FreshRowFine ==
  ASSUME NEW i \in Nat, NEW st \in {"none", "in_progress"}
  PROVE  LET r == FreshRow(i, st)
         IN  /\ RowTyped(r) /\ RowWhole(r)
             /\ r.id = i /\ r.status = st /\ r.n = 0 /\ r.last = 0 /\ r.days = <<>>
BY DEF FreshRow, RowTyped, RowWhole, Columns, Statuses, ActiveStatuses

LEMMA IdleFine ==
  /\ PassFine(Idle) /\ Idle.pc = "idle"
  /\ \A r, b : PassAgrees(Idle, r) /\ PassForward(Idle, r, b)
BY DEF Idle, PassFine, PassAgrees, PassForward, PassFields, SnapshotOf, NoRow, FreshRow

LEMMA InitIInv == Init => IInv
<1> SUFFICES ASSUME Init PROVE IInv
  OBVIOUS
<1>1. row = FreshRow(0, "none")
  BY DEF Init, NoRow
<1>2. RowFine /\ NoHindsight /\ LastForward
  BY <1>1, FreshRowFine DEF RowFine, NoHindsight, LastForward
<1>3. CalendarFine
  <2>1. bars = 1 .. (FirstDay - 1) /\ FirstDay \in Nat \ {0} /\ today = FirstDay /\ born = {} /\ torn = FALSE
    BY ValidationAssumption DEF Init
  <2>2. IsFiniteSet(bars)
    BY <2>1, FS_Interval
  <2>3. bars \in SUBSET (Nat \ {0}) /\ \A d \in bars : d < today
    BY <2>1
  <2> QED
    BY <2>1, <2>2, <2>3 DEF CalendarFine
<1>4. pass = [p \in Passes |-> Idle]
  BY DEF Init
<1>5. PassesFine
  BY <1>4, IdleFine DEF PassesFine
<1> QED
  BY <1>2, <1>3, <1>5 DEF IInv

-------------------------------------------------------------------------------
(***************************************************************************)
(* One lemma per action: the invariant is kept, and the step is one of     *)
(* TrackRecord's or leaves its variables alone.                            *)
(***************************************************************************)
Kept == IInv' /\ [Promise!Next]_<<row.days, row.status, ~torn>>

\* A step that changes what one pass has in hand, and nothing it is judged by.
LEMMA PassMoves ==
  ASSUME IInv, NEW p \in Passes,
         pass' = [pass EXCEPT ![p] = pass'[p]],
         PassFine(pass'[p]), PassAgrees(pass'[p], row), PassForward(pass'[p], row, born),
         UNCHANGED <<row, bars, today, born, torn>>
  PROVE  Kept
<1>1. PassesFine'
  <2>1. pass' = [q \in Passes |-> pass'[q]]
    BY DEF IInv, PassesFine
  <2>2. ASSUME NEW q \in Passes
        PROVE  PassFine(pass'[q]) /\ PassAgrees(pass'[q], row') /\ PassForward(pass'[q], row', born')
    <3>1. CASE q = p
      BY <3>1
    <3>2. CASE q # p
      <4>1. pass'[q] = pass[q]
        BY <3>2 DEF IInv, PassesFine
      <4> QED
        BY <4>1 DEF IInv, PassesFine
    <3> QED
      BY <3>1, <3>2
  <2> QED
    BY <2>1, <2>2 DEF PassesFine
<1>2. RowFine' /\ CalendarFine' /\ NoHindsight' /\ LastForward'
  BY DEF IInv, RowFine, CalendarFine, NoHindsight, LastForward
<1> QED
  BY <1>1, <1>2 DEF Kept, IInv

LEMMA PassEnds ==
  ASSUME IInv, NEW p \in Passes, pass' = [pass EXCEPT ![p] = Idle],
         UNCHANGED <<row, bars, today, born, torn>>
  PROVE  Kept
<1>1. pass'[p] = Idle
  BY DEF IInv, PassesFine
<1> QED
  BY <1>1, IdleFine, PassMoves

LEMMA LoadKept ==
  ASSUME IInv, NEW p \in Passes, NEW op \in {"tick", "backfill"}, Load(p, op)
  PROVE  Kept
<1> DEFINE v == [Idle EXCEPT !.pc = "loaded", !.op = op,
                             !.end = IF op = "tick" THEN 0 ELSE today,
                             !.snap = SnapshotOf(row)]
<1>1. pass' = [pass EXCEPT ![p] = v] /\ pass'[p] = v
  BY DEF Load, IInv, PassesFine
<1>2. v.pc = "loaded" /\ v.snap.id = row.id /\ v.snap.last = row.last /\ DOMAIN v = PassFields
        /\ v.overtaken \in BOOLEAN
  BY DEF Idle, SnapshotOf, PassFields
<1>3. row.id \in Nat /\ row.last \in Nat /\ LastForward
  BY DEF IInv, RowFine, RowTyped
<1> HIDE DEF v
<1>4. PassFine(v) /\ PassAgrees(v, row) /\ PassForward(v, row, born)
  BY <1>2, <1>3 DEF PassFine, PassAgrees, PassForward, LastForward
<1>5. UNCHANGED <<row, bars, today, born, torn>>
  BY DEF Load
<1> QED
  BY <1>1, <1>4, <1>5, PassMoves

LEMMA FetchKept ==
  ASSUME IInv, NEW p \in Passes, Fetch(p)
  PROVE  Kept
<1> DEFINE snap == pass[p].snap
           isTick == pass[p].op = "tick"
           end == IF isTick THEN today ELSE pass[p].end
           frame == Frame((IF isTick THEN end ELSE snap.last) - Window, end)
           rows == RowsToProcess(frame, snap.last, IF isTick THEN MaxCatchup ELSE Cardinality(frame))
           skip == ~isTick /\ (row.id # snap.id \/ ~Present \/ snap.last = Never \/ snap.last >= end)
           v == [pass[p] EXCEPT !.pc = "fetched", !.steps = InOrder(rows)]
<1>0. pass[p].pc = "loaded" /\ PassFine(pass[p]) /\ PassAgrees(pass[p], row)
        /\ PassForward(pass[p], row, born) /\ UNCHANGED <<row, bars, today, born, torn>>
  BY DEF Fetch, IInv, PassesFine
<1>1. CASE skip \/ rows = {}
  <2>1. pass' = [pass EXCEPT ![p] = Idle]
    BY <1>1 DEF Fetch
  <2> QED
    BY <2>1, <1>0, PassEnds
<1>2. CASE ~(skip \/ rows = {})
  <2>1. pass' = [pass EXCEPT ![p].pc = "fetched", ![p].steps = InOrder(rows)]
    BY <1>2 DEF Fetch
  <2>2. pass' = [pass EXCEPT ![p] = v] /\ pass'[p] = v
    BY <2>1 DEF IInv, PassesFine
  <2>3. frame \in SUBSET (Nat \ {0}) /\ IsFiniteSet(frame)
    <3>1. frame \subseteq bars /\ bars \in SUBSET (Nat \ {0}) /\ IsFiniteSet(bars)
      BY DEF Frame, IInv, CalendarFine
    <3> QED
      BY <3>1, FS_Subset
  <2>4. snap.last \in Nat /\ snap.id \in Nat
    BY <1>0 DEF PassFine
  <2>5. /\ rows \subseteq frame /\ IsFiniteSet(rows)
        /\ \A d \in rows : snap.last < d
        /\ snap.last = 0 => Cardinality(rows) = 1
    BY <1>2, <2>3, <2>4, RowsAreDue
  <2>6. rows \in SUBSET (Nat \ {0}) /\ rows # {}
    BY <1>2, <2>3, <2>5
  <2>7. /\ InOrder(rows) \in Seq(Nat \ {0}) /\ InOrder(rows) # <<>>
        /\ Len(InOrder(rows)) = Cardinality(rows)
        /\ \A i \in DOMAIN InOrder(rows) : InOrder(rows)[i] \in rows
        /\ \A i, j \in DOMAIN InOrder(rows) : i < j => InOrder(rows)[i] < InOrder(rows)[j]
    BY <2>5, <2>6, InOrderAscends
  <2>8. /\ v.pc = "fetched" /\ v.steps = InOrder(rows) /\ v.snap = snap
        /\ DOMAIN v = PassFields /\ v.overtaken = pass[p].overtaken
    BY <1>0 DEF PassFine, PassFields
  <2>9. ASSUME snap.id = row.id, NEW d \in rows, NEW b \in born PROVE b <= d
    <3>1. b \in bars /\ b \in Nat /\ b < today /\ d \in Nat /\ d \in frame /\ snap.last < d
      BY <2>5, <2>6 DEF IInv, CalendarFine
    <3>2. CASE snap.last # 0
      <4>1. b <= snap.last
        BY <1>0, <2>9, <3>2 DEF PassForward
      <4> QED
        BY <4>1, <3>1, <2>4
    <3>3. CASE snap.last = 0
      <4>1. isTick
        BY <1>2, <3>3
      <4>2. end = today
        BY <4>1
      <4>3. CASE b \in frame
        BY <2>3, <3>3, <4>3, FirstRowIsNewest
      <4>4. CASE b \notin frame
        <5>1. ~(today - Window <= b) /\ today - Window <= d
          BY <3>1, <4>1, <4>4 DEF Frame
        <5> QED
          BY <5>1, <3>1, ValidationAssumption DEF IInv, CalendarFine
      <4> QED
        BY <4>3, <4>4
    <3> QED
      BY <3>2, <3>3
  <2>10. StepsFine(v)
    BY <2>5, <2>7, <2>8 DEF StepsFine
  <2> HIDE DEF v
  <2>11. PassFine(v)
    <3>1. pass[p].overtaken \in BOOLEAN
      BY <1>0 DEF PassFine
    <3>2. v.overtaken \in BOOLEAN
      BY <2>8, <3>1, Zenon
    <3> QED
      BY <2>4, <2>8, <2>10, <3>2 DEF PassFine
  <2>12. PassAgrees(v, row)
    BY <1>0, <2>8 DEF PassAgrees
  <2>13. PassForward(v, row, born)
    <3>1. snap.id = row.id => \A i \in DOMAIN v.steps, d \in born : d <= v.steps[i]
      BY <2>7, <2>8, <2>9
    <3> HIDE DEF snap
    <3>2. (snap.id = row.id /\ snap.last # 0) => \A d \in born : d <= snap.last
      BY <1>0 DEF PassForward, snap
    <3> QED
      BY <2>8, <3>1, <3>2 DEF PassForward
  <2> QED
    BY <1>0, <2>2, <2>11, <2>12, <2>13, PassMoves
<1> QED
  BY <1>1, <1>2

LEMMA CheckKept ==
  ASSUME IInv, NEW p \in Passes, Check(p)
  PROVE  Kept
<1> DEFINE v == [pass[p] EXCEPT !.pc = "checked", !.seen = row]
<1>0. /\ pass[p].pc = "fetched" /\ PassFine(pass[p]) /\ PassAgrees(pass[p], row)
      /\ PassForward(pass[p], row, born) /\ UNCHANGED <<row, bars, today, born, torn>>
  BY DEF Check, IInv, PassesFine
<1>1. CASE ~(Present /\ row.id = pass[p].snap.id /\ row.last = pass[p].snap.last)
  <2>1. pass' = [pass EXCEPT ![p] = Idle]
    BY <1>1 DEF Check
  <2> QED
    BY <2>1, <1>0, PassEnds
<1>2. CASE Present /\ row.id = pass[p].snap.id /\ row.last = pass[p].snap.last
  <2>1. pass' = [pass EXCEPT ![p] = v] /\ pass'[p] = v
    BY <1>2 DEF Check, IInv, PassesFine
  <2>2. /\ v.pc = "checked" /\ v.seen = row /\ v.snap = pass[p].snap /\ v.steps = pass[p].steps
        /\ v.overtaken = pass[p].overtaken /\ DOMAIN v = PassFields
    BY <1>0 DEF PassFine, PassFields
  <2>3. v.overtaken \in BOOLEAN
    <3>1. pass[p].overtaken \in BOOLEAN
      BY <1>0 DEF PassFine
    <3> QED
      BY <2>2, <3>1, Zenon
  <2> HIDE DEF v
  <2>4. StepsFine(v) /\ SeenFine(v)
    BY <1>0, <1>2, <2>2 DEF PassFine, StepsFine, SeenFine, IInv, RowFine, Present
  <2>5. PassFine(v)
    <3>1. v.snap.id \in Nat /\ v.snap.last \in Nat
      BY <1>0, <2>2 DEF PassFine
    <3> QED
      BY <2>2, <2>3, <2>4, <3>1 DEF PassFine
  <2>6. PassAgrees(v, row) /\ PassForward(v, row, born)
    BY <1>0, <2>2 DEF PassAgrees, PassForward, IInv, NoHindsight, After
  <2> QED
    BY <1>0, <2>1, <2>5, <2>6, PassMoves
<1> QED
  BY <1>1, <1>2

(***************************************************************************)
(* The commit.                                                             *)
(***************************************************************************)

\* Passes after a write of the row: those past their check are overtaken.
LEMMA OthersOvertaken ==
  ASSUME IInv, NEW A \in SUBSET Passes,
         row'.id = row.id, UNCHANGED born,
         \A q \in Passes :
           pass'[q] = IF q \in A THEN Idle
                      ELSE [pass[q] EXCEPT !.overtaken = @ \/ pass[q].pc = "checked"],
         pass' = [q \in Passes |-> pass'[q]]
  PROVE  PassesFine'
<1> SUFFICES ASSUME NEW q \in Passes
             PROVE  PassFine(pass'[q]) /\ PassAgrees(pass'[q], row') /\ PassForward(pass'[q], row', born')
  BY DEF PassesFine
<1>1. CASE q \in A
  BY <1>1, IdleFine
<1>2. CASE q \notin A
  <2> DEFINE v == [pass[q] EXCEPT !.overtaken = @ \/ pass[q].pc = "checked"]
  <2>1. pass'[q] = v
    BY <1>2
  <2>2. PassFine(pass[q]) /\ PassAgrees(pass[q], row) /\ PassForward(pass[q], row, born)
    BY DEF IInv, PassesFine
  <2>3. /\ DOMAIN v = PassFields /\ v.pc = pass[q].pc /\ v.snap = pass[q].snap
        /\ v.steps = pass[q].steps /\ v.seen = pass[q].seen
    BY <2>2 DEF PassFine, PassFields
  <2>4. v.overtaken = (pass[q].overtaken \/ pass[q].pc = "checked")
    BY <2>2 DEF PassFine, PassFields
  <2>5. v.overtaken \in BOOLEAN /\ (v.pc = "checked" => v.overtaken)
    BY <2>3, <2>4, Zenon
  <2> HIDE DEF v
  <2>6. v.pc \in {"fetched", "checked"} => StepsFine(v)
    BY <2>2, <2>3 DEF PassFine, StepsFine
  <2>7. v.pc = "checked" => SeenFine(v)
    BY <2>2, <2>3 DEF PassFine, SeenFine
  <2>8. v.pc \in {"idle", "loaded", "fetched", "checked"}
          /\ (v.pc # "idle" => v.snap.id \in Nat /\ v.snap.last \in Nat)
    BY <2>2, <2>3 DEF PassFine
  <2>9. PassFine(v)
    BY <2>3, <2>5, <2>6, <2>7, <2>8 DEF PassFine
  <2>10. PassAgrees(v, row')
    BY <2>2, <2>3, <2>5 DEF PassAgrees
  <2>11. PassForward(v, row', born')
    BY <2>2, <2>3 DEF PassForward
  <2> QED
    BY <2>1, <2>9, <2>10, <2>11
<1> QED
  BY <1>1, <1>2

LEMMA ConcatParts ==
  ASSUME NEW x \in Seq(Nat \ {0}), NEW y \in Seq(Nat \ {0}), NEW z, z = x \o y
  PROVE  /\ z \in Seq(Nat \ {0})
         /\ Len(z) = Len(x) + Len(y) /\ Len(x) \in Nat /\ Len(y) \in Nat
         /\ DOMAIN x = 1 .. Len(x) /\ DOMAIN y = 1 .. Len(y) /\ DOMAIN z = 1 .. Len(z)
         /\ \A i \in 1 .. Len(x) : z[i] = x[i]
         /\ \A i \in 1 .. Len(z) :
              i > Len(x) => i - Len(x) \in 1 .. Len(y) /\ z[i] = y[i - Len(x)]
OBVIOUS

\* The sum is After a set when its parts are: the second strictly, or as one
\* single day.
LEMMA ConcatForward ==
  ASSUME NEW x \in Seq(Nat \ {0}), NEW y \in Seq(Nat \ {0}), NEW z, z = x \o y, NEW B,
         After(x, B),
         \A i \in DOMAIN y, d \in B : d <= y[i],
         \/ x = <<>> /\ Len(y) = 1
         \/ \A i \in DOMAIN y, d \in B : d < y[i]
  PROVE  After(z, B)
<1> SUFFICES ASSUME NEW i \in 1 .. Len(z), NEW d \in B PROVE d <= z[i] /\ (i > 1 => d < z[i])
  BY ConcatParts DEF After
<1>1. Len(x) \in Nat /\ Len(z) \in Nat
  BY ConcatParts
<1>2. CASE i <= Len(x)
  <2>1. i \in 1 .. Len(x)
    BY <1>1, <1>2
  <2>2. d <= x[i] /\ (i > 1 => d < x[i])
    BY <2>1, ConcatParts DEF After
  <2> QED
    BY <2>1, <2>2, ConcatParts
<1>3. CASE i > Len(x)
  <2>1. i - Len(x) \in DOMAIN y /\ z[i] = y[i - Len(x)]
    BY <1>3, ConcatParts
  <2>2. d <= z[i]
    BY <2>1
  <2>3. CASE x = <<>> /\ Len(y) = 1
    <3>1. Len(x) = 0 /\ Len(z) = Len(x) + Len(y)
      BY <2>3, ConcatParts
    <3>2. i = 1
      <4>1. Len(x) + Len(y) = 1
        BY <2>3, <3>1
      <4>2. i \in 1 .. (Len(x) + Len(y))
        BY <3>1, Zenon
      <4> QED
        BY <4>1, <4>2
    <3> QED
      BY <2>2, <3>2
  <2>4. CASE \A j \in DOMAIN y, e \in B : e < y[j]
    BY <2>1, <2>2, <2>4
  <2> QED
    BY <2>3, <2>4
<1> QED
  BY <1>1, <1>2, <1>3

\* Ascending days, all after the last of a record ...
Due(x, y, last) ==
  /\ x \in Seq(Nat \ {0}) /\ y \in Seq(Nat \ {0}) /\ y # <<>> /\ last \in Nat
  /\ x = <<>> <=> last = 0
  /\ \A i \in DOMAIN x : x[i] <= last
  /\ \A i \in DOMAIN y : last < y[i]
  /\ \A i, j \in DOMAIN y : i < j => y[i] < y[j]
  /\ last = 0 => Len(y) = 1

\* ... extend it in order.
Extended(x, y, z) ==
  /\ Len(z) > Len(x) /\ z # <<>> /\ Len(z) = Len(x) + Len(y)
  /\ \A i \in DOMAIN x : z[i] = x[i]
  /\ \A i, j \in DOMAIN z : (i < j /\ j > Len(x)) => z[i] < z[j]
  /\ \A i \in DOMAIN z : z[i] <= y[Len(y)]
  /\ x = <<>> => Len(z) = 1

\* The same of functions, without the theory of sequences in sight.
Joined(m, n, x, y, z, last) ==
  /\ m \in Nat /\ n \in Nat \ {0} /\ last \in Nat
  /\ \A i \in 1 .. m : x[i] \in Nat
  /\ \A i \in 1 .. m : x[i] <= last
  /\ \A i \in 1 .. m : z[i] = x[i]
  /\ \A i \in 1 .. n : y[i] \in Nat
  /\ \A i \in 1 .. n : last < y[i]
  /\ \A i, j \in 1 .. n : i < j => y[i] < y[j]
  /\ \A i \in 1 .. (m + n) : i > m => i - m \in 1 .. n /\ z[i] = y[i - m]

LEMMA JoinAscends ==
  ASSUME NEW m, NEW n, NEW x, NEW y, NEW z, NEW last, Joined(m, n, x, y, z, last)
  PROVE  /\ \A i, j \in 1 .. (m + n) : (i < j /\ j > m) => z[i] < z[j]
         /\ \A i \in 1 .. (m + n) : z[i] <= y[n]
<1> USE DEF Joined
<1>1. ASSUME NEW i \in 1 .. (m + n), NEW j \in 1 .. (m + n), i < j, j > m
      PROVE  z[i] < z[j]
  <2>1. j - m \in 1 .. n /\ z[j] = y[j - m] /\ y[j - m] \in Nat /\ last < y[j - m]
    BY <1>1
  <2>2. CASE i <= m
    <3>1. i \in 1 .. m
      BY <2>2
    <3>2. z[i] \in Nat /\ z[i] <= last
      BY <3>1
    <3> QED
      BY <2>1, <3>2
  <2>3. CASE i > m
    <3>1. i - m \in 1 .. n /\ z[i] = y[i - m]
      BY <2>3
    <3>2. i - m < j - m
      BY <1>1
    <3>3. y[i - m] < y[j - m]
      BY <2>1, <3>1, <3>2
    <3> QED
      BY <2>1, <3>1, <3>3
  <2> QED
    BY <2>2, <2>3
<1>2. z[m + n] = y[n] /\ m + n \in 1 .. (m + n) /\ y[n] \in Nat
  <2>1. m + n \in 1 .. (m + n) /\ m + n > m /\ (m + n) - m = n /\ n \in 1 .. n
    BY SMT
  <2> QED
    BY <2>1
<1>3. ASSUME NEW i \in 1 .. (m + n) PROVE z[i] <= y[n]
  <2>1. CASE i = m + n
    BY <1>2, <2>1
  <2>2. CASE i < m + n
    <3>1. z[i] < z[m + n]
      BY <1>1, <1>2, <2>2
    <3>2. z[i] \in Nat
      <4>1. CASE i <= m
        BY <4>1
      <4>2. CASE i > m
        BY <4>2
      <4> QED
        BY <4>1, <4>2
    <3> QED
      BY <1>2, <3>1, <3>2
  <2> QED
    BY <2>1, <2>2
<1> QED
  BY <1>1, <1>3

LEMMA RecordExtended ==
  ASSUME NEW x, NEW y, NEW z, NEW last, z = x \o y, Due(x, y, last)
  PROVE  Extended(x, y, z)
<1>1. x \in Seq(Nat \ {0}) /\ y \in Seq(Nat \ {0}) /\ y # <<>> /\ last \in Nat
  BY DEF Due
<1>2. /\ z \in Seq(Nat \ {0})
      /\ Len(z) = Len(x) + Len(y) /\ Len(x) \in Nat /\ Len(y) \in Nat
      /\ DOMAIN x = 1 .. Len(x) /\ DOMAIN y = 1 .. Len(y) /\ DOMAIN z = 1 .. Len(z)
      /\ \A i \in 1 .. Len(x) : z[i] = x[i]
      /\ \A i \in 1 .. Len(z) :
           i > Len(x) => i - Len(x) \in 1 .. Len(y) /\ z[i] = y[i - Len(x)]
  BY <1>1, ConcatParts
<1>3. Len(y) \in Nat \ {0}
  BY <1>1
<1>4. /\ \A i \in 1 .. Len(x) : x[i] \in Nat
      /\ \A i \in 1 .. Len(y) : y[i] \in Nat
  BY <1>1
<1>5. /\ \A i \in 1 .. Len(x) : x[i] <= last
      /\ \A i \in 1 .. Len(y) : last < y[i]
      /\ \A i, j \in 1 .. Len(y) : i < j => y[i] < y[j]
  BY <1>2 DEF Due
<1>6. /\ \A i, j \in 1 .. (Len(x) + Len(y)) : (i < j /\ j > Len(x)) => z[i] < z[j]
      /\ \A i \in 1 .. (Len(x) + Len(y)) : z[i] <= y[Len(y)]
  <2>1. Joined(Len(x), Len(y), x, y, z, last)
    BY <1>1, <1>2, <1>3, <1>4, <1>5, Zenon DEF Joined
  <2> QED
    BY <2>1, JoinAscends
<1>7. x = <<>> => Len(z) = 1
  BY <1>2 DEF Due
<1>8. Len(z) > Len(x) /\ z # <<>>
  BY <1>2, <1>3
<1> QED
  BY <1>2, <1>6, <1>7, <1>8 DEF Extended

\* What is assigned: the record as seen, and the steps after it.
Assigned(a, seen, steps) ==
  /\ DOMAIN a = Columns
  /\ a.id = seen.id
  /\ a.n = seen.n + Len(steps) /\ a.n \in Nat
  /\ a.last = steps[Len(steps)] /\ a.last \in Nat \ {0}
  /\ a.days = seen.days \o steps /\ a.days \in Seq(Nat \ {0})
  /\ a.status = IF seen.status = "in_progress" /\ a.n >= Threshold
                THEN "forward_validated" ELSE seen.status
  /\ a.status \in Statuses

LEMMA AppliedSteps ==
  ASSUME NEW seen, NEW steps, NEW snap, NEW a, a = ApplyForwardSteps(snap, seen, steps),
         RowTyped(seen), steps \in Seq(Nat \ {0}), steps # <<>>
  PROVE  Assigned(a, seen, steps)
<1>1. Len(steps) \in Nat \ {0} /\ steps[Len(steps)] \in Nat \ {0}
  OBVIOUS
<1>2. seen.n \in Nat /\ seen.days \in Seq(Nat \ {0}) /\ seen.status \in Statuses /\ DOMAIN seen = Columns
  BY DEF RowTyped
<1>3. DOMAIN a = Columns
  BY <1>2 DEF ApplyForwardSteps
<1>4. a.id = seen.id /\ a.n = seen.n + Len(steps)
  BY <1>2 DEF ApplyForwardSteps, Columns
<1>5. a.last = steps[Len(steps)]
  BY <1>2 DEF ApplyForwardSteps, Columns, Last
<1>6. a.days = seen.days \o steps
  BY <1>2 DEF ApplyForwardSteps, Columns
<1>7. a.status = IF seen.status = "in_progress" /\ seen.n + Len(steps) >= Threshold
                 THEN "forward_validated" ELSE seen.status
  BY <1>2 DEF ApplyForwardSteps, Columns
<1>8. a.status \in Statuses
  BY <1>2, <1>7 DEF Statuses, ActiveStatuses
<1>9. a.n \in Nat
  BY <1>1, <1>2, <1>4
<1>10. a.days \in Seq(Nat \ {0})
  BY <1>2, <1>6, ConcatParts
<1> QED
  BY <1>1, <1>3, <1>4, <1>5, <1>6, <1>7, <1>8, <1>9, <1>10 DEF Assigned

LEMMA CommitKept ==
  ASSUME IInv, NEW p \in Passes, Commit(p)
  PROVE  Kept
<1> DEFINE s == pass[p]
           written == Present /\ row.id = s.snap.id
           a == ApplyForwardSteps(s.snap, s.seen, s.steps)
<1>0. /\ s.pc = "checked" /\ PassFine(s) /\ PassAgrees(s, row) /\ PassForward(s, row, born)
      /\ UNCHANGED <<bars, today, born>>
  BY DEF Commit, IInv, PassesFine
<1>1. CASE ~written
  <2>1. pass' = [pass EXCEPT ![p] = Idle] /\ row' = row
    BY <1>1 DEF Commit
  <2>2. torn' = torn
    <3>1. torn' = (torn \/ (written /\ s.overtaken))
      BY DEF Commit
    <3>2. torn \in BOOLEAN
      BY DEF IInv, CalendarFine
    <3> QED
      BY <1>1, <3>1, <3>2, Zenon
  <2> QED
    BY <2>1, <2>2, <1>0, PassEnds
<1>2. CASE written
  <2>1. StepsFine(s) /\ SeenFine(s) /\ RowTyped(s.seen) /\ RowTyped(row)
    BY <1>0 DEF PassFine, SeenFine, IInv, RowFine
  <2>2. s.steps \in Seq(Nat \ {0}) /\ s.steps # <<>>
    BY <2>1 DEF StepsFine
  <2>3. Assigned(a, s.seen, s.steps)
    BY <2>1, <2>2, AppliedSteps
  <2>4. row' = [c \in DOMAIN row |-> IF a[c] = s.seen[c] THEN row[c] ELSE a[c]]
    BY <1>2 DEF Commit, Flush
  <2> HIDE DEF a, s
  <2>5. /\ DOMAIN row' = Columns
        /\ \A c \in Columns : row'[c] \in {row[c], a[c]}
        /\ row = s.seen => \A c \in Columns : row'[c] = a[c]
    BY <2>1, <2>4 DEF RowTyped
  <2>6. /\ row'.id \in {row.id, a.id} /\ row'.n \in {row.n, a.n} /\ row'.last \in {row.last, a.last}
        /\ row'.days \in {row.days, a.days} /\ row'.status \in {row.status, a.status}
    BY <2>5 DEF Columns
  <2>7. row'.id = row.id
    BY <1>2, <2>1, <2>3, <2>6 DEF SeenFine, Assigned
  <2>a. row'.last # 0
    <3>1. s.snap.last < s.steps[Len(s.steps)] /\ s.snap.last \in Nat
      BY <1>0, <2>1, <2>2 DEF StepsFine, PassFine
    <3>2. a.last # s.seen.last /\ a.last # 0
      BY <2>1, <2>3, <3>1 DEF SeenFine, Assigned
    <3> QED
      BY <2>1, <2>4, <3>2 DEF RowTyped, Columns
  <2>8. RowTyped(row') /\ row'.status # "none"
    BY <1>2, <2>1, <2>3, <2>5, <2>6, <2>a DEF RowTyped, SeenFine, Present, Assigned
  <2>9. torn' = (torn \/ s.overtaken)
    BY <1>2 DEF Commit, s
  <2>10. After(a.days, born)
    <3>1. /\ \A i \in DOMAIN s.steps, d \in born : d <= s.steps[i]
          /\ After(s.seen.days, born)
      BY <1>0, <1>2 DEF PassForward
    <3>2. s.seen.days \in Seq(Nat \ {0})
      BY <2>1 DEF RowTyped
    <3>3. a.days = s.seen.days \o s.steps
      BY <2>3 DEF Assigned
    <3>4. CASE s.snap.last = 0
      <4>1. s.seen.days = <<>> /\ Len(s.steps) = 1
        BY <2>1, <3>4 DEF StepsFine, SeenFine, RowTyped
      <4> QED
        BY <2>2, <3>1, <3>2, <3>3, <4>1, ConcatForward
    <3>5. CASE s.snap.last # 0
      <4>1. /\ \A d \in born : d <= s.snap.last
            /\ \A i \in DOMAIN s.steps : s.snap.last < s.steps[i]
        BY <1>0, <1>2, <2>1, <3>5 DEF PassForward, StepsFine
      <4>2. born \subseteq Nat /\ s.snap.last \in Nat /\ \A i \in DOMAIN s.steps : s.steps[i] \in Nat
        BY <1>0, <2>2 DEF IInv, CalendarFine, PassFine
      <4>3. \A i \in DOMAIN s.steps, d \in born : d < s.steps[i]
        BY <4>1, <4>2
      <4> QED
        BY <2>2, <3>1, <3>2, <3>3, <4>3, ConcatForward
    <3> QED
      BY <3>4, <3>5
  <2>11. \A d \in born : d <= a.last
    <3>1. \A i \in DOMAIN s.steps, d \in born : d <= s.steps[i]
      BY <1>0, <1>2 DEF PassForward
    <3> QED
      BY <2>2, <2>3, <3>1 DEF Assigned
  <2>12. NoHindsight' /\ LastForward'
    BY <1>0, <2>6, <2>10, <2>11 DEF IInv, NoHindsight, LastForward, After
  <2>13. CalendarFine'
    <3>1. torn' \in BOOLEAN
      BY <2>9, Zenon
    <3> QED
      BY <1>0, <3>1 DEF IInv, CalendarFine
  <2>14. PassesFine'
    <3>1. pass' = Overtaking(p)
      BY <1>2 DEF Commit, s
    <3>2. /\ pass' = [q \in Passes |-> pass'[q]]
          /\ \A q \in Passes :
               pass'[q] = IF q \in {p} THEN Idle
                          ELSE [pass[q] EXCEPT !.overtaken = @ \/ pass[q].pc = "checked"]
      BY <3>1 DEF Overtaking
    <3> QED
      BY <1>0, <2>7, <3>2, OthersOvertaken
  <2>15. ASSUME ~torn' PROVE RowWhole(row') /\ Promise!Count
    <3>1. ~torn /\ ~s.overtaken
      BY <2>9, <2>15, Zenon
    <3>2. row = s.seen
      BY <1>0, <1>2, <3>1 DEF PassAgrees, Present
    <3>3. /\ row'.days = a.days /\ row'.n = a.n /\ row'.last = a.last /\ row'.status = a.status
      BY <2>5, <3>2 DEF Columns
    <3>4. RowWhole(row) /\ row.last = s.snap.last
      BY <2>1, <3>1, <3>2 DEF IInv, RowFine, SeenFine
    <3> DEFINE x == row.days
               y == s.steps
               z == row'.days
               l == row.last
    <3>5. x \in Seq(Nat \ {0}) /\ y \in Seq(Nat \ {0}) /\ y # <<>> /\ l \in Nat
      BY <2>1, <2>2 DEF RowTyped
    <3>a. z = x \o y
      BY <2>3, <3>2, <3>3 DEF Assigned
    <3>6. (x = <<>> <=> l = 0) /\ \A i \in DOMAIN x : x[i] <= l
      BY <3>4 DEF RowWhole
    <3>7. /\ \A i, j \in DOMAIN y : i < j => y[i] < y[j]
          /\ \A i \in DOMAIN y : l < y[i]
          /\ l = 0 => Len(y) = 1
      BY <2>1, <3>4 DEF StepsFine
    <3> HIDE DEF x, y, z, l
    <3>b. Due(x, y, l)
      BY <3>5, <3>6, <3>7 DEF Due
    <3>8. Extended(x, y, z)
      BY <3>a, <3>b, RecordExtended
    <3>9. row'.n = Len(z)
      <4>1. row'.n = row.n + Len(y) /\ row.n = Len(x)
        BY <2>3, <3>2, <3>3, <3>4 DEF RowWhole, Assigned, x, y
      <4> QED
        BY <3>8, <4>1 DEF Extended
    <3>10. row'.last = y[Len(y)] /\ row'.last # 0
      BY <2>3, <3>3 DEF Assigned, y
    <3>11. RowWhole(row')
      BY <3>8, <3>9, <3>10 DEF Extended, RowWhole, z
    <3>12. row'.status = Promise!Graduated(row.status, row'.days)
      <4>1. row'.status = IF row.status = "in_progress" /\ row'.n >= Threshold
                          THEN "forward_validated" ELSE row.status
        BY <2>3, <3>2, <3>3 DEF Assigned
      <4> QED
        BY <3>9, <4>1 DEF Promise!Graduated, z
    <3>13. row.status # "none"
      BY <1>2 DEF Present
    <3> QED
      BY <3>8, <3>11, <3>12, <3>13 DEF Extended, Promise!Count, x, z
  <2>16. RowFine'
    BY <2>8, <2>15 DEF RowFine
  <2>17. Promise!Next
    <3>1. CASE torn'
      BY <3>1 DEF Promise!Next
    <3>2. CASE ~torn'
      <4>1. (~torn)' = ~torn
        BY <2>9, <3>2
      <4> QED
        BY <2>15, <3>2, <4>1 DEF Promise!Next, Promise!Promised
    <3> QED
      BY <3>1, <3>2
  <2> QED
    BY <2>12, <2>13, <2>14, <2>16, <2>17 DEF Kept, IInv
<1> QED
  BY <1>1, <1>2

LEMMA AbandonKept ==
  ASSUME IInv, NEW p \in Passes, Abandon(p)
  PROVE  Kept
BY PassEnds DEF Abandon

(***************************************************************************)
(* The owner, the calendar and the data provider.                          *)
(***************************************************************************)
LEMMA ParkKept ==
  ASSUME IInv, Park
  PROVE  Kept
<1>1. /\ row.status \in ActiveStatuses /\ row' = [row EXCEPT !.status = "underperforming"]
      /\ UNCHANGED <<bars, today, born, torn>>
  BY DEF Park
<1>2. RowFine /\ RowTyped(row)
  BY DEF IInv, RowFine
<1>3. /\ row'.id = row.id /\ row'.n = row.n /\ row'.last = row.last /\ row'.days = row.days
      /\ row'.status = "underperforming" /\ DOMAIN row' = Columns
  BY <1>1, <1>2 DEF RowTyped, Columns
<1>4. RowFine'
  BY <1>1, <1>2, <1>3 DEF RowFine, RowTyped, RowWhole, Statuses
<1>5. CalendarFine' /\ NoHindsight' /\ LastForward'
  BY <1>1, <1>3 DEF IInv, CalendarFine, NoHindsight, LastForward
<1>6. PassesFine'
  <2> DEFINE A == {}
  <2>1. /\ pass' = [q \in Passes |-> pass'[q]] /\ A \in SUBSET Passes
        /\ \A q \in Passes :
             pass'[q] = IF q \in A THEN Idle
                        ELSE [pass[q] EXCEPT !.overtaken = @ \/ pass[q].pc = "checked"]
    BY DEF Park
  <2> HIDE DEF A
  <2> QED
    BY <1>1, <1>3, <2>1, OthersOvertaken
<1>7. Promise!Next
  <2>1. (~torn)' = ~torn
    BY <1>1
  <2>2. Promise!Park
    BY <1>1, <1>3 DEF Promise!Park, Promise!Active, ActiveStatuses
  <2> QED
    BY <2>1, <2>2 DEF Promise!Next, Promise!Promised
<1> QED
  BY <1>4, <1>5, <1>6, <1>7 DEF Kept, IInv

\* The row is replaced by a fresh one: with no status, or with the next id.
LEMMA FreshKept ==
  ASSUME IInv, NEW id \in Nat, NEW st \in {"none", "in_progress"},
         row' = FreshRow(id, st),
         \/ id = row.id /\ st = "none" /\ born' = born
         \/ id = row.id + 1 /\ born' \subseteq bars,
         UNCHANGED <<bars, today, pass, torn>>
  PROVE  IInv' /\ row'.days = <<>> /\ row'.status = st
<1>1. /\ RowTyped(row') /\ RowWhole(row') /\ row'.id = id /\ row'.status = st
      /\ row'.n = 0 /\ row'.last = 0 /\ row'.days = <<>>
  BY FreshRowFine
<1>2. RowFine' /\ NoHindsight' /\ LastForward'
  BY <1>1 DEF RowFine, NoHindsight, LastForward
<1>3. CalendarFine'
  BY DEF IInv, CalendarFine
<1>4. PassesFine'
  <2>1. ASSUME NEW q \in Passes
        PROVE  PassFine(pass[q]) /\ PassAgrees(pass[q], row') /\ PassForward(pass[q], row', born')
    <3> DEFINE v == pass[q]
    <3>1. PassFine(v) /\ PassAgrees(v, row) /\ PassForward(v, row, born)
      BY DEF IInv, PassesFine
    <3>2. row.id \in Nat /\ (v.pc # "idle" => v.snap.id \in Nat)
      BY <3>1 DEF PassFine, IInv, RowFine, RowTyped
    <3>3. CASE id = row.id /\ st = "none" /\ born' = born
      BY <1>1, <3>1, <3>3 DEF PassAgrees, PassForward
    <3>4. CASE id = row.id + 1
      <4> HIDE DEF v
      <4>1. v.pc # "idle" => v.snap.id # row'.id /\ v.snap.id <= row'.id
        BY <1>1, <3>1, <3>2, <3>4 DEF PassAgrees
      <4>2. PassAgrees(v, row') /\ PassForward(v, row', born')
        BY <4>1 DEF PassAgrees, PassForward
      <4> QED
        BY <3>1, <4>2 DEF v
    <3> QED
      BY <3>3, <3>4
  <2> QED
    BY <2>1 DEF PassesFine, IInv
<1> QED
  BY <1>1, <1>2, <1>3, <1>4 DEF IInv

LEMMA DeleteKept ==
  ASSUME IInv, Delete
  PROVE  Kept
<1>1. row.id \in Nat
  BY DEF IInv, RowFine, RowTyped
<1>2. row' = FreshRow(row.id, "none") /\ row.status # "none" /\ UNCHANGED <<bars, today, pass, born, torn>>
  BY DEF Delete, Present
<1>3. IInv' /\ row'.days = <<>> /\ row'.status = "none"
  BY <1>1, <1>2, FreshKept
<1>4. (~torn)' = ~torn
  BY <1>2
<1> QED
  BY <1>2, <1>3, <1>4 DEF Kept, Promise!Next, Promise!Promised, Promise!Withdraw

LEMMA RegisterKept ==
  ASSUME IInv, Register
  PROVE  Kept
<1>1. row.id \in Nat /\ row.id + 1 \in Nat
  BY DEF IInv, RowFine, RowTyped
<1>2. /\ row' = FreshRow(row.id + 1, "in_progress") /\ row.status = "none" /\ born' = bars
      /\ UNCHANGED <<bars, today, pass, torn>>
  BY DEF Register, Present
<1>3. IInv' /\ row'.days = <<>> /\ row'.status = "in_progress"
  BY <1>1, <1>2, FreshKept
<1>4. (~torn)' = ~torn
  BY <1>2
<1> QED
  BY <1>2, <1>3, <1>4 DEF Kept, Promise!Next, Promise!Promised, Promise!Begin

\* A step of the calendar leaves rows and passes alone.
LEMMA CalendarKept ==
  ASSUME IInv, CalendarFine', UNCHANGED <<row, pass, born, torn>>
  PROVE  Kept
<1>1. RowFine' /\ NoHindsight' /\ LastForward'
  BY DEF IInv, RowFine, NoHindsight, LastForward
<1>2. PassesFine'
  BY DEF IInv, PassesFine
<1> QED
  BY <1>1, <1>2 DEF Kept, IInv

LEMMA DayPassesKept ==
  ASSUME IInv, DayPasses
  PROVE  Kept
<1>1. CalendarFine'
  <2>1. CalendarFine /\ today' = today + 1 /\ bars' \in {bars, bars \cup {today}} /\ UNCHANGED <<born, torn>>
    BY DEF IInv, DayPasses
  <2>2. IsFiniteSet(bars')
    BY <2>1, FS_AddElement DEF CalendarFine
  <2> QED
    BY <2>1, <2>2 DEF CalendarFine
<1> QED
  BY <1>1, CalendarKept DEF DayPasses

LEMMA PublishKept ==
  ASSUME IInv, NEW d \in 1 .. LastDay, Publish(d)
  PROVE  Kept
<1>1. CalendarFine'
  <2>1. CalendarFine /\ bars' = bars \cup {d} /\ d < today /\ UNCHANGED <<today, born, torn>>
    BY DEF IInv, Publish
  <2>2. IsFiniteSet(bars')
    BY <2>1, FS_AddElement DEF CalendarFine
  <2>3. d \in Nat \ {0}
    BY ValidationAssumption
  <2> QED
    BY <2>1, <2>2, <2>3 DEF CalendarFine
<1> QED
  BY <1>1, CalendarKept DEF Publish

-------------------------------------------------------------------------------
LEMMA NextKept == IInv /\ [Next]_vars => Kept
<1> SUFFICES ASSUME IInv, [Next]_vars PROVE Kept
  OBVIOUS
<1>1. CASE UNCHANGED vars
  <2>1. UNCHANGED <<row, bars, today, pass, born, torn>>
    BY <1>1 DEF vars
  <2>2. CalendarFine'
    BY <2>1 DEF IInv, CalendarFine
  <2> QED
    BY <2>1, <2>2, CalendarKept
<1>2. ASSUME NEW p \in Passes, PassStep(p) PROVE Kept
  BY <1>2, LoadKept, FetchKept, CheckKept, CommitKept, AbandonKept DEF PassStep
<1>3. ASSUME NEW d \in 1 .. LastDay, Publish(d) PROVE Kept
  BY <1>3, PublishKept
<1> QED
  BY <1>1, <1>2, <1>3, ParkKept, DeleteKept, RegisterKept, DayPassesKept DEF Next

\* The record a reader of the registration sees is TrackRecord's: it begins
\* with one day, grows at its end and in order, and the status follows it,
\* through ticks, backfills, crashes, deletions and fresh registrations of
\* any number of passes (forward_validation_runner.py, apply_forward_steps).
THEOREM RecordImplementsPromise == Spec => TrackRecordKept
<1>1. Init => Promise!Init
  BY DEF Init, Promise!Init, NoRow, FreshRow
<1>2. IInv /\ [Next]_vars => IInv' /\ [Promise!Next]_<<row.days, row.status, ~torn>>
  BY NextKept DEF Kept
<1> QED
  BY <1>1, <1>2, InitIInv, PTL DEF Spec, TrackRecordKept, Promise!Spec

\* No registration's record holds a day older than a bar that was published
\* when it was registered, and only its first day may be such a bar itself
\* (rows_to_process: the newest row alone on the first tick ever).
THEOREM RecordHasNoHindsight == Spec => []NoHindsight
<1>1. IInv /\ [Next]_vars => IInv'
  BY NextKept DEF Kept
<1>2. IInv => NoHindsight
  BY DEF IInv
<1> QED
  BY <1>1, <1>2, InitIInv, PTL DEF Spec

-------------------------------------------------------------------------------
(***************************************************************************)
(* The walk-forward engine.  Its run through a sequence of days is a fold; *)
(* WalkUnfolds states it as a table of the states after each day, shown to *)
(* exist by induction over the size of the prefixes, and everything said   *)
(* of a run rests on that table.                                           *)
(***************************************************************************)
\* Induction over the naturals, of a set in place of a predicate.
LEMMA NatInductionBySet ==
  ASSUME NEW S \in SUBSET Nat, 0 \in S, \A n \in S : n + 1 \in S
  PROVE  S = Nat
<1> DEFINE R == OpToRel(<, Nat)
<1>1. IsWellFoundedOn(R, Nat)  BY NatLessThanWellFounded
<1>2. \A x, y \in Nat : y < x => <<y, x>> \in R  BY DEF OpToRel
<1> HIDE DEF R
<1>3. SUFFICES ASSUME Nat \ S # {} PROVE FALSE  OBVIOUS
<1>4. PICK m \in Nat \ S : \A y \in Nat \ S : ~ (<<y, m>> \in R)
  BY <1>1, <1>3, WFMin
<1>5. m # 0 /\ m - 1 \in Nat /\ m - 1 < m  OBVIOUS
<1>6. m - 1 \in S  BY <1>2, <1>4, <1>5
<1>7. (m - 1) + 1 \in S  BY <1>6
<1> QED  BY <1>7, <1>5


LEMMA MaxOfFinite ==
  ASSUME NEW n \in Nat, NEW T \in SUBSET (1 .. n), T # {}
  PROVE  Max(T) \in T /\ \A y \in T : Max(T) >= y
<1> DEFINE N == {m \in Nat : \A S \in SUBSET (1 .. m) : S # {} => \E x \in S : \A y \in S : x >= y}
<1>1. 0 \in N
  <2>1. 1 .. 0 = {} OBVIOUS
  <2> QED BY <2>1
<1>2. ASSUME NEW m \in N PROVE m + 1 \in N
  <2>1. ASSUME NEW S \in SUBSET (1 .. m + 1), S # {}
        PROVE  \E x \in S : \A y \in S : x >= y
    <3>1. CASE m + 1 \in S
      <4>1. \A y \in S : m + 1 >= y OBVIOUS
      <4> QED BY <3>1, <4>1
    <3>2. CASE m + 1 \notin S
      <4>1. S \in SUBSET (1 .. m)
        <5>1. \A y \in S : y \in 1 .. m + 1 /\ y # m + 1 BY <3>2
        <5> QED BY <5>1
      <4> QED BY <2>1, <4>1
    <3> QED BY <3>1, <3>2
  <2> QED BY <2>1
<1>3. N = Nat
  <2>1. N \subseteq Nat OBVIOUS
  <2> HIDE DEF N
  <2> QED BY <1>1, <1>2, <2>1, NatInductionBySet
<1>4. \E x \in T : \A y \in T : x >= y BY <1>3
<1> QED BY <1>4 DEF Max

WalkTable(it, start, days, rd, n) ==
  \A T \in SUBSET (1 .. n) :
    it[T] = IF T = {} THEN start
            ELSE StepOneDay(it[T \ {Max(T)}], days[Max(T)], rd[days[Max(T)]])

LEMMA WalkIterates ==
  ASSUME NEW start, NEW days, NEW rd, NEW n \in Nat, DOMAIN days = 1 .. n
  PROVE  \E it : /\ WalkTable(it, start, days, rd, n)
                 /\ WalkThrough(start, days, rd) = it[1 .. n]
<1> DEFINE S == 1 .. n
           Upto(m) == {T \in SUBSET S : Cardinality(T) <= m}
           Step(it, T) == IF T = {} THEN start
                          ELSE StepOneDay(it[T \ {Max(T)}], days[Max(T)], rd[days[Max(T)]])
           N == {m \in Nat : \E it : it = [T \in Upto(m) |-> Step(it, T)]}
<1>0. IsFiniteSet(S) BY FS_Interval
<1>1. \A T \in SUBSET S : IsFiniteSet(T) /\ Cardinality(T) \in Nat
  BY <1>0, FS_Subset, FS_CardinalityType
<1>2. \A T \in SUBSET S : T # {} => /\ Max(T) \in T
                                    /\ T \ {Max(T)} \in SUBSET S
                                    /\ Cardinality(T \ {Max(T)}) = Cardinality(T) - 1
  <2> SUFFICES ASSUME NEW T \in SUBSET S, T # {}
               PROVE  Max(T) \in T /\ Cardinality(T \ {Max(T)}) = Cardinality(T) - 1
    OBVIOUS
  <2>1. Max(T) \in T BY MaxOfFinite
  <2> QED BY <1>1, <2>1, FS_RemoveElement
<1>3. 0 \in N
  <2>1. \A T \in Upto(0) : T = {} BY <1>1, FS_EmptySet
  <2> DEFINE it0 == [T \in Upto(0) |-> start]
  <2>2. it0 = [T \in Upto(0) |-> Step(it0, T)] BY <2>1
  <2> QED BY <2>2
<1>4. ASSUME NEW m \in N PROVE m + 1 \in N
  <2>1. PICK it : it = [T \in Upto(m) |-> Step(it, T)] OBVIOUS
  <2> DEFINE next == [T \in Upto(m + 1) |-> Step(it, T)]
  <2>2. \A T \in Upto(m) : T \in Upto(m + 1) /\ it[T] = Step(it, T)
    <3>1. \A T \in Upto(m) : T \in Upto(m + 1) BY <1>1
    <3> HIDE DEF Upto, Step
    <3> QED BY <2>1, <3>1
  <2>3. \A T \in Upto(m) : next[T] = it[T]
    <3> HIDE DEF Upto, Step
    <3> QED BY <2>2
  <2>4. \A T \in Upto(m + 1) : T # {} => T \ {Max(T)} \in Upto(m) BY <1>1, <1>2
  <2>5. \A T \in Upto(m + 1) : Step(it, T) = Step(next, T)
    <3> HIDE DEF Upto, next
    <3> QED BY <2>3, <2>4
  <2>6. next = [T \in Upto(m + 1) |-> Step(next, T)]
    <3>1. next = [T \in Upto(m + 1) |-> Step(it, T)] OBVIOUS
    <3> HIDE DEF Upto, next, Step
    <3> QED BY <2>5, <3>1
  <2>7. m + 1 \in Nat OBVIOUS
  <2> HIDE DEF Upto, Step
  <2> QED BY <2>6, <2>7
<1>5. Cardinality(S) \in N
  <2> HIDE DEF N
  <2>1. N \subseteq Nat BY DEF N
  <2>2. N = Nat BY <2>1, <1>3, <1>4, NatInductionBySet
  <2> QED BY <1>1, <2>2
<1>6. Upto(Cardinality(S)) = SUBSET S BY <1>0, <1>1, FS_Subset
<1>7. PICK g : g = [T \in SUBSET S |-> Step(g, T)]
  <2> HIDE DEF Upto, Step, S
  <2> QED BY <1>5, <1>6
<1> DEFINE h == CHOOSE it : it = [T \in SUBSET S |-> Step(it, T)]
<1>8. h = [T \in SUBSET S |-> Step(h, T)]
  <2> HIDE DEF Step
  <2> QED BY <1>7
<1>9. WalkThrough(start, days, rd) = h[S]
  BY DEF WalkThrough, FoldLeft, MapThenFoldSet
<1>10. \A T \in SUBSET S : h[T] = Step(h, T)
  <2> HIDE DEF h, Step
  <2> QED BY <1>8
<1> QED
  <2> HIDE DEF h
  <2>1. WalkTable(h, start, days, rd, n) BY <1>10 DEF WalkTable
  <2> QED BY <1>9, <2>1

\* WalkThrough, day by day.
Walks(run, start, days, rd, n) ==
  /\ run[0] = start
  /\ \A k \in 1 .. n : run[k] = StepOneDay(run[k - 1], days[k], rd[days[k]])
  /\ WalkThrough(start, days, rd) = run[n]

LEMMA WalkUnfolds ==
  ASSUME NEW start, NEW days, NEW rd, NEW n \in Nat, DOMAIN days = 1 .. n
  PROVE  \E run : Walks(run, start, days, rd, n)
<1>1. PICK it : /\ WalkTable(it, start, days, rd, n)
                 /\ WalkThrough(start, days, rd) = it[1 .. n]
  BY WalkIterates
<1> DEFINE run == [k \in 0 .. n |-> it[1 .. k]]
<1>2. run[0] = start /\ run[n] = it[1 .. n]
  <2>1. 1 .. 0 = {} /\ {} \in SUBSET (1 .. n) OBVIOUS
  <2>2. it[{}] = start BY <1>1, <2>1 DEF WalkTable
  <2>3. run[0] = it[1 .. 0] /\ run[n] = it[1 .. n] OBVIOUS
  <2> HIDE DEF run
  <2> QED BY <2>1, <2>2, <2>3
<1>3. ASSUME NEW k \in 1 .. n
      PROVE  run[k] = StepOneDay(run[k - 1], days[k], rd[days[k]])
  <2>1. (1 .. k) \in SUBSET (1 .. n) /\ k \in 1 .. k OBVIOUS
  <2>2. Max(1 .. k) = k
    <3>1. Max(1 .. k) \in 1 .. k /\ Max(1 .. k) >= k BY <2>1, MaxOfFinite
    <3> QED BY <3>1
  <2>3. (1 .. k) \ {k} = 1 .. (k - 1) OBVIOUS
  <2>4. it[1 .. k] = StepOneDay(it[1 .. (k - 1)], days[k], rd[days[k]]) 
    <3> DEFINE K == 1 .. k
    <3>1. K \in SUBSET (1 .. n) /\ K # {} /\ Max(K) = k /\ K \ {k} = 1 .. (k - 1)
      BY <2>1, <2>2, <2>3
    <3> HIDE DEF K
    <3>2. it[K] = StepOneDay(it[K \ {Max(K)}], days[Max(K)], rd[days[Max(K)]])
      BY <1>1, <3>1, Zenon DEF WalkTable
    <3> QED BY <3>1, <3>2 DEF K
  <2>5. k \in 0 .. n /\ k - 1 \in 0 .. n OBVIOUS
  <2> QED BY <2>4, <2>5
<1> HIDE DEF run
<1> QED BY <1>1, <1>2, <1>3 DEF Walks

Runs == [carry : CarryStates, trades : Seq(Trades)]

LEMMA StepTyped ==
  ASSUME NEW run \in Runs, NEW day \in Nat, NEW reading \in Readings
  PROVE  StepOneDay(run, day, reading) \in Runs
<1> DEFINE c == run.carry
           position == DecidePosition(reading, c.position)
           trade == OpenedTrade(c, day, position)
           none == trade.entry = 0 \/ Closes(c, position)
           n == NextCarry(c, day, reading)
<1>1. c \in CarryStates /\ run.trades \in Seq(Trades) BY DEF Runs
<1>2. /\ c.position \in Positions /\ c.valid \in Nat /\ c.entry \in Nat /\ c.held \in Nat
      /\ c.direction \in Positions
  BY <1>1 DEF CarryStates
<1>3. position \in Positions
  BY DEF DecidePosition, MomentumRule, ZScoreRule, Positions, Readings
<1> HIDE DEF position
<1>4. trade.entry \in Nat /\ trade.held \in Nat /\ trade.direction \in Positions
  BY <1>2, <1>3 DEF OpenedTrade
<1>5. n = [position |-> position,
           valid |-> c.valid + (IF reading.valid THEN 1 ELSE 0),
           entry |-> IF none THEN 0 ELSE trade.entry,
           held |-> IF none THEN 0 ELSE trade.held + 1,
           direction |-> IF none THEN 0 ELSE trade.direction]
  BY DEF NextCarry, position
<1>6. n \in CarryStates
  <2> HIDE DEF n, trade, none, c
  <2>1. 0 \in Positions BY DEF Positions
  <2> QED BY <1>2, <1>3, <1>4, <1>5, <2>1 DEF CarryStates
<1>7. ClosedTrade(c, day, reading) \in Seq(Trades)
  <2> DEFINE t == [entry |-> c.entry, exit |-> day, held |-> c.held, direction |-> c.direction]
  <2>1. t \in Trades BY <1>2 DEF Trades
  <2>2. ClosedTrade(c, day, reading) \in {<<t>>, <<>>} BY DEF ClosedTrade
  <2> HIDE DEF t
  <2>3. <<t>> \in Seq(Trades) /\ <<>> \in Seq(Trades) BY <2>1
  <2> QED BY <2>2, <2>3
<1>8. run.trades \o ClosedTrade(c, day, reading) \in Seq(Trades) BY <1>1, <1>7
<1> QED BY <1>6, <1>8 DEF StepOneDay, Runs

LEMMA WalkTyped ==
  ASSUME NEW start \in Runs, NEW days \in Seq(Nat), NEW rd,
         \A i \in DOMAIN days : rd[days[i]] \in Readings
  PROVE  WalkThrough(start, days, rd) \in Runs
<1> DEFINE n == Len(days)
<1>1. n \in Nat /\ DOMAIN days = 1 .. n OBVIOUS
<1>2. \A k \in 1 .. n : days[k] \in Nat /\ rd[days[k]] \in Readings BY <1>1
<1> HIDE DEF n
<1>3. PICK run : Walks(run, start, days, rd, n)
  BY <1>1, WalkUnfolds
<1> DEFINE N == {k \in Nat : k <= n => run[k] \in Runs}
<1>4. 0 \in N BY <1>3 DEF Walks
<1>5. ASSUME NEW k \in N PROVE k + 1 \in N
  <2>1. CASE ~(k + 1 <= n) BY <2>1
  <2>2. CASE k + 1 <= n
    <3>1. k + 1 \in 1 .. n /\ (k + 1) - 1 = k /\ k <= n BY <1>1, <2>2
    <3>2. run[k] \in Runs BY <3>1
    <3>3. run[k + 1] = StepOneDay(run[k], days[k + 1], rd[days[k + 1]]) BY <1>3, <3>1 DEF Walks
    <3>4. run[k + 1] \in Runs BY <1>2, <3>1, <3>2, <3>3, StepTyped DEF Walks
    <3> QED BY <3>4
  <2> QED BY <2>1, <2>2
<1>6. N = Nat
  <2>1. N \subseteq Nat OBVIOUS
  <2> HIDE DEF N
  <2> QED BY <1>4, <1>5, <2>1, NatInductionBySet DEF Walks
<1>7. n \in N
  <2> HIDE DEF N
  <2> QED BY <1>1, <1>6
<1> QED BY <1>1, <1>3, <1>7 DEF Walks

LEMMA WalkJoins ==
  ASSUME NEW start, NEW x \in Seq(Nat \ {0}), NEW y \in Seq(Nat \ {0}), NEW rd
  PROVE  WalkThrough(WalkThrough(start, x, rd), y, rd) = WalkThrough(start, x \o y, rd)
<1> DEFINE z == x \o y
           m == Len(x)
           n == Len(y)
<1>1. /\ m \in Nat /\ n \in Nat /\ DOMAIN x = 1 .. m /\ DOMAIN y = 1 .. n
      /\ DOMAIN z = 1 .. (m + n)
      /\ \A i \in 1 .. m : z[i] = x[i]
      /\ \A i \in 1 .. n : z[m + i] = y[i]
  OBVIOUS
<1> DEFINE mid == WalkThrough(start, x, rd)
<1> HIDE DEF m, n, z, mid
<1>2. PICK a : Walks(a, start, x, rd, m)
  BY <1>1, WalkUnfolds
<1>3. PICK b : Walks(b, mid, y, rd, n)
  BY <1>1, WalkUnfolds
<1>4. PICK c : Walks(c, start, z, rd, m + n)
  <2>1. m + n \in Nat BY <1>1
  <2> QED BY <1>1, <2>1, WalkUnfolds
<1>5. c[m] = a[m]
  <2> DEFINE N == {k \in Nat : k <= m => c[k] = a[k]}
  <2>1. 0 \in N BY <1>2, <1>4 DEF Walks
  <2>2. ASSUME NEW k \in N PROVE k + 1 \in N
    <3>1. ASSUME k + 1 <= m PROVE c[k + 1] = a[k + 1]
      <4>1. k + 1 \in 1 .. m /\ k + 1 \in 1 .. (m + n) /\ (k + 1) - 1 = k /\ k <= m BY <1>1, <3>1
      <4>2. c[k] = a[k] BY <4>1
      <4>3. z[k + 1] = x[k + 1] BY <1>1, <4>1
      <4>4. c[k + 1] = StepOneDay(c[k], z[k + 1], rd[z[k + 1]]) BY <1>4, <4>1 DEF Walks
      <4>5. a[k + 1] = StepOneDay(a[k], x[k + 1], rd[x[k + 1]]) BY <1>2, <4>1 DEF Walks
      <4> QED BY <4>2, <4>3, <4>4, <4>5
    <3> QED BY <3>1
  <2>3. N = Nat
    <3>1. N \subseteq Nat OBVIOUS
    <3> HIDE DEF N
    <3> QED BY <2>1, <2>2, <3>1, NatInductionBySet
  <2>4. m \in N
    <3> HIDE DEF N
    <3> QED BY <1>1, <2>3
  <2> QED BY <1>1, <2>4
<1>6. b[0] = c[m] BY <1>2, <1>3, <1>5 DEF mid, Walks
<1>7. b[n] = c[m + n]
  <2> DEFINE N == {k \in Nat : k <= n => b[k] = c[m + k]}
  <2>1. 0 \in N
    <3>1. m + 0 = m BY <1>1
    <3> QED BY <1>6, <3>1
  <2>2. ASSUME NEW k \in N PROVE k + 1 \in N
    <3>1. ASSUME k + 1 <= n PROVE b[k + 1] = c[m + (k + 1)]
      <4>1. /\ k + 1 \in 1 .. n /\ m + (k + 1) \in 1 .. (m + n) /\ (k + 1) - 1 = k /\ k <= n
            /\ (m + (k + 1)) - 1 = m + k
        BY <1>1, <3>1
      <4>2. b[k] = c[m + k] BY <4>1
      <4>3. z[m + (k + 1)] = y[k + 1] BY <1>1, <4>1
      <4>4. c[m + (k + 1)] = StepOneDay(c[m + k], z[m + (k + 1)], rd[z[m + (k + 1)]]) BY <1>4, <4>1 DEF Walks
      <4>5. b[k + 1] = StepOneDay(b[k], y[k + 1], rd[y[k + 1]]) BY <1>3, <4>1 DEF Walks
      <4> QED BY <4>2, <4>3, <4>4, <4>5
    <3> QED BY <3>1
  <2>3. N = Nat
    <3>1. N \subseteq Nat OBVIOUS
    <3> HIDE DEF N
    <3> QED BY <2>1, <2>2, <3>1, NatInductionBySet
  <2>4. n \in N
    <3> HIDE DEF N
    <3> QED BY <1>1, <2>3
  <2> QED BY <1>1, <2>4
<1> QED BY <1>3, <1>4, <1>7 DEF mid, z, Walks

-------------------------------------------------------------------------------
(* Trades and the days they were held.                                      *)

Since(days, k, from) == {i \in 1 .. k : from <= days[i]}
Spell(days, k, from, to) == {i \in 1 .. k : from <= days[i] /\ days[i] < to}

Ascending(days, n) ==
  /\ \A i \in 1 .. n : days[i] \in Nat \ {0}
  /\ \A i, j \in 1 .. n : i < j => days[i] < days[j]

LEMMA SpellSteps ==
  ASSUME NEW n \in Nat, NEW days, Ascending(days, n), NEW k \in Nat, k + 1 <= n,
         NEW from \in Nat
  PROVE  /\ \A to \in Nat : to <= days[k + 1] => Spell(days, k + 1, from, to) = Spell(days, k, from, to)
         /\ Spell(days, k + 1, from, days[k + 1]) = Since(days, k, from)
         /\ from <= days[k + 1] =>
              Cardinality(Since(days, k + 1, from)) = Cardinality(Since(days, k, from)) + 1
         /\ Cardinality(Since(days, k + 1, days[k + 1])) = 1
         /\ Cardinality(Since(days, k, from)) \in Nat
<1>1. /\ k + 1 \in 1 .. n /\ days[k + 1] \in Nat
      /\ \A i \in 1 .. (k + 1) : i \in 1 .. n /\ days[i] \in Nat /\ (i \in 1 .. k \/ i = k + 1)
      /\ \A i \in 1 .. k : i \in 1 .. (k + 1) /\ days[i] < days[k + 1] /\ i # k + 1
  BY DEF Ascending
<1>2. ASSUME NEW to \in Nat, to <= days[k + 1]
      PROVE  Spell(days, k + 1, from, to) = Spell(days, k, from, to)
  <2>1. ~(days[k + 1] < to) BY <1>1, <1>2
  <2> QED BY <1>1, <2>1 DEF Spell
<1>3. Spell(days, k + 1, from, days[k + 1]) = Since(days, k, from)
  <2>1. ~(days[k + 1] < days[k + 1]) BY <1>1
  <2> QED BY <1>1, <2>1 DEF Spell, Since
<1>4. IsFiniteSet(Since(days, k, from)) /\ k + 1 \notin Since(days, k, from)
  <2>1. IsFiniteSet(1 .. k) BY FS_Interval
  <2>2. Since(days, k, from) \subseteq 1 .. k BY DEF Since
  <2> QED BY <2>1, <2>2, FS_Subset
<1>5. ASSUME from <= days[k + 1]
      PROVE  Cardinality(Since(days, k + 1, from)) = Cardinality(Since(days, k, from)) + 1
  <2>1. Since(days, k + 1, from) = Since(days, k, from) \cup {k + 1} BY <1>1, <1>5 DEF Since
  <2> QED BY <1>4, <2>1, FS_AddElement
<1>6. Cardinality(Since(days, k + 1, days[k + 1])) = 1
  <2>1. Since(days, k + 1, days[k + 1]) = {k + 1}
    <3>1. \A i \in 1 .. k : ~(days[k + 1] <= days[i]) BY <1>1
    <3>2. days[k + 1] <= days[k + 1] BY <1>1
    <3> QED BY <1>1, <3>1, <3>2 DEF Since
  <2> QED BY <2>1, FS_Singleton
<1> QED BY <1>2, <1>3, <1>4, <1>5, <1>6, FS_CardinalityType

\* The trade open after k days, and those closed by then.
OpenAccounted(c, trades, days, k) ==
  /\ c.position # 0 <=> c.entry # 0
  /\ c.entry # 0 =>
       /\ c.direction # 0 /\ c.held >= 1
       /\ c.held = Cardinality(Since(days, k, c.entry))
       /\ \E i \in 1 .. k : c.entry = days[i]
       /\ \A i \in DOMAIN trades : trades[i].exit < c.entry

ClosedAccounted(trades, days, k) ==
  \A i \in DOMAIN trades :
    LET t == trades[i]
    IN  /\ t.held = Cardinality(Spell(days, k, t.entry, t.exit))
        /\ t.held >= 1 /\ t.direction # 0
        /\ \E j \in 1 .. k : t.exit = days[j]
        /\ \A j \in DOMAIN trades : i < j => t.exit < trades[j].entry

Accounted(run, days, k) ==
  /\ run \in Runs
  /\ OpenAccounted(run.carry, run.trades, days, k)
  /\ ClosedAccounted(run.trades, days, k)

LEMMA AccountStep ==
  ASSUME NEW n \in Nat, NEW days, Ascending(days, n), NEW k \in Nat, k + 1 <= n,
         NEW run, Accounted(run, days, k), NEW reading \in Readings
  PROVE  Accounted(StepOneDay(run, days[k + 1], reading), days, k + 1)
<1> DEFINE c == run.carry
           day == days[k + 1]
           position == DecidePosition(reading, c.position)
           next == StepOneDay(run, day, reading)
           n1 == next.carry
           old == run.trades
           new == next.trades
<1>1. /\ day \in Nat \ {0} /\ k + 1 \in 1 .. (k + 1)
      /\ \A i \in 1 .. k : i \in 1 .. (k + 1) /\ days[i] \in Nat /\ days[i] < day
  BY DEF Ascending
<1>2. next \in Runs BY <1>1, StepTyped DEF Accounted
<1>3. /\ c \in CarryStates /\ old \in Seq(Trades) /\ new \in Seq(Trades)
      /\ c.entry \in Nat /\ c.held \in Nat
  BY <1>2 DEF Accounted, Runs, CarryStates
<1>4. n1 = NextCarry(c, day, reading) /\ new = old \o ClosedTrade(c, day, reading)
  BY DEF StepOneDay
<1>5. OpenAccounted(c, old, days, k) /\ ClosedAccounted(old, days, k) BY DEF Accounted
<1> DEFINE m == Len(old)
<1>6. m \in Nat /\ DOMAIN old = 1 .. m /\ \A i \in 1 .. m : old[i] \in Trades BY <1>3
<1> SUFFICES OpenAccounted(n1, new, days, k + 1) /\ ClosedAccounted(new, days, k + 1)
  BY <1>2 DEF Accounted
<1>7. n1.position = position BY <1>4 DEF NextCarry
<1> HIDE DEF next, n1, new, position, c, old, m
\* What is already closed stays accounted for.
<1>8. \A i \in 1 .. m :
        /\ old[i].entry \in Nat /\ old[i].exit \in Nat /\ old[i].exit < day
        /\ old[i].held = Cardinality(Spell(days, k + 1, old[i].entry, old[i].exit))
        /\ \E j \in 1 .. (k + 1) : old[i].exit = days[j]
  <2> TAKE i \in 1 .. m
  <2>1. old[i].entry \in Nat /\ old[i].exit \in Nat BY <1>6 DEF Trades
  <2>2. /\ old[i].held = Cardinality(Spell(days, k, old[i].entry, old[i].exit))
        /\ \E j \in 1 .. k : old[i].exit = days[j]
    BY <1>5, <1>6 DEF ClosedAccounted
  <2>3. old[i].exit < day BY <1>1, <2>2
  <2>4. Spell(days, k + 1, old[i].entry, old[i].exit) = Spell(days, k, old[i].entry, old[i].exit)
    BY <1>1, <2>1, <2>3, SpellSteps
  <2> QED BY <1>1, <2>1, <2>2, <2>3, <2>4
<1>9. CASE c.position # 0 /\ position = 0
  <2> DEFINE t == [entry |-> c.entry, exit |-> day, held |-> c.held, direction |-> c.direction]
  <2>1. c.entry # 0 /\ Closes(c, position) BY <1>5, <1>9 DEF OpenAccounted, Closes
  <2>2. n1.entry = 0 BY <1>4, <2>1 DEF NextCarry, position
  <2>3. new = old \o <<t>> BY <1>4, <2>1 DEF ClosedTrade, position
  <2>4. /\ DOMAIN new = 1 .. (m + 1) /\ new[m + 1] = t
        /\ \A i \in 1 .. m : new[i] = old[i]
    <3> HIDE DEF t
    <3>1. t \in {t} OBVIOUS
    <3> QED BY <1>3, <2>3 DEF m
  <2>5. OpenAccounted(n1, new, days, k + 1) BY <1>7, <1>9, <2>2 DEF OpenAccounted
  <2>6. /\ t.held = Cardinality(Spell(days, k + 1, t.entry, t.exit))
        /\ t.held >= 1 /\ t.direction # 0 /\ t.exit = days[k + 1]
    <3>1. /\ c.held = Cardinality(Since(days, k, c.entry)) /\ c.held >= 1 /\ c.direction # 0
      BY <1>5, <2>1 DEF OpenAccounted
    <3>2. Spell(days, k + 1, c.entry, day) = Since(days, k, c.entry)
      <4>1. c.entry \in Nat BY <1>3
      <4> QED BY <4>1, SpellSteps
    <3> QED BY <3>1, <3>2
  <2>7. \A i \in 1 .. m : old[i].exit < t.entry
    BY <1>5, <1>6, <2>1 DEF OpenAccounted
  <2> HIDE DEF t
  <2>8. ASSUME NEW i \in 1 .. (m + 1)
        PROVE  /\ new[i].held = Cardinality(Spell(days, k + 1, new[i].entry, new[i].exit))
               /\ new[i].held >= 1 /\ new[i].direction # 0
               /\ \E j \in 1 .. (k + 1) : new[i].exit = days[j]
               /\ \A j \in 1 .. (m + 1) : i < j => new[i].exit < new[j].entry
    <3>1. CASE i = m + 1
      BY <1>1, <1>6, <2>4, <2>6, <3>1
    <3>2. CASE i # m + 1
      <4>1. i \in 1 .. m /\ new[i] = old[i] BY <1>6, <2>4, <3>2
      <4>2. old[i].held >= 1 /\ old[i].direction # 0
            /\ \A j \in 1 .. m : i < j => old[i].exit < old[j].entry
        BY <1>5, <1>6, <4>1 DEF ClosedAccounted
      <4>3. \A j \in 1 .. (m + 1) : i < j => new[i].exit < new[j].entry
        <5> TAKE j \in 1 .. (m + 1)
        <5>1. CASE j = m + 1 BY <2>4, <2>7, <4>1, <5>1
        <5>2. CASE j # m + 1
          <6>1. j \in 1 .. m BY <1>6, <5>2
          <6> QED BY <2>4, <4>1, <4>2, <6>1
        <5> QED BY <5>1, <5>2
      <4> QED BY <1>8, <4>1, <4>2, <4>3
    <3> QED BY <3>1, <3>2
  <2>9. ClosedAccounted(new, days, k + 1) BY <2>4, <2>8 DEF ClosedAccounted
  <2> QED BY <2>5, <2>9
<1>10. CASE ~(c.position # 0 /\ position = 0)
  <2>1. ~Closes(c, position) BY <1>10 DEF Closes
  <2>2. new = old
    <3>1. ClosedTrade(c, day, reading) = <<>> BY <2>1 DEF ClosedTrade, position
    <3> QED BY <1>3, <1>4, <3>1
  <2>3. ClosedAccounted(new, days, k + 1)
    <3>1. \A i \in 1 .. m : /\ old[i].held >= 1 /\ old[i].direction # 0
                            /\ \A j \in 1 .. m : i < j => old[i].exit < old[j].entry
      BY <1>5, <1>6 DEF ClosedAccounted
    <3> QED BY <1>6, <1>8, <2>2, <3>1 DEF ClosedAccounted
  <2> DEFINE trade == OpenedTrade(c, day, position)
  <2>4. /\ n1.entry = IF trade.entry = 0 THEN 0 ELSE trade.entry
        /\ n1.held = IF trade.entry = 0 THEN 0 ELSE trade.held + 1
        /\ n1.direction = IF trade.entry = 0 THEN 0 ELSE trade.direction
    BY <1>4, <2>1 DEF NextCarry, position
  <2>5. CASE c.position = 0 /\ position # 0
    <3>1. trade.entry = day /\ trade.held = 0 /\ trade.direction = position
      BY <2>5 DEF OpenedTrade
    <3> HIDE DEF trade
    <3>2. n1.entry = day /\ n1.held = 1 /\ n1.direction = position BY <1>1, <2>4, <3>1
    <3>3. Cardinality(Since(days, k + 1, day)) = 1
      <4>1. 0 \in Nat OBVIOUS
      <4> QED BY <4>1, SpellSteps
    <3>4. \A i \in DOMAIN new : new[i].exit < n1.entry BY <1>6, <1>8, <2>2, <3>2
    <3> HIDE DEF day
    <3>5. day = days[k + 1] /\ day # 0 BY <1>1 DEF day
    <3>6. OpenAccounted(n1, new, days, k + 1)
      BY <1>1, <1>7, <2>5, <3>2, <3>3, <3>4, <3>5 DEF OpenAccounted
    <3> QED BY <2>3, <3>6
  <2>6. CASE c.position = 0 /\ position = 0
    <3>1. c.entry = 0 BY <1>5, <2>6 DEF OpenAccounted
    <3>2. trade.entry = 0 BY <2>6, <3>1 DEF OpenedTrade
    <3>3. n1.entry = 0 BY <2>4, <3>2
    <3> QED BY <1>7, <2>3, <2>6, <3>3 DEF OpenAccounted
  <2>7. CASE c.position # 0 /\ position # 0
    <3>1. c.entry # 0 BY <1>5, <2>7 DEF OpenAccounted
    <3>2. trade.entry = c.entry /\ trade.held = c.held /\ trade.direction = c.direction
      BY <2>7 DEF OpenedTrade
    <3> HIDE DEF trade
    <3>3. n1.entry = c.entry /\ n1.held = c.held + 1 /\ n1.direction = c.direction
      BY <2>4, <3>1, <3>2
    <3>4. /\ c.direction # 0 /\ c.held >= 1
          /\ c.held = Cardinality(Since(days, k, c.entry))
          /\ \E i \in 1 .. k : c.entry = days[i]
          /\ \A i \in DOMAIN old : old[i].exit < c.entry
      BY <1>5, <3>1 DEF OpenAccounted
    <3>5. c.entry <= day BY <1>1, <3>4
    <3>6. Cardinality(Since(days, k + 1, c.entry)) = c.held + 1
      <4>1. c.entry \in Nat BY <1>3
      <4>2. Cardinality(Since(days, k + 1, c.entry)) = Cardinality(Since(days, k, c.entry)) + 1
        BY <3>5, <4>1, SpellSteps
      <4> QED BY <3>4, <4>2
    <3>7. \E i \in 1 .. (k + 1) : c.entry = days[i] BY <1>1, <3>4
    <3> QED BY <1>3, <1>7, <2>2, <2>3, <2>7, <3>1, <3>3, <3>4, <3>6, <3>7 DEF OpenAccounted
  <2> QED BY <1>10, <2>5, <2>6, <2>7
<1> QED BY <1>9, <1>10

LEMMA FreshRunTyped == FreshRun \in Runs
<1>1. <<>> \in Seq(Trades) OBVIOUS
<1> QED BY <1>1 DEF FreshRun, FreshCarry, Runs, CarryStates, Positions

\* The batch backtest over ascending days: every trade it closes was held for
\* exactly the days from its entry up to its exit, and no two overlap.
THEOREM BacktestTrades ==
  ASSUME NEW days \in Seq(Nat \ {0}), NEW rd,
         \A i, j \in DOMAIN days : i < j => days[i] < days[j],
         \A i \in DOMAIN days : rd[days[i]] \in Readings
  PROVE  ClosedAccounted(RunWalkForward(days, rd).trades, days, Len(days))
<1> DEFINE n == Len(days)
<1>1. n \in Nat /\ DOMAIN days = 1 .. n /\ Ascending(days, n)
      /\ \A k \in 1 .. n : rd[days[k]] \in Readings
  BY DEF Ascending
<1> HIDE DEF n
<1>2. PICK run : Walks(run, FreshRun, days, rd, n) BY <1>1, WalkUnfolds
<1> DEFINE N == {k \in Nat : k <= n => Accounted(run[k], days, k)}
<1>3. 0 \in N
  <2>1. run[0] = FreshRun BY <1>2 DEF Walks
  <2>2. FreshRun.carry.position = 0 /\ FreshRun.carry.entry = 0 /\ FreshRun.trades = <<>>
    BY DEF FreshRun, FreshCarry
  <2>3. OpenAccounted(FreshRun.carry, FreshRun.trades, days, 0) BY <2>2 DEF OpenAccounted
  <2>4. ClosedAccounted(FreshRun.trades, days, 0) BY <2>2 DEF ClosedAccounted
  <2> QED BY <2>1, <2>3, <2>4, FreshRunTyped DEF Accounted
<1>4. ASSUME NEW k \in N PROVE k + 1 \in N
  <2>1. ASSUME k + 1 <= n PROVE Accounted(run[k + 1], days, k + 1)
    <3>1. k + 1 \in 1 .. n /\ (k + 1) - 1 = k /\ k <= n BY <1>1, <2>1
    <3>2. Accounted(run[k], days, k) BY <3>1
    <3>3. run[k + 1] = StepOneDay(run[k], days[k + 1], rd[days[k + 1]]) BY <1>2, <3>1 DEF Walks
    <3>4. rd[days[k + 1]] \in Readings /\ k \in Nat BY <1>1, <3>1
    <3> HIDE DEF N
    <3> QED BY <1>1, <2>1, <3>2, <3>3, <3>4, AccountStep
  <2> QED BY <2>1
<1>5. n \in N
  <2>1. N \subseteq Nat OBVIOUS
  <2> HIDE DEF N
  <2> QED BY <1>1, <1>3, <1>4, <2>1, NatInductionBySet
<1>6. Accounted(run[n], days, n) BY <1>1, <1>5
<1> QED BY <1>2, <1>6 DEF Walks, Accounted, RunWalkForward, n

-------------------------------------------------------------------------------
(***************************************************************************)
(* Types: what a pass chooses, assigns and writes.                         *)
(***************************************************************************)
LEMMA FreshTyped ==
  /\ \A i \in Nat, st \in Statuses : FreshRow(i, st) \in Row
  /\ Idle \in Pass
<1>1. <<>> \in Seq(Nat) /\ <<>> \in Seq(Trades) OBVIOUS
<1>2. FreshCarry \in CarryStates BY DEF FreshCarry, CarryStates, Positions
<1>3. \A i \in Nat, st \in Statuses : FreshRow(i, st) \in Row
  BY <1>1, <1>2 DEF FreshRow, Row
<1>4. NoRow \in Row BY <1>3 DEF NoRow, Statuses
<1>5. SnapshotOf(NoRow) \in Snapshot BY <1>4 DEF SnapshotOf, Snapshot, Row
<1> QED BY <1>1, <1>3, <1>4, <1>5 DEF Idle, Pass

\* The days a pass chooses are published days after the one it has loaded.
LEMMA ChosenRows ==
  ASSUME IInv, NEW from, NEW end, NEW last \in Nat, NEW maxRows
  PROVE  LET frame == Frame(from, end)
             rows == RowsToProcess(frame, last, maxRows)
         IN  /\ frame \subseteq bars /\ frame \in SUBSET (Nat \ {0}) /\ IsFiniteSet(frame)
             /\ rows \subseteq frame /\ IsFiniteSet(rows)
             /\ rows # {} =>
                  /\ InOrder(rows) \in Seq(Nat \ {0}) /\ InOrder(rows) \in Seq(Nat) /\ InOrder(rows) # <<>>
                  /\ Len(InOrder(rows)) = Cardinality(rows)
                  /\ \A i \in DOMAIN InOrder(rows) : InOrder(rows)[i] \in rows
                  /\ \A i, j \in DOMAIN InOrder(rows) : i < j => InOrder(rows)[i] < InOrder(rows)[j]
<1> DEFINE frame == Frame(from, end)
           rows == RowsToProcess(frame, last, maxRows)
<1>1. frame \subseteq bars BY DEF Frame
<1>2. bars \in SUBSET (Nat \ {0}) /\ IsFiniteSet(bars) BY DEF IInv, CalendarFine
<1>3. frame \in SUBSET (Nat \ {0}) /\ IsFiniteSet(frame) BY <1>1, <1>2, FS_Subset
<1> HIDE DEF frame
<1>4. rows \subseteq frame /\ IsFiniteSet(rows) BY <1>3, RowsAreDue
<1> HIDE DEF rows
<1>5. rows \in SUBSET (Nat \ {0}) BY <1>3, <1>4
<1>6. ASSUME rows # {}
      PROVE  /\ InOrder(rows) \in Seq(Nat \ {0}) /\ InOrder(rows) # <<>>
             /\ Len(InOrder(rows)) = Cardinality(rows)
             /\ \A i \in DOMAIN InOrder(rows) : InOrder(rows)[i] \in rows
             /\ \A i, j \in DOMAIN InOrder(rows) : i < j => InOrder(rows)[i] < InOrder(rows)[j]
  BY <1>4, <1>5, <1>6, InOrderAscends
<1>7. \A s : s \in Seq(Nat \ {0}) => s \in Seq(Nat) OBVIOUS
<1> QED BY <1>1, <1>3, <1>4, <1>6, <1>7 DEF frame, rows

LEMMA OnePassTyped ==
  ASSUME TypeOK, NEW p \in Passes, NEW v \in Pass, pass' = [pass EXCEPT ![p] = v]
  PROVE  pass' \in [Passes -> Pass]
BY DEF TypeOK

LEMMA OvertakenTyped ==
  ASSUME NEW v \in Pass
  PROVE  [v EXCEPT !.overtaken = @ \/ v.pc = "checked"] \in Pass
<1>1. (v.overtaken \/ v.pc = "checked") \in BOOLEAN BY Zenon
<1>2. \A b \in BOOLEAN : [v EXCEPT !.overtaken = b] \in Pass BY DEF Pass
<1> QED BY <1>1, <1>2, Zenon

LEMMA FetchTyped ==
  ASSUME IInv, TypeOK, NEW p \in Passes, Fetch(p)
  PROVE  TypeOK'
<1> DEFINE snap == pass[p].snap
           isTick == pass[p].op = "tick"
           end == IF isTick THEN today ELSE pass[p].end
           from == (IF isTick THEN end ELSE snap.last) - Window
           frame == Frame(from, end)
           rows == RowsToProcess(frame, snap.last, IF isTick THEN MaxCatchup ELSE Cardinality(frame))
           skip == ~isTick /\ (row.id # snap.id \/ ~Present \/ snap.last = Never \/ snap.last >= end)
           v == [pass[p] EXCEPT !.pc = "fetched", !.steps = InOrder(rows)]
<1>1. pass[p] \in Pass /\ snap.last \in Nat BY DEF TypeOK, Pass, Snapshot
<1>2. UNCHANGED <<row, bars, today, readings, born, late, torn>> BY DEF Fetch
<1>3. CASE skip \/ rows = {}
  <2>1. pass' = [pass EXCEPT ![p] = Idle] /\ lost' = lost BY <1>3 DEF Fetch
  <2>2. pass' \in [Passes -> Pass] BY <2>1, FreshTyped, OnePassTyped
  <2> QED BY <1>2, <2>1, <2>2 DEF TypeOK
<1>4. CASE ~(skip \/ rows = {})
  <2>1. /\ pass' = [pass EXCEPT ![p].pc = "fetched", ![p].steps = InOrder(rows)]
        /\ lost' = lost \cup UnrecoverableRows(frame, snap.last)
    BY <1>4 DEF Fetch
  <2>2. pass' = [pass EXCEPT ![p] = v] BY <2>1 DEF TypeOK
  <2>3. frame \subseteq bars /\ InOrder(rows) \in Seq(Nat)
    BY <1>1, <1>4, ChosenRows
  <2>4. v \in Pass
    <3> HIDE DEF rows
    <3> QED BY <1>1, <2>3 DEF Pass
  <2>5. pass' \in [Passes -> Pass]
    <3> HIDE DEF v
    <3> QED BY <2>2, <2>4, OnePassTyped
  <2>6. lost' \subseteq bars BY <2>1, <2>3 DEF UnrecoverableRows, TypeOK
  <2> QED BY <1>2, <2>5, <2>6 DEF TypeOK
<1> QED BY <1>3, <1>4

\* What a write leaves: columns as stored or as assigned.
LEMMA AppliedTyped ==
  ASSUME TypeOK, NEW snap \in Snapshot, NEW seen \in Row, NEW steps \in Seq(Nat), steps # <<>>,
         \A i \in DOMAIN steps : steps[i] \in 1 .. LastDay
  PROVE  ApplyForwardSteps(snap, seen, steps) \in Row
<1> DEFINE start == [carry |-> snap.carry, trades |-> seen.trades]
           run == WalkThrough(start, steps, readings)
<1>1. start \in Runs BY DEF Runs, Snapshot, Row
<1>2. \A i \in DOMAIN steps : readings[steps[i]] \in Readings
  BY ValidationAssumption DEF TypeOK
<1>3. run \in Runs
  <2> HIDE DEF start
  <2> QED BY <1>1, <1>2, WalkTyped
<1> HIDE DEF run
<1>4. run.carry \in CarryStates /\ run.trades \in Seq(Trades) BY <1>3 DEF Runs
<1>5. Len(steps) \in Nat /\ Last(steps) \in Nat BY DEF Last
<1>6. /\ seen.n + Len(steps) \in Nat /\ seen.days \o steps \in Seq(Nat)
      /\ (IF seen.status = "in_progress" /\ seen.n + Len(steps) >= Threshold
          THEN "forward_validated" ELSE seen.status) \in Statuses
  BY <1>5 DEF Row, Statuses, ActiveStatuses
<1> QED BY <1>4, <1>5, <1>6 DEF ApplyForwardSteps, Row, run

LEMMA FlushTyped ==
  ASSUME NEW seen, NEW assigned \in Row, NEW stored \in Row
  PROVE  Flush(seen, assigned, stored) \in Row
<1> DEFINE r == Flush(seen, assigned, stored)
<1>1. DOMAIN stored = Columns BY DEF Row, Columns
<1>2. r = [c \in Columns |-> IF assigned[c] = seen[c] THEN stored[c] ELSE assigned[c]]
  BY <1>1 DEF Flush
<1>3. /\ r.id \in Nat /\ r.status \in Statuses /\ r.n \in Nat /\ r.last \in Nat
      /\ r.carry \in CarryStates /\ r.days \in Seq(Nat) /\ r.trades \in Seq(Trades)
  BY <1>2 DEF Row, Columns
<1>4. r = [id |-> r.id, status |-> r.status, n |-> r.n, last |-> r.last,
           carry |-> r.carry, days |-> r.days, trades |-> r.trades]
  BY <1>2 DEF Columns
<1> HIDE DEF r
<1>5. r \in Row BY <1>3, <1>4 DEF Row
<1> QED BY <1>5 DEF r

-------------------------------------------------------------------------------
(* The second invariant: what the record says, and what it leaves out.     *)

\* The record of row r is published days in order, and its state the batch
\* backtest's over them.
RecordOf(r, rd, b) ==
  /\ \A i, j \in DOMAIN r.days : i < j => r.days[i] < r.days[j]
  /\ \A i \in DOMAIN r.days : r.days[i] \in b
  /\ r.last = IF r.days = <<>> THEN 0 ELSE Last(r.days)
  /\ [carry |-> r.carry, trades |-> r.trades] = RunWalkForward(r.days, rd)

\* A published day inside the record is in it, or late, or in a reported gap.
NoGap(days, last, b, la, lo) ==
  \A d \in b : (days # <<>> /\ days[1] < d /\ d < last) =>
    \/ d \in ToSet(days) \cup la
    \/ \E e \in lo : d <= e /\ \A r \in ToSet(days) : ~(d < r /\ r < e)

\* What a pass has loaded is the row's state, unless the row has moved on.
CarryKnown(v, r) ==
  (v.pc # "idle" /\ r.status # "none" /\ v.snap.id = r.id) =>
    /\ v.snap.last <= r.last
    /\ v.snap.last = r.last => v.snap.carry = r.carry

\* Between the date loaded and the last of its steps, a pass leaves out only
\* days published late and days in a gap it has reported.
StepsCover(v, b, la, lo) ==
  v.pc \in {"fetched", "checked"} =>
    /\ \A i \in DOMAIN v.steps : v.steps[i] \in b
    /\ v.snap.last # 0 =>
         \A d \in b : (v.snap.last < d /\ d < Last(v.steps)) =>
           \/ d \in ToSet(v.steps) \cup la
           \/ \E e \in lo : d <= e /\ \A r \in ToSet(v.steps) : ~(d < r /\ r < e)

RecordFine == ~torn => RecordOf(row, readings, bars) /\ NoGap(row.days, row.last, bars, late, lost)

PassesCover ==
  \A p \in Passes : /\ ~torn => CarryKnown(pass[p], row)
                    /\ StepsCover(pass[p], bars, late, lost)

RInv == IInv /\ TypeOK /\ RecordFine /\ PassesCover

RKept == TypeOK' /\ RecordFine' /\ PassesCover'

LEMMA IdleCovers ==
  \A r, b, la, lo : CarryKnown(Idle, r) /\ StepsCover(Idle, b, la, lo)
BY DEF CarryKnown, StepsCover, Idle

\* A longer list of lost days covers more.
LEMMA CoverGrows ==
  ASSUME NEW v, NEW b, NEW la, NEW lo, NEW more, lo \subseteq more, StepsCover(v, b, la, lo)
  PROVE  StepsCover(v, b, la, more)
BY DEF StepsCover

LEMMA GapGrows ==
  ASSUME NEW days, NEW last, NEW b, NEW la, NEW lo, NEW more, lo \subseteq more,
         NoGap(days, last, b, la, lo)
  PROVE  NoGap(days, last, b, la, more)
BY DEF NoGap

\* A step that changes what one pass has in hand.
LEMMA PassCovers ==
  ASSUME RInv, NEW p \in Passes,
         pass' = [pass EXCEPT ![p] = pass'[p]], pass'[p] \in Pass,
         UNCHANGED <<row, bars, today, readings, born, late, torn>>,
         lost \subseteq lost', lost' \subseteq bars,
         ~torn => CarryKnown(pass'[p], row), StepsCover(pass'[p], bars, late, lost')
  PROVE  RKept
<1>1. TypeOK /\ DOMAIN pass = Passes BY DEF RInv, TypeOK
<1>2. pass' \in [Passes -> Pass] BY DEF RInv, TypeOK
<1>3. TypeOK' BY <1>1, <1>2 DEF TypeOK
<1>4. RecordFine' BY GapGrows DEF RInv, RecordFine
<1>5. ASSUME NEW q \in Passes
      PROVE  /\ ~torn => CarryKnown(pass'[q], row)
             /\ StepsCover(pass'[q], bars, late, lost')
  <2>1. CASE q = p BY <2>1
  <2>2. CASE q # p
    <3>1. pass'[q] = pass[q] BY <1>1, <2>2
    <3>2. (~torn => CarryKnown(pass[q], row)) /\ StepsCover(pass[q], bars, late, lost)
      BY DEF RInv, PassesCover
    <3> QED BY <3>1, <3>2, CoverGrows
  <2> QED BY <2>1, <2>2
<1>6. PassesCover' BY <1>5 DEF PassesCover
<1> QED BY <1>3, <1>4, <1>6 DEF RKept

LEMMA PassDrops ==
  ASSUME RInv, NEW p \in Passes, pass' = [pass EXCEPT ![p] = Idle],
         UNCHANGED <<row, bars, today, readings, born, late, lost, torn>>
  PROVE  RKept
<1>1. pass'[p] = Idle /\ lost \subseteq bars BY DEF RInv, TypeOK
<1> QED BY <1>1, IdleCovers, FreshTyped, PassCovers

LEMMA LoadCovers ==
  ASSUME RInv, NEW p \in Passes, NEW op \in {"tick", "backfill"}, Load(p, op)
  PROVE  RKept
<1> DEFINE v == [Idle EXCEPT !.pc = "loaded", !.op = op,
                             !.end = IF op = "tick" THEN 0 ELSE today,
                             !.snap = SnapshotOf(row)]
<1>1. pass' = [pass EXCEPT ![p] = v] /\ pass'[p] = v
  BY DEF Load, RInv, TypeOK
<1>2. row \in Row /\ today \in Nat /\ lost \subseteq bars
  BY ValidationAssumption DEF RInv, TypeOK
<1>3. SnapshotOf(row) \in Snapshot BY <1>2 DEF SnapshotOf, Snapshot, Row
<1>4. v \in Pass BY <1>2, <1>3, FreshTyped DEF Pass
<1>5. /\ v.pc = "loaded" /\ v.snap.last = row.last /\ v.snap.carry = row.carry
  BY DEF Idle, SnapshotOf
<1>6. row.last \in Nat BY <1>2 DEF Row
<1> HIDE DEF v
<1>7. CarryKnown(v, row) /\ StepsCover(v, bars, late, lost)
  BY <1>5, <1>6 DEF CarryKnown, StepsCover
<1> QED BY <1>1, <1>2, <1>4, <1>7, PassCovers DEF Load

LEMMA CheckCovers ==
  ASSUME RInv, NEW p \in Passes, Check(p)
  PROVE  RKept
<1> DEFINE v == [pass[p] EXCEPT !.pc = "checked", !.seen = row]
<1>1. CASE ~(Present /\ row.id = pass[p].snap.id /\ row.last = pass[p].snap.last)
  <2>1. pass' = [pass EXCEPT ![p] = Idle] BY <1>1 DEF Check
  <2> QED BY <2>1, PassDrops DEF Check
<1>2. CASE Present /\ row.id = pass[p].snap.id /\ row.last = pass[p].snap.last
  <2>1. pass' = [pass EXCEPT ![p] = v] /\ pass'[p] = v
    BY <1>2 DEF Check, RInv, TypeOK
  <2>2. pass[p] \in Pass /\ row \in Row /\ lost \subseteq bars BY DEF RInv, TypeOK
  <2>3. v \in Pass /\ v.pc = "checked" /\ v.snap = pass[p].snap /\ v.steps = pass[p].steps
    BY <2>2 DEF Pass
  <2> HIDE DEF v
  <2>4. /\ pass[p].pc = "fetched"
        /\ (~torn => CarryKnown(pass[p], row)) /\ StepsCover(pass[p], bars, late, lost)
    BY DEF Check, RInv, PassesCover
  <2>5. (~torn => CarryKnown(v, row)) /\ StepsCover(v, bars, late, lost)
    BY <2>3, <2>4 DEF CarryKnown, StepsCover
  <2> QED BY <2>1, <2>2, <2>3, <2>5, PassCovers DEF Check
<1> QED BY <1>1, <1>2

LEMMA AbandonCovers ==
  ASSUME RInv, NEW p \in Passes, Abandon(p)
  PROVE  RKept
BY PassDrops DEF Abandon

\* InOrder lists all of a set.
LEMMA InOrderLists ==
  ASSUME NEW S \in SUBSET (Nat \ {0}), IsFiniteSet(S), S # {}
  PROVE  /\ ToSet(InOrder(S)) = S
         /\ Last(InOrder(S)) \in S
<1> DEFINE n == Cardinality(S)
           s == InOrder(S)
<1>1. /\ s \in Seq(Nat \ {0}) /\ s # <<>> /\ Len(s) = n
      /\ \A i \in DOMAIN s : s[i] \in S
  BY InOrderAscends
<1>2. n \in Nat BY FS_CardinalityType
<1>3. ASSUME NEW d \in S PROVE \E k \in 1 .. n : s[k] = d
  <2> DEFINE k == Cardinality(Before(S, d)) + 1
  <2>1. Before(S, d) \subseteq S /\ d \notin Before(S, d) BY DEF Before
  <2>2. /\ IsFiniteSet(Before(S, d)) /\ Cardinality(Before(S, d)) <= n
        /\ n = Cardinality(Before(S, d)) => S = Before(S, d)
    BY <2>1, FS_Subset
  <2>3. Cardinality(Before(S, d)) \in Nat BY <2>2, FS_CardinalityType
  <2>4. k \in 1 .. n BY <1>2, <2>1, <2>2, <2>3
  <2>5. s[k] = CHOOSE e \in S : Cardinality(Before(S, e)) = k - 1 BY <2>4 DEF InOrder
  <2>6. Cardinality(Before(S, d)) = k - 1 BY <2>3
  <2> DEFINE e == s[k]
  <2>7. e \in S /\ Cardinality(Before(S, e)) = Cardinality(Before(S, d))
    <3> HIDE DEF k
    <3> QED BY <2>5, <2>6
  <2> HIDE DEF e, k, s
  <2>8. ~(d < e) /\ ~(e < d) /\ d \in Nat /\ e \in Nat BY <2>3, <2>7, BeforeGrows
  <2>9. e = d BY <2>8
  <2> QED BY <2>4, <2>9 DEF e
<1> HIDE DEF s
<1>4. DOMAIN s = 1 .. n BY <1>1
<1>5. ToSet(s) = S BY <1>1, <1>3, <1>4 DEF ToSet
<1>6. Last(s) \in S BY <1>1 DEF Last
<1> QED BY <1>5, <1>6 DEF s

\* Between the last date and the last of the rows chosen, a pass leaves out
\* days in a gap it reports, and no others.
LEMMA RowsLeaveOut ==
  ASSUME IInv, NEW from \in Int, NEW end \in Int, NEW last \in Nat \ {0}, NEW maxRows \in Nat
  PROVE  LET frame == Frame(from, end)
             rows == RowsToProcess(frame, last, maxRows)
             steps == InOrder(rows)
         IN  rows # {} =>
               \A d \in bars : (last < d /\ d < Last(steps)) =>
                 \/ d \in ToSet(steps)
                 \/ \E e \in UnrecoverableRows(frame, last) :
                      d <= e /\ \A r \in ToSet(steps) : ~(d < r /\ r < e)
<1> DEFINE frame == Frame(from, end)
           due == {d \in WithWindow(frame) : d > last}
           rows == RowsToProcess(frame, last, maxRows)
           lost0 == UnrecoverableRows(frame, last)
<1> SUFFICES ASSUME rows # {}, NEW d \in bars, last < d, d < Last(InOrder(rows))
             PROVE  \/ d \in ToSet(InOrder(rows))
                    \/ \E e \in lost0 :
                         d <= e /\ \A r \in ToSet(InOrder(rows)) : ~(d < r /\ r < e)
  OBVIOUS
<1>1. /\ frame \subseteq bars /\ frame \in SUBSET (Nat \ {0}) /\ IsFiniteSet(frame)
      /\ rows \subseteq frame /\ IsFiniteSet(rows)
  BY ChosenRows
<1>2. rows = {x \in due : Cardinality(Before(due, x)) < maxRows} BY DEF RowsToProcess
<1>3. lost0 = {x \in frame \ WithWindow(frame) : x > last} BY DEF UnrecoverableRows
<1>4. \A x : x \in frame <=> x \in bars /\ from <= x /\ x < end BY DEF Frame
<1>5. WithWindow(frame) \subseteq frame BY DEF WithWindow
<1>6. due \subseteq frame BY <1>5
<1>7. \A x : x \in due <=> x \in WithWindow(frame) /\ x > last OBVIOUS
<1>8. \A x \in WithWindow(frame) : Cardinality(Before(frame, x)) >= FitWindow BY DEF WithWindow
<1> HIDE DEF frame, due, rows, lost0
<1>9. rows \in SUBSET (Nat \ {0}) /\ ToSet(InOrder(rows)) = rows /\ Last(InOrder(rows)) \in rows
  BY <1>1, InOrderLists
<1> DEFINE top == Last(InOrder(rows))
<1>10. top \in rows /\ top \in frame /\ top \in Nat /\ top < end /\ d < top /\ d \in Nat
  BY <1>1, <1>4, <1>9 DEF IInv, CalendarFine
<1> HIDE DEF top
<1>11. CASE d \in WithWindow(frame)
  <2>1. d \in due /\ top \in due BY <1>2, <1>7, <1>10, <1>11
  <2>2. due \in SUBSET Nat /\ IsFiniteSet(due) BY <1>1, <1>6, FS_Subset
  <2>3. /\ Cardinality(Before(due, d)) \in Nat /\ Cardinality(Before(due, top)) \in Nat
        /\ Cardinality(Before(due, d)) < Cardinality(Before(due, top))
    BY <1>10, <2>1, <2>2, BeforeGrows
  <2>4. Cardinality(Before(due, top)) < maxRows BY <1>2, <1>10
  <2>5. d \in rows BY <1>2, <2>1, <2>3, <2>4
  <2> QED BY <1>9, <2>5
<1>12. CASE d \in frame /\ d \notin WithWindow(frame)
  <2>1. d \in lost0 BY <1>3, <1>12
  <2>2. d <= d /\ \A r \in rows : ~(d < r /\ r < d) BY <1>9, <1>10
  <2> QED BY <1>9, <2>1, <2>2
<1>13. CASE d \notin frame
  <2>1. d < from BY <1>4, <1>10, <1>13
  <2>2. Cardinality(frame) \in Nat \ {0} BY <1>1, <1>10, FS_CardinalityType, FS_EmptySet
  <2>3. frame \in SUBSET Nat BY <1>1
  <2>4. PICK e \in frame : Cardinality(Before(frame, e)) = 1 - 1
    BY <1>1, <2>2, <2>3, EveryPlaceTaken
  <2>5. IsFiniteSet(Before(frame, e)) BY <1>1, FS_Subset DEF Before
  <2>6. Before(frame, e) = {} BY <2>4, <2>5, FS_EmptySet
  <2>7. \A r \in frame : ~(r < e) BY <2>6 DEF Before
  <2>8. e \notin WithWindow(frame) BY <1>8, <2>4, ValidationAssumption
  <2>9. from <= e /\ e \in Nat BY <1>1, <1>4
  <2>10. e \in lost0 BY <1>3, <1>10, <2>1, <2>8, <2>9
  <2>11. d <= e BY <1>10, <2>1, <2>9
  <2> QED BY <1>1, <1>9, <2>7, <2>10, <2>11
<1> QED BY <1>5, <1>11, <1>12, <1>13

LEMMA FetchCovers ==
  ASSUME RInv, NEW p \in Passes, Fetch(p)
  PROVE  RKept
<1> DEFINE snap == pass[p].snap
           isTick == pass[p].op = "tick"
           end == IF isTick THEN today ELSE pass[p].end
           from == (IF isTick THEN end ELSE snap.last) - Window
           frame == Frame(from, end)
           maxRows == IF isTick THEN MaxCatchup ELSE Cardinality(frame)
           rows == RowsToProcess(frame, snap.last, maxRows)
           skip == ~isTick /\ (row.id # snap.id \/ ~Present \/ snap.last = Never \/ snap.last >= end)
           v == [pass[p] EXCEPT !.pc = "fetched", !.steps = InOrder(rows)]
<1>1. IInv /\ TypeOK BY DEF RInv
<1>2. pass[p] \in Pass /\ snap.last \in Nat /\ pass[p].pc = "loaded"
        /\ UNCHANGED <<row, bars, today, readings, born, late, torn>>
  BY <1>1 DEF TypeOK, Pass, Snapshot, Fetch
<1>3. (~torn => CarryKnown(pass[p], row)) BY DEF RInv, PassesCover
<1>4. CASE skip \/ rows = {}
  <2>1. pass' = [pass EXCEPT ![p] = Idle] /\ lost' = lost BY <1>4 DEF Fetch
  <2> QED BY <1>2, <2>1, PassDrops
<1>5. CASE ~(skip \/ rows = {})
  <2>1. /\ pass' = [pass EXCEPT ![p].pc = "fetched", ![p].steps = InOrder(rows)]
        /\ lost' = lost \cup UnrecoverableRows(frame, snap.last)
    BY <1>5 DEF Fetch
  <2>2. pass' = [pass EXCEPT ![p] = v] /\ pass'[p] = v BY <1>1, <2>1 DEF TypeOK
  <2>3. TypeOK' BY <1>1, FetchTyped
  <2>4. pass'[p] \in Pass /\ lost' \subseteq bars BY <1>2, <2>3 DEF TypeOK
  <2>5. from \in Int /\ end \in Int /\ maxRows \in Nat
    <3>1. today \in Int /\ pass[p].end \in Int
      BY <1>1, <1>2, ValidationAssumption DEF TypeOK, Pass
    <3>2. end \in Int BY <3>1
    <3>3. from \in Int BY <1>2, <3>2, ValidationAssumption
    <3>4. IsFiniteSet(frame) BY <1>1, <1>2, ChosenRows
    <3>5. Cardinality(frame) \in Nat BY <3>4, FS_CardinalityType
    <3>6. maxRows \in Nat BY <3>5, ValidationAssumption
    <3> QED BY <3>2, <3>3, <3>6
  <2>6. /\ rows # {} /\ \A i \in DOMAIN InOrder(rows) : InOrder(rows)[i] \in rows
        /\ rows \subseteq bars
    BY <1>1, <1>2, <1>5, ChosenRows
  <2>7. v.pc = "fetched" /\ v.steps = InOrder(rows) /\ v.snap = snap BY <1>2 DEF Pass
  <2>8. snap.last # 0 =>
           \A d \in bars : (snap.last < d /\ d < Last(InOrder(rows))) =>
             \/ d \in ToSet(InOrder(rows))
             \/ \E e \in UnrecoverableRows(frame, snap.last) :
                  d <= e /\ \A r \in ToSet(InOrder(rows)) : ~(d < r /\ r < e)
    <3> SUFFICES ASSUME snap.last \in Nat \ {0}
                 PROVE  \A d \in bars : (snap.last < d /\ d < Last(InOrder(rows))) =>
             \/ d \in ToSet(InOrder(rows))
             \/ \E e \in UnrecoverableRows(frame, snap.last) :
                  d <= e /\ \A r \in ToSet(InOrder(rows)) : ~(d < r /\ r < e)
      BY <1>2
    <3> HIDE DEF from, end, maxRows, snap
    <3> QED BY <1>1, <2>5, <2>6, RowsLeaveOut
  <2> DEFINE steps == InOrder(rows)
             new == UnrecoverableRows(frame, snap.last)
  <2>9. new \subseteq lost' BY <2>1
  <2> HIDE DEF v, steps, new
  <2>10. StepsCover(v, bars, late, lost')
    <3>1. v.steps = steps /\ v.snap = snap BY <2>7 DEF steps
    <3>2. \A i \in DOMAIN steps : steps[i] \in bars BY <2>6 DEF steps
    <3>3. snap.last # 0 =>
           \A d \in bars : (snap.last < d /\ d < Last(steps)) =>
             d \in ToSet(steps) \/ \E e \in new : d <= e /\ \A r \in ToSet(steps) : ~(d < r /\ r < e)
      BY <2>8 DEF steps, new
    <3> HIDE DEF snap
    <3> QED BY <2>9, <3>1, <3>2, <3>3 DEF StepsCover
  <2>11. ~torn => CarryKnown(v, row)
    <3> HIDE DEF rows
    <3> QED BY <1>2, <1>3, <2>7 DEF CarryKnown
  <2>12. lost \subseteq lost' BY <2>1
  <2> QED BY <1>2, <2>2, <2>4, <2>10, <2>11, <2>12, PassCovers
<1> QED BY <1>4, <1>5

\* The days of a record that has been extended.
LEMMA ConcatDays ==
  ASSUME NEW x \in Seq(Nat \ {0}), NEW y \in Seq(Nat \ {0}), NEW z, z = x \o y, y # <<>>
  PROVE  /\ ToSet(z) = ToSet(x) \cup ToSet(y)
         /\ Last(z) = Last(y) /\ Last(y) \in ToSet(y)
         /\ x # <<>> => z[1] = x[1] /\ Last(x) \in ToSet(x)
         /\ x = <<>> => z = y
<1>1. /\ Len(z) = Len(x) + Len(y) /\ Len(x) \in Nat /\ Len(y) \in Nat \ {0}
      /\ DOMAIN x = 1 .. Len(x) /\ DOMAIN y = 1 .. Len(y) /\ DOMAIN z = 1 .. Len(z)
      /\ \A i \in 1 .. Len(x) : z[i] = x[i]
      /\ \A i \in 1 .. Len(y) : z[Len(x) + i] = y[i]
      /\ \A i \in 1 .. Len(z) :
           i > Len(x) => i - Len(x) \in 1 .. Len(y) /\ z[i] = y[i - Len(x)]
  OBVIOUS
<1>2. x # <<>> => Len(x) # 0 OBVIOUS
<1>3. x = <<>> => z = y OBVIOUS
<1> DEFINE m == Len(x)
           n == Len(y)
<1> HIDE DEF m, n
<1>4. /\ m \in Nat /\ n \in Nat \ {0} /\ Len(z) = m + n
      /\ DOMAIN x = 1 .. m /\ DOMAIN y = 1 .. n /\ DOMAIN z = 1 .. (m + n)
      /\ \A i \in 1 .. m : z[i] = x[i]
      /\ \A i \in 1 .. n : z[m + i] = y[i]
      /\ \A i \in 1 .. (m + n) : i > m => i - m \in 1 .. n /\ z[i] = y[i - m]
  BY <1>1 DEF m, n
<1>5. ToSet(z) = ToSet(x) \cup ToSet(y)
  <2>1. ASSUME NEW i \in 1 .. (m + n) PROVE z[i] \in ToSet(x) \cup ToSet(y)
    <3>1. CASE i > m BY <1>4, <3>1 DEF ToSet
    <3>2. CASE i <= m
      <4>1. i \in 1 .. m BY <1>4, <3>2
      <4> QED BY <1>4, <4>1 DEF ToSet
    <3> QED BY <1>4, <3>1, <3>2
  <2>2. ASSUME NEW i \in 1 .. m PROVE x[i] \in ToSet(z)
    <3>1. i \in 1 .. (m + n) /\ x[i] = z[i] BY <1>4
    <3> QED BY <1>4, <3>1 DEF ToSet
  <2>3. ASSUME NEW i \in 1 .. n PROVE y[i] \in ToSet(z)
    <3>1. m + i \in 1 .. (m + n) /\ y[i] = z[m + i] BY <1>4
    <3> QED BY <1>4, <3>1 DEF ToSet
  <2>4. /\ ToSet(x) = {x[i] : i \in 1 .. m} /\ ToSet(y) = {y[i] : i \in 1 .. n}
        /\ ToSet(z) = {z[i] : i \in 1 .. (m + n)}
    BY <1>4 DEF ToSet
  <2>5. ToSet(z) \subseteq ToSet(x) \cup ToSet(y)  BY <2>1, <2>4
  <2>6. ToSet(x) \subseteq ToSet(z) /\ ToSet(y) \subseteq ToSet(z)  BY <2>2, <2>3, <2>4
  <2> QED BY <2>5, <2>6
<1>6. Last(z) = Last(y) /\ Last(y) \in ToSet(y)
  <2>1. Last(y) = y[n] /\ Last(z) = z[m + n] /\ n \in 1 .. n BY <1>4 DEF Last, n
  <2> QED BY <1>4, <2>1 DEF ToSet
<1>7. x # <<>> => z[1] = x[1] /\ Last(x) \in ToSet(x)
  <2> SUFFICES ASSUME x # <<>> PROVE z[1] = x[1] /\ Last(x) \in ToSet(x) OBVIOUS
  <2>1. 1 \in 1 .. m /\ m \in 1 .. m /\ Last(x) = x[m] BY <1>2, <1>4 DEF Last, m
  <2> QED BY <1>4, <2>1 DEF ToSet
<1> QED BY <1>3, <1>5, <1>6, <1>7

\* A record extended by steps that leave out only what is late or reported
\* has no gap but those.
LEMMA GapExtended ==
  ASSUME NEW x, NEW y, NEW z, z = x \o y, NEW last, Due(x, y, last), last = IF x = <<>> THEN 0 ELSE Last(x),
         NEW b \in SUBSET Nat, NEW la, NEW lo \in SUBSET b, NoGap(x, last, b, la, lo),
         last # 0 =>
           \A d \in b : (last < d /\ d < Last(y)) =>
             \/ d \in ToSet(y) \cup la
             \/ \E e \in lo : d <= e /\ \A r \in ToSet(y) : ~(d < r /\ r < e)
  PROVE  NoGap(z, Last(y), b, la, lo)
<1>1. x \in Seq(Nat \ {0}) /\ y \in Seq(Nat \ {0}) /\ y # <<>> /\ last \in Nat BY DEF Due
<1>2. /\ ToSet(z) = ToSet(x) \cup ToSet(y) /\ Last(y) \in ToSet(y)
      /\ x # <<>> => z[1] = x[1] /\ Last(x) \in ToSet(x)
      /\ x = <<>> => z = y
  BY <1>1, ConcatDays
<1>3. x = <<>> => y[1] = Last(y) BY <1>1 DEF Due, Last
<1>4. /\ x = <<>> <=> last = 0
      /\ \A r \in ToSet(x) : r \in Nat /\ r <= last
      /\ \A r \in ToSet(y) : r \in Nat /\ last < r
  BY <1>1 DEF Due, ToSet
<1> SUFFICES ASSUME NEW d \in b, z[1] < d, d < Last(y), z # <<>>
             PROVE  \/ d \in ToSet(z) \cup la
                    \/ \E e \in lo : d <= e /\ \A r \in ToSet(z) : ~(d < r /\ r < e)
  BY DEF NoGap
<1>5. d \in Nat /\ Last(y) \in Nat BY <1>2, <1>4
<1>6. CASE x = <<>> BY <1>2, <1>3, <1>5, <1>6
<1>7. CASE x # <<>>
  <2>1. last = Last(x) /\ last # 0 /\ last \in ToSet(x) /\ x[1] < d BY <1>2, <1>4, <1>7
  <2>2. CASE d = last BY <1>2, <2>1, <2>2
  <2>3. CASE d < last
    <3>1. CASE d \in ToSet(x) \cup la BY <1>2, <3>1
    <3>2. CASE \E e \in lo : d <= e /\ \A r \in ToSet(x) : ~(d < r /\ r < e)
      <4>1. PICK e \in lo : d <= e /\ \A r \in ToSet(x) : ~(d < r /\ r < e) BY <3>2
      <4>2. e \in Nat /\ e <= last BY <1>1, <2>1, <2>3, <4>1
      <4>3. \A r \in ToSet(y) : ~(r < e) BY <1>1, <1>4, <4>2
      <4> QED BY <1>2, <4>1, <4>3
    <3> QED BY <1>7, <2>1, <2>3, <3>1, <3>2 DEF NoGap
  <2>4. CASE last < d
    <3>1. CASE d \in ToSet(y) \cup la BY <1>2, <3>1
    <3>2. CASE \E e \in lo : d <= e /\ \A r \in ToSet(y) : ~(d < r /\ r < e)
      <4>1. PICK e \in lo : d <= e /\ \A r \in ToSet(y) : ~(d < r /\ r < e) BY <3>2
      <4>2. \A r \in ToSet(x) : ~(d < r) BY <1>1, <1>4, <1>5, <2>4
      <4> QED BY <1>2, <4>1, <4>2
    <3> QED BY <2>1, <2>4, <3>1, <3>2
  <2> QED BY <1>1, <1>5, <2>2, <2>3, <2>4
<1> QED BY <1>6, <1>7

\* The record as extended by a write is again the batch backtest's.
LEMMA RecordGrows ==
  ASSUME TypeOK, RecordOf(row, readings, bars), NEW snap \in Snapshot, snap.carry = row.carry,
         NEW steps, Due(row.days, steps, row.last), \A i \in DOMAIN steps : steps[i] \in bars,
         NEW a, a = ApplyForwardSteps(snap, row, steps), a.days = row.days \o steps,
         a.last = Last(steps)
  PROVE  RecordOf(a, readings, bars)
<1> DEFINE x == row.days
           y == steps
           z == a.days
<1>1. x \in Seq(Nat \ {0}) /\ y \in Seq(Nat \ {0}) /\ y # <<>> BY DEF Due
<1>2. Extended(x, y, z) BY RecordExtended
<1>3. /\ Len(z) = Len(x) + Len(y) /\ Len(x) \in Nat /\ Len(y) \in Nat
      /\ DOMAIN x = 1 .. Len(x) /\ DOMAIN y = 1 .. Len(y) /\ DOMAIN z = 1 .. Len(z)
      /\ \A i \in 1 .. Len(x) : z[i] = x[i]
      /\ \A i \in 1 .. Len(z) :
           i > Len(x) => i - Len(x) \in 1 .. Len(y) /\ z[i] = y[i - Len(x)]
  BY <1>1, ConcatParts
<1>4. /\ \A i, j \in DOMAIN x : i < j => x[i] < x[j]
      /\ \A i \in DOMAIN x : x[i] \in bars
  BY DEF RecordOf
<1>5. ASSUME NEW i \in DOMAIN z, NEW j \in DOMAIN z, i < j PROVE z[i] < z[j]
  <2>1. CASE j > Len(x) BY <1>2, <1>5, <2>1 DEF Extended
  <2>2. CASE j <= Len(x)
    <3> HIDE DEF x, y, z
    <3>1. i \in 1 .. Len(x) /\ j \in 1 .. Len(x) BY <1>3, <1>5, <2>2
    <3> QED BY <1>3, <1>4, <1>5, <3>1
  <2> HIDE DEF x, y, z
  <2> QED BY <1>3, <2>1, <2>2
<1>6. ASSUME NEW i \in DOMAIN z PROVE z[i] \in bars
  <2> HIDE DEF x, z
  <2>1. CASE i > Len(x) BY <1>3, <2>1
  <2>2. CASE i <= Len(x)
    <3>1. i \in 1 .. Len(x) BY <1>3, <2>2
    <3> QED BY <1>3, <1>4, <3>1
  <2> QED BY <1>3, <2>1, <2>2
<1>7. z # <<>> /\ a.last = Last(z) BY <1>1, ConcatDays, <1>2 DEF Extended
<1> DEFINE start == [carry |-> snap.carry, trades |-> row.trades]
           run == WalkThrough(start, steps, readings)
<1>8. start = RunWalkForward(x, readings) BY DEF RecordOf
<1>9. run = RunWalkForward(z, readings)
  BY <1>1, <1>8, WalkJoins DEF RunWalkForward
<1>10. start \in Runs BY DEF TypeOK, Row, Runs
<1>11. steps \in Seq(Nat) /\ \A i \in DOMAIN steps : readings[steps[i]] \in Readings
  <2>1. \A s : s \in Seq(Nat \ {0}) => s \in Seq(Nat) OBVIOUS
  <2> QED BY <1>1, <2>1, ValidationAssumption DEF TypeOK
<1>12. run \in Runs
  <2> HIDE DEF start
  <2> QED BY <1>10, <1>11, WalkTyped
<1>13. run = [carry |-> run.carry, trades |-> run.trades]
  <2> HIDE DEF run
  <2> QED BY <1>12 DEF Runs
<1>14. a.carry = run.carry /\ a.trades = run.trades
  <2> HIDE DEF run
  <2>1. a = [row EXCEPT !.n = @ + Len(steps), !.last = Last(steps),
                   !.days = @ \o steps, !.carry = run.carry, !.trades = run.trades,
                   !.status = IF @ = "in_progress" /\ row.n + Len(steps) >= Threshold
                              THEN "forward_validated" ELSE @]
    BY DEF ApplyForwardSteps, run
  <2> QED BY <2>1 DEF TypeOK, Row
<1>15. [carry |-> a.carry, trades |-> a.trades] = RunWalkForward(z, readings)
  BY <1>9, <1>13, <1>14
<1> HIDE DEF start, run
<1> QED BY <1>5, <1>6, <1>7, <1>15 DEF RecordOf

LEMMA EmptyRecord ==
  ASSUME NEW r, r.days = <<>>, r.last = 0, r.carry = FreshCarry, r.trades = <<>>, NEW rd, NEW b
  PROVE  RecordOf(r, rd, b)
<1> DEFINE none == <<>>
<1>0. DOMAIN none = 1 .. 0 /\ 0 \in Nat OBVIOUS
<1> HIDE DEF none
<1>1. PICK run : Walks(run, FreshRun, none, rd, 0) BY <1>0, WalkUnfolds
<1>2. RunWalkForward(<<>>, rd) = FreshRun BY <1>1 DEF Walks, RunWalkForward, none
<1> QED BY <1>2 DEF RecordOf, FreshRun

LEMMA CommitCovers ==
  ASSUME RInv, NEW p \in Passes, Commit(p)
  PROVE  RKept
<1> DEFINE s == pass[p]
           written == Present /\ row.id = s.snap.id
           a == ApplyForwardSteps(s.snap, s.seen, s.steps)
<1>0. /\ IInv /\ TypeOK /\ s.pc = "checked" /\ PassFine(s) /\ PassAgrees(s, row)
      /\ (~torn => CarryKnown(s, row)) /\ StepsCover(s, bars, late, lost)
      /\ UNCHANGED <<bars, today, readings, born, late, lost>>
  BY DEF Commit, RInv, IInv, PassesFine, PassesCover
<1>1. CASE ~written
  <2>1. pass' = [pass EXCEPT ![p] = Idle] /\ row' = row
    BY <1>1 DEF Commit
  <2>2. torn' = torn
    <3>1. torn' = (torn \/ (written /\ s.overtaken))
      BY DEF Commit
    <3>2. torn \in BOOLEAN
      BY <1>0 DEF TypeOK
    <3> QED
      BY <1>1, <3>1, <3>2, Zenon
  <2> QED
    BY <1>0, <2>1, <2>2, PassDrops
<1>2. CASE written
  <2>1. StepsFine(s) /\ SeenFine(s) /\ RowTyped(s.seen) /\ RowTyped(row)
    BY <1>0 DEF PassFine, SeenFine, IInv, RowFine
  <2>2. s.steps \in Seq(Nat \ {0}) /\ s.steps # <<>>
    BY <2>1 DEF StepsFine
  <2>3. Assigned(a, s.seen, s.steps)
    BY <2>1, <2>2, AppliedSteps
  <2>4. row' = Flush(s.seen, a, row) /\ pass' = Overtaking(p) /\ torn' = (torn \/ s.overtaken)
    BY <1>2 DEF Commit
  <2>5. s \in Pass /\ row \in Row BY <1>0 DEF TypeOK
  <2>6. s.snap \in Snapshot /\ s.seen \in Row BY <2>5 DEF Pass
  <2>7. \A i \in DOMAIN s.steps : s.steps[i] \in bars BY <1>0 DEF StepsCover
  <2>8. a \in Row
    <3>1. s.steps \in Seq(Nat) BY <2>5 DEF Pass
    <3>2. \A i \in DOMAIN s.steps : s.steps[i] \in 1 .. LastDay BY <1>0, <2>7 DEF TypeOK
    <3> QED BY <1>0, <2>2, <2>6, <3>1, <3>2, AppliedTyped
  <2>9. row' \in Row BY <2>4, <2>5, <2>8, FlushTyped
  <2>10. /\ row' = [c \in DOMAIN row |-> IF a[c] = s.seen[c] THEN row[c] ELSE a[c]]
    BY <2>4 DEF Flush
  <2> HIDE DEF a, s
  <2>11. /\ DOMAIN row' = Columns
         /\ \A c \in Columns : row'[c] \in {row[c], a[c]}
         /\ row = s.seen => \A c \in Columns : row'[c] = a[c]
    BY <2>1, <2>10 DEF RowTyped
  <2>12. row'.id = row.id
    BY <1>2, <2>1, <2>3, <2>11 DEF SeenFine, Assigned, Columns
  <2>13. TypeOK'
    <3>1. torn' \in BOOLEAN BY <2>4, Zenon
    <3>2. pass' \in [Passes -> Pass]
      <4>1. ASSUME NEW q \in Passes
            PROVE  (IF q = p THEN Idle
                    ELSE [pass[q] EXCEPT !.overtaken = @ \/ pass[q].pc = "checked"]) \in Pass
        <5>1. pass[q] \in Pass BY <1>0 DEF TypeOK
        <5>2. [pass[q] EXCEPT !.overtaken = @ \/ pass[q].pc = "checked"] \in Pass
          BY <5>1, OvertakenTyped
        <5> QED BY <5>2, FreshTyped, Zenon
      <4> QED BY <2>4, <4>1 DEF Overtaking
    <3> QED BY <1>0, <2>9, <3>1, <3>2 DEF TypeOK
  <2>14. ASSUME ~torn'
         PROVE  /\ RecordOf(row', readings, bars)
                /\ NoGap(row'.days, row'.last, bars, late, lost)
                /\ row'.last > row.last /\ RecordOf(row, readings, bars)
    <3>1. ~torn /\ ~s.overtaken BY <2>4, <2>14, Zenon
    <3>2. row = s.seen
      BY <1>0, <1>2, <3>1 DEF PassAgrees, Present
    <3>3. /\ row'.days = a.days /\ row'.last = a.last
          /\ row'.carry = a.carry /\ row'.trades = a.trades
      BY <2>11, <3>2 DEF Columns
    <3>4. RowWhole(row) /\ row.last = s.snap.last
      BY <1>0, <2>1, <3>1, <3>2 DEF IInv, RowFine, SeenFine
    <3>5. RecordOf(row, readings, bars) /\ NoGap(row.days, row.last, bars, late, lost)
      BY <3>1 DEF RInv, RecordFine
    <3>6. Due(row.days, s.steps, row.last)
      BY <2>1, <3>4 DEF Due, RowTyped, RowWhole, StepsFine
    <3>7. s.snap.carry = row.carry
      <4>1. CarryKnown(s, row) BY <1>0, <3>1
      <4> QED BY <1>0, <1>2, <3>4, <4>1 DEF CarryKnown, Present
    <3>8. a = ApplyForwardSteps(s.snap, row, s.steps) BY <3>2 DEF a
    <3>9. a.days = row.days \o s.steps /\ a.last = Last(s.steps)
      BY <2>3, <3>2 DEF Assigned, Last
    <3>10. RecordOf(a, readings, bars)
      BY <1>0, <2>6, <2>7, <3>5, <3>6, <3>7, <3>8, <3>9, RecordGrows
    <3>11. RecordOf(row', readings, bars) BY <3>3, <3>10 DEF RecordOf
    <3>12. NoGap(row'.days, row'.last, bars, late, lost)
      <4> DEFINE x == row.days
                 y == s.steps
                 z == row'.days
                 l == row.last
      <4>1. z = x \o y /\ row'.last = Last(y) BY <3>3, <3>9
      <4>2. l = IF x = <<>> THEN 0 ELSE Last(x) BY <3>5 DEF RecordOf
      <4>3. bars \in SUBSET Nat /\ lost \in SUBSET bars BY <1>0 DEF TypeOK
      <4>4. NoGap(x, l, bars, late, lost) /\ Due(x, y, l) BY <3>5, <3>6
      <4>5. l # 0 =>
              \A d \in bars : (l < d /\ d < Last(y)) =>
                \/ d \in ToSet(y) \cup late
                \/ \E e \in lost : d <= e /\ \A r \in ToSet(y) : ~(d < r /\ r < e)
        BY <1>0, <3>4 DEF StepsCover
      <4> HIDE DEF x, y, z, l
      <4>6. NoGap(z, Last(y), bars, late, lost)
        BY <4>1, <4>2, <4>3, <4>4, <4>5, GapExtended
      <4> QED BY <4>1, <4>6 DEF z
    <3>13. row'.last > row.last
      <4>1. s.steps \in Seq(Nat \ {0}) /\ \A i \in DOMAIN s.steps : row.last < s.steps[i]
        BY <3>6 DEF Due
      <4>2. Last(s.steps) > row.last BY <2>2, <4>1 DEF Last
      <4> QED BY <3>3, <3>9, <4>2
    <3> QED BY <3>5, <3>11, <3>12, <3>13
  <2>15. RecordFine' BY <1>0, <2>14 DEF RecordFine
  <2>16. ASSUME NEW q \in Passes
         PROVE  (~torn' => CarryKnown(pass'[q], row')) /\ StepsCover(pass'[q], bars, late, lost)
    <3>1. CASE q = p
      <4>1. pass'[q] = Idle BY <2>4, <3>1 DEF Overtaking
      <4> QED BY <4>1, IdleCovers
    <3>2. CASE q # p
      <4> DEFINE v == pass'[q]
      <4>1. v = [pass[q] EXCEPT !.overtaken = @ \/ pass[q].pc = "checked"]
        BY <2>4, <3>2 DEF Overtaking
      <4>2. pass[q] \in Pass BY <1>0 DEF TypeOK
      <4>3. v.pc = pass[q].pc /\ v.snap = pass[q].snap /\ v.steps = pass[q].steps
        BY <4>1, <4>2 DEF Pass
      <4>4. (~torn => CarryKnown(pass[q], row)) /\ StepsCover(pass[q], bars, late, lost)
        BY DEF RInv, PassesCover
      <4> HIDE DEF v
      <4>5. StepsCover(v, bars, late, lost) BY <4>3, <4>4 DEF StepsCover
      <4>6. ASSUME ~torn' PROVE CarryKnown(v, row')
        <5>1. ~torn BY <2>4, <4>6, Zenon
        <5>2. CarryKnown(pass[q], row) BY <4>4, <5>1
        <5>3. row'.last > row.last BY <2>14, <4>6
        <5>4. row.last \in Nat /\ row'.last \in Nat /\ pass[q].snap.last \in Nat
          BY <2>5, <2>9, <4>2 DEF Row, Pass, Snapshot
        <5> QED BY <1>2, <2>12, <4>3, <5>2, <5>3, <5>4 DEF CarryKnown, Present
      <4> QED BY <4>5, <4>6 DEF v
    <3> QED BY <3>1, <3>2
  <2>17. PassesCover' BY <1>0, <2>16 DEF PassesCover
  <2> QED BY <2>13, <2>15, <2>17 DEF RKept
<1> QED
  BY <1>1, <1>2

LEMMA ParkCovers ==
  ASSUME RInv, Park
  PROVE  RKept
<1>1. /\ row.status \in ActiveStatuses /\ row' = [row EXCEPT !.status = "underperforming"]
      /\ UNCHANGED <<bars, today, readings, born, late, lost, torn>>
      /\ pass' = [q \in Passes |-> [pass[q] EXCEPT !.overtaken = @ \/ pass[q].pc = "checked"]]
      /\ TypeOK
  BY DEF Park, RInv
<1>2. row \in Row BY <1>1 DEF TypeOK
<1>3. /\ row' \in Row /\ row'.id = row.id /\ row'.last = row.last /\ row'.days = row.days
      /\ row'.carry = row.carry /\ row'.trades = row.trades
  BY <1>1, <1>2 DEF Row, Statuses
<1>4. row.status # "none" BY <1>1 DEF ActiveStatuses
<1>5. pass' \in [Passes -> Pass]
  <2>1. ASSUME NEW q \in Passes
        PROVE  [pass[q] EXCEPT !.overtaken = @ \/ pass[q].pc = "checked"] \in Pass
    <3>1. pass[q] \in Pass BY <1>1 DEF TypeOK
    <3> QED BY <3>1, OvertakenTyped
  <2> QED BY <1>1, <2>1
<1>6. TypeOK' BY <1>1, <1>3, <1>5 DEF TypeOK
<1>7. RecordFine' BY <1>1, <1>3 DEF RInv, RecordFine, RecordOf
<1>8. ASSUME NEW q \in Passes
      PROVE  (~torn => CarryKnown(pass'[q], row')) /\ StepsCover(pass'[q], bars, late, lost)
  <2> DEFINE v == pass'[q]
  <2>1. v = [pass[q] EXCEPT !.overtaken = @ \/ pass[q].pc = "checked"] BY <1>1
  <2>2. pass[q] \in Pass BY <1>1 DEF TypeOK
  <2>3. v.pc = pass[q].pc /\ v.snap = pass[q].snap /\ v.steps = pass[q].steps
    BY <2>1, <2>2 DEF Pass
  <2>4. (~torn => CarryKnown(pass[q], row)) /\ StepsCover(pass[q], bars, late, lost)
    BY DEF RInv, PassesCover
  <2> HIDE DEF v
  <2>5. StepsCover(v, bars, late, lost) BY <2>3, <2>4 DEF StepsCover
  <2>6. ~torn => CarryKnown(v, row') BY <1>3, <1>4, <2>3, <2>4 DEF CarryKnown
  <2> QED BY <2>5, <2>6 DEF v
<1>9. PassesCover' BY <1>1, <1>8 DEF PassesCover
<1> QED BY <1>6, <1>7, <1>9 DEF RKept

\* The row is replaced by a fresh one: with no status, or with the next id.
LEMMA FreshCovers ==
  ASSUME RInv, NEW id \in Nat, NEW st \in {"none", "in_progress"},
         row' = FreshRow(id, st), st = "none" \/ id = row.id + 1, born' \subseteq bars,
         UNCHANGED <<bars, today, readings, pass, late, lost, torn>>
  PROVE  RKept
<1>1. row' \in Row BY FreshTyped DEF Statuses, ActiveStatuses
<1>2. TypeOK' BY <1>1 DEF RInv, TypeOK
<1>3. /\ row'.days = <<>> /\ row'.last = 0 /\ row'.carry = FreshCarry /\ row'.trades = <<>>
      /\ row'.status = st /\ row'.id = id
  BY DEF FreshRow
<1>4. RecordOf(row', readings, bars) BY <1>3, EmptyRecord
<1>5. RecordFine' BY <1>3, <1>4 DEF RecordFine, NoGap
<1>6. ASSUME NEW q \in Passes PROVE CarryKnown(pass[q], row')
  <2>1. PassAgrees(pass[q], row) /\ PassFine(pass[q]) BY DEF RInv, IInv, PassesFine
  <2>2. row.id \in Nat BY DEF RInv, TypeOK, Row
  <2>3. pass[q].pc # "idle" => pass[q].snap.id \in Nat /\ pass[q].snap.id <= row.id
    BY <2>1 DEF PassAgrees, PassFine
  <2> QED BY <1>3, <2>2, <2>3 DEF CarryKnown
<1>7. PassesCover' BY <1>6 DEF RInv, PassesCover
<1> QED BY <1>2, <1>5, <1>7 DEF RKept

LEMMA DeleteCovers ==
  ASSUME RInv, Delete
  PROVE  RKept
<1>1. row.id \in Nat /\ born \subseteq bars BY DEF RInv, TypeOK, Row
<1> QED BY <1>1, FreshCovers DEF Delete

LEMMA RegisterCovers ==
  ASSUME RInv, Register
  PROVE  RKept
<1>1. row.id \in Nat BY DEF RInv, TypeOK, Row
<1>2. row.id + 1 \in Nat BY <1>1
<1> QED BY <1>2, FreshCovers DEF Register

\* A step of the calendar: a new bar is the newest, or late.
LEMMA CalendarCovers ==
  ASSUME RInv, TypeOK', bars \subseteq bars', late \subseteq late',
         \A d \in bars' \ bars : \A e \in bars : d < e => d \in late',
         UNCHANGED <<row, readings, pass, lost, torn>>
  PROVE  RKept
<1>1. IInv /\ TypeOK BY DEF RInv
<1>2. RecordFine'
  <2> SUFFICES ASSUME ~torn PROVE RecordOf(row, readings, bars') /\ NoGap(row.days, row.last, bars', late', lost)
    BY DEF RecordFine
  <2>1. RecordOf(row, readings, bars) /\ NoGap(row.days, row.last, bars, late, lost)
    BY DEF RInv, RecordFine
  <2>2. row.days # <<>> => row.last \in bars
    <3> DEFINE x == row.days
    <3>1. x \in Seq(Nat) BY <1>1 DEF TypeOK, Row
    <3>2. x # <<>> => Last(x) = x[Len(x)] /\ Len(x) \in DOMAIN x BY <3>1 DEF Last
    <3> QED BY <2>1, <3>2 DEF RecordOf
  <2>3. RecordOf(row, readings, bars') BY <2>1 DEF RecordOf
  <2>4. NoGap(row.days, row.last, bars', late', lost) BY <2>1, <2>2 DEF NoGap
  <2> QED BY <2>3, <2>4
<1>3. ASSUME NEW q \in Passes
      PROVE  (~torn => CarryKnown(pass[q], row)) /\ StepsCover(pass[q], bars', late', lost)
  <2> DEFINE v == pass[q]
  <2>1. (~torn => CarryKnown(v, row)) /\ StepsCover(v, bars, late, lost) /\ PassFine(v)
    BY DEF RInv, PassesCover, IInv, PassesFine
  <2> HIDE DEF v
  <2>2. StepsCover(v, bars', late', lost)
    <3> SUFFICES ASSUME v.pc \in {"fetched", "checked"} PROVE StepsCover(v, bars', late', lost)
      BY DEF StepsCover
    <3>1. v.steps \in Seq(Nat \ {0}) /\ v.steps # <<>> BY <2>1 DEF PassFine, StepsFine
    <3>2. Last(v.steps) = v.steps[Len(v.steps)] /\ Len(v.steps) \in DOMAIN v.steps
      BY <3>1 DEF Last
    <3>3. Last(v.steps) \in bars BY <2>1, <3>2 DEF StepsCover
    <3> QED BY <2>1, <3>3 DEF StepsCover
  <2> QED BY <2>1, <2>2 DEF v
<1>4. PassesCover' BY <1>3 DEF PassesCover
<1> QED BY <1>2, <1>4 DEF RKept

LEMMA DayPassesCovers ==
  ASSUME RInv, DayPasses
  PROVE  RKept
<1>1. /\ IInv /\ TypeOK /\ today < LastDay /\ today' = today + 1 /\ bars' \in {bars, bars \cup {today}}
      /\ UNCHANGED <<row, readings, pass, born, late, lost, torn>>
  BY DEF RInv, DayPasses
<1>2. today \in FirstDay .. LastDay /\ today \in 1 .. LastDay /\ today' \in FirstDay .. LastDay
  BY <1>1, ValidationAssumption DEF TypeOK
<1>3. TypeOK' BY <1>1, <1>2 DEF TypeOK
<1>4. \A e \in bars : e \in Nat /\ e < today BY <1>1 DEF IInv, CalendarFine
<1>5. \A d \in bars' \ bars : \A e \in bars : d < e => d \in late' BY <1>1, <1>2, <1>4
<1> QED BY <1>1, <1>3, <1>5, CalendarCovers

LEMMA PublishCovers ==
  ASSUME RInv, NEW d \in 1 .. LastDay, Publish(d)
  PROVE  RKept
<1>1. /\ TypeOK /\ bars' = bars \cup {d}
      /\ late' = (IF \E e \in bars : e > d THEN late \cup {d} ELSE late)
      /\ UNCHANGED <<row, today, readings, pass, born, lost, torn>>
  BY DEF RInv, Publish
<1>2. late \subseteq late' /\ late' \subseteq late \cup {d} BY <1>1
<1>3. TypeOK' BY <1>1, <1>2 DEF TypeOK
<1>4. \A e \in bars : d < e => e > d BY <1>1 DEF TypeOK
<1>5. \A x \in bars' \ bars : \A e \in bars : x < e => x \in late' BY <1>1, <1>4
<1> QED BY <1>1, <1>2, <1>3, <1>5, CalendarCovers

LEMMA InitRInv == Init => RInv
<1> SUFFICES ASSUME Init PROVE RInv OBVIOUS
<1>1. IInv BY InitIInv
<1>2. /\ row = NoRow /\ bars = 1 .. (FirstDay - 1) /\ today = FirstDay /\ readings \in Calendars
      /\ pass = [p \in Passes |-> Idle] /\ born = {} /\ late = {} /\ lost = {} /\ torn = FALSE
  BY DEF Init
<1>3. row \in Row BY <1>2, FreshTyped DEF NoRow, Statuses
<1>4. pass \in [Passes -> Pass] BY <1>2, FreshTyped
<1>5. bars \subseteq 1 .. LastDay /\ today \in FirstDay .. LastDay
  BY <1>2, ValidationAssumption
<1>6. TypeOK BY <1>2, <1>3, <1>4, <1>5 DEF TypeOK
<1>7. /\ row.days = <<>> /\ row.last = 0 /\ row.carry = FreshCarry /\ row.trades = <<>>
  BY <1>2 DEF NoRow, FreshRow
<1>8. RecordOf(row, readings, bars) BY <1>7, EmptyRecord
<1>9. RecordFine BY <1>7, <1>8 DEF RecordFine, NoGap
<1>10. PassesCover BY <1>2, IdleCovers DEF PassesCover
<1> QED BY <1>1, <1>6, <1>9, <1>10 DEF RInv

LEMMA NextCovers == RInv /\ [Next]_vars => RInv'
<1> SUFFICES ASSUME RInv, [Next]_vars PROVE RInv' OBVIOUS
<1>1. IInv' BY NextKept DEF Kept, RInv
<1>2. RKept
  <2>1. CASE UNCHANGED vars
    BY <2>1 DEF vars, RInv, RKept, TypeOK, RecordFine, PassesCover
  <2>2. ASSUME NEW p \in Passes, PassStep(p) PROVE RKept
    BY <2>2, LoadCovers, FetchCovers, CheckCovers, CommitCovers, AbandonCovers DEF PassStep
  <2>3. ASSUME NEW d \in 1 .. LastDay, Publish(d) PROVE RKept
    BY <2>3, PublishCovers
  <2> QED
    BY <2>1, <2>2, <2>3, ParkCovers, DeleteCovers, RegisterCovers, DayPassesCovers DEF Next
<1> QED BY <1>1, <1>2 DEF RInv, RKept

\* The second invariant holds of every behaviour.
LEMMA RecordInvariant == Spec => []RInv
BY InitRInv, NextCovers, PTL DEF Spec

\* The row, what every pass has in hand and the calendar keep their types,
\* through every interleaving of passes, deletions and registrations.
THEOREM ValidationTypes == Spec => []TypeOK
<1>1. RInv => TypeOK BY DEF RInv
<1> QED BY <1>1, RecordInvariant, PTL

\* What the properties read off the invariant.
LEMMA RecordSays == RInv => RecordIsABacktest
<1> SUFFICES ASSUME RInv, ~torn
             PROVE  LET run == RunWalkForward(row.days, readings)
                    IN  /\ row.carry = run.carry /\ row.trades = run.trades
                        /\ row.n = Len(row.days)
                        /\ row.last = IF row.days = <<>> THEN Never ELSE Last(row.days)
  BY DEF RecordIsABacktest
<1>1. RecordOf(row, readings, bars) BY DEF RInv, RecordFine
<1>2. row.n = Len(row.days) BY DEF RInv, IInv, RowFine, RowWhole
<1> DEFINE run == RunWalkForward(row.days, readings)
<1>3. [carry |-> row.carry, trades |-> row.trades] = run BY <1>1 DEF RecordOf
<1> HIDE DEF run
<1>4. run.carry = row.carry /\ run.trades = row.trades BY <1>3
<1>5. row.last = IF row.days = <<>> THEN Never ELSE Last(row.days) BY <1>1 DEF RecordOf
<1> QED BY <1>2, <1>4, <1>5 DEF run

\* Ticks, backfills and crashes of any number of passes leave the state the
\* batch backtest has after the recorded days (apply_forward_steps chains
\* step_one_day from the persisted state): carry, closed trades, counter and
\* last date, as long as no write landed on one it did not know of.
THEOREM RecordIsTheBacktest == Spec => []RecordIsABacktest
BY RecordInvariant, RecordSays, PTL

LEMMA TradesSay == RInv => TradesMatchTheRecord
<1> SUFFICES ASSUME RInv, ~torn, NEW i \in DOMAIN row.trades
             PROVE  LET t == row.trades[i]
                    IN  /\ t.held = Cardinality({k \in DOMAIN row.days : t.entry <= row.days[k] /\ row.days[k] < t.exit})
                        /\ t.held >= 1 /\ t.direction # 0
                        /\ \A j \in DOMAIN row.trades : i < j => t.exit < row.trades[j].entry
  BY DEF TradesMatchTheRecord
<1> DEFINE days == row.days
           run == RunWalkForward(days, readings)
<1>1. RecordOf(row, readings, bars) BY DEF RInv, RecordFine
<1>2. days \in Seq(Nat \ {0}) BY DEF RInv, IInv, RowFine, RowTyped
<1>3. \A k, j \in DOMAIN days : k < j => days[k] < days[j] BY <1>1 DEF RecordOf
<1>4. \A k \in DOMAIN days : readings[days[k]] \in Readings
  BY <1>1, ValidationAssumption DEF RecordOf, RInv, TypeOK
<1>5. [carry |-> row.carry, trades |-> row.trades] = run BY <1>1 DEF RecordOf
<1>6. run.trades = row.trades
  <2> HIDE DEF run
  <2> QED BY <1>5
<1>7. ClosedAccounted(run.trades, days, Len(days))
  <2> HIDE DEF days
  <2> QED BY <1>2, <1>3, <1>4, BacktestTrades
<1>8. DOMAIN days = 1 .. Len(days) BY <1>2
<1> DEFINE t == row.trades[i]
<1>9. /\ t.held = Cardinality(Spell(days, Len(days), t.entry, t.exit))
      /\ t.held >= 1 /\ t.direction # 0
      /\ \A j \in DOMAIN row.trades : i < j => t.exit < row.trades[j].entry
  <2> HIDE DEF run, days
  <2> QED BY <1>6, <1>7 DEF ClosedAccounted
<1>10. Spell(days, Len(days), t.entry, t.exit)
         = {k \in DOMAIN row.days : t.entry <= row.days[k] /\ row.days[k] < t.exit}
  BY <1>8 DEF Spell
<1> QED BY <1>9, <1>10

\* A persisted trade was held for exactly the recorded days from its entry up
\* to its exit, and no two trades of a record overlap (step_one_day's open and
\* close, through any number of passes and days).
THEOREM TradesMatch == Spec => []TradesMatchTheRecord
BY RecordInvariant, TradesSay, PTL

\* No published day inside the record is left out unless it was published late
\* or lies in a gap of which a pass has reported a day (rows_to_process takes
\* the oldest rows first, unrecoverable_rows names the others).
THEOREM NoGapIsSilent == Spec => []NoSilentGap
<1>1. RInv => NoSilentGap BY DEF RInv, RecordFine, NoGap, NoSilentGap
<1> QED BY <1>1, RecordInvariant, PTL
===============================================================================
