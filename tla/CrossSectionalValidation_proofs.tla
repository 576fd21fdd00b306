-------------------- MODULE CrossSectionalValidation_proofs --------------------
(***************************************************************************)
(* The record of a cross-sectional forward validation, for any holding     *)
(* period, catch-up limit, calendar, panel and definitions.                *)
(*                                                                         *)
(* The batch replay finds the book of a day by looking through the whole   *)
(* record; the runner knows only the state the last day left it.  What     *)
(* ties the two together is the day a formation falls on, counted from     *)
(* the first day of the record: the state says how far the last formation  *)
(* is behind, and what every day recorded says of it.                      *)
(***************************************************************************)
EXTENDS CrossSectionalValidation, FiniteSetTheorems, WellFoundedInduction, TLAPS

\* The place of the formation whose book the j-th day of a record is earned by.
Formation(j) == (j - 1) - ((j - 2) % HoldingDays)

\* What the j-th day of a record says, all but its own date and wholeness.
DayFine(days, j, spec) ==
  /\ days[j].by = spec
  /\ days[j].reformed <=> (j - 1) % HoldingDays = 0
  /\ IF j = 1 THEN ~Realized(days[j])
     ELSE /\ days[j].book = days[Formation(j)].day
          /\ days[j].charged = IF j = Formation(j) + 1 THEN days[j - 1].day ELSE 0
          /\ days[j].base = days[j - 1].day

\* The state after the last day of a record: the day after it is of the next
\* place.
CarryFine(days, carry) ==
  IF days = <<>> THEN carry = FreshCarry
  ELSE /\ carry.since = (Len(days) - 1) % HoldingDays
       /\ carry.book = days[Formation(Len(days) + 1)].day
       /\ carry.pending = IF carry.since = 0 THEN carry.book ELSE 0

Ascending(days) == \A i, j \in 1 .. Len(days) : i < j => days[i].day < days[j].day

RecordFine(days, carry, spec) ==
  /\ days \in Seq(DayResult) /\ carry \in Carry
  /\ \A j \in 1 .. Len(days) : days[j].day # 0 /\ DayFine(days, j, spec)
  /\ Ascending(days)
  /\ CarryFine(days, carry)

LastDayOf(days) == IF days = <<>> THEN Never ELSE days[Len(days)].day

\* A registration row, or a row as a tick has loaded it.
RowFine(r) ==
  /\ r \in Row
  /\ RecordFine(r.days, r.carry, r.spec)
  /\ r.n = (IF r.days = <<>> THEN 0 ELSE Len(r.days) - 1)
  /\ r.last = LastDayOf(r.days)

Graduated == row.status = "forward_validated" => row.n >= GraduationThreshold

\* The provider's rows: the days before the first are there, and none is of the
\* future.
RowsOf(frame) ==
  /\ frame \in [1 .. LastDay -> Kinds]
  /\ \A d \in 1 .. LastDay : d < FirstDay => frame[d] # "absent"
  /\ \A d \in 1 .. LastDay : frame[d] # "absent" => d < today

PanelFine ==
  /\ RowsOf(panel) /\ row.last < today
  /\ row.last # Never => panel[row.last] # "absent"

\* What a tick holds is still the row's, unless that is another registration now.
TickFine ==
  /\ tick \in Tick
  /\ tick.pc # "idle" =>
       /\ RowFine(tick.snap) /\ tick.snap.id <= row.id
       /\ Present /\ row.id = tick.snap.id =>
            /\ row.days = tick.snap.days /\ row.carry = tick.snap.carry
            /\ row.n = tick.snap.n /\ row.last = tick.snap.last /\ row.spec = tick.snap.spec
       /\ tick.snap.last < today
       /\ tick.snap.last # Never => panel[tick.snap.last] # "absent"
  /\ tick.pc = "built" =>
       /\ RowsOf(tick.frame)
       /\ \A d \in 1 .. LastDay : tick.frame[d] # "absent" => panel[d] # "absent"
       /\ tick.snap.last # Never => tick.frame[tick.snap.last] # "absent"

Surroundings ==
  /\ today \in FirstDay .. LastDay
  /\ version \in Versions
  /\ faults \in 0 .. MaxFaults

IInv == RowFine(row) /\ Graduated /\ PanelFine /\ TickFine /\ Surroundings

-------------------------------------------------------------------------------
(* Places of a record and holding periods.                                 *)

\* Induction over the naturals, of a set in place of a predicate.
LEMMA NatInductionBySet ==
  ASSUME NEW S \in SUBSET Nat, 0 \in S, \A n \in S : n + 1 \in S
  PROVE  S = Nat
<1> DEFINE R == OpToRel(<, Nat)
<1>1. IsWellFoundedOn(R, Nat)  BY NatLessThanWellFounded
<1>2. \A x, y \in Nat : y < x => <<y, x>> \in R  BY DEF OpToRel
<1> HIDE DEF R
<1>3. SUFFICES ASSUME Nat \ S # {} PROVE FALSE  OBVIOUS
<1>4. PICK m \in Nat \ S : \A y \in Nat \ S : ~ (<<y, m>> \in R)
  BY <1>1, <1>3, WFMin
<1>5. m # 0 /\ m - 1 \in Nat /\ m - 1 < m  OBVIOUS
<1>6. m - 1 \in S  BY <1>2, <1>4, <1>5
<1>7. (m - 1) + 1 \in S  BY <1>6
<1> QED  BY <1>7, <1>5

LEMMA PeriodsGrow ==
  ASSUME NEW x \in Int, NEW y \in Int, x < y
  PROVE  HoldingDays * x + HoldingDays <= HoldingDays * y
<1>1. HoldingDays * (y - x) >= HoldingDays * 1
  BY CrossSectionalAssumption, SMTT(20)
<1> QED BY <1>1, CrossSectionalAssumption, SMTT(20)

LEMMA RemainderIs ==
  ASSUME NEW a \in Nat, NEW q \in Int, NEW r \in 0 .. HoldingDays - 1, a = HoldingDays * q + r
  PROVE  a % HoldingDays = r
  BY CrossSectionalAssumption, Z3

LEMMA Division ==
  ASSUME NEW a \in Nat
  PROVE  \E q \in Nat, r \in 0 .. HoldingDays - 1 : a = HoldingDays * q + r
<1> DEFINE N == {n \in Nat : \E q \in Nat, r \in 0 .. HoldingDays - 1 : n = HoldingDays * q + r}
<1>1. 0 \in N
  <2>1. 0 = HoldingDays * 0 + 0 /\ 0 \in 0 .. HoldingDays - 1 BY CrossSectionalAssumption
  <2> QED BY <2>1
<1>2. ASSUME NEW n \in N PROVE n + 1 \in N
  <2>1. PICK q \in Nat, r \in 0 .. HoldingDays - 1 : n = HoldingDays * q + r OBVIOUS
  <2>2. CASE r + 1 < HoldingDays
    <3>1. r + 1 \in 0 .. HoldingDays - 1 /\ n + 1 = HoldingDays * q + (r + 1) BY <2>1, <2>2, CrossSectionalAssumption
    <3> QED BY <3>1
  <2>3. CASE r + 1 = HoldingDays
    <3>1. n + 1 = HoldingDays * (q + 1) + 0 /\ 0 \in 0 .. HoldingDays - 1 /\ q + 1 \in Nat BY <2>1, <2>3, CrossSectionalAssumption
    <3> QED BY <3>1
  <2> QED BY <2>2, <2>3, CrossSectionalAssumption
<1>3. N \subseteq Nat OBVIOUS
<1> HIDE DEF N
<1>4. N = Nat BY <1>1, <1>2, <1>3, NatInductionBySet
<1>5. a \in N BY <1>4
<1> QED BY <1>5 DEF N

LEMMA NextPlace ==
  ASSUME NEW a \in Nat
  PROVE  /\ a % HoldingDays \in 0 .. HoldingDays - 1
         /\ (a + 1) % HoldingDays = IF (a % HoldingDays) + 1 = HoldingDays THEN 0 ELSE (a % HoldingDays) + 1
<1>1. PICK q \in Nat, r \in 0 .. HoldingDays - 1 : a = HoldingDays * q + r BY Division
<1>2. a % HoldingDays = r BY <1>1, RemainderIs
<1>3. CASE r + 1 < HoldingDays
  <2>1. r + 1 \in 0 .. HoldingDays - 1 /\ a + 1 = HoldingDays * q + (r + 1) BY <1>1, <1>3, CrossSectionalAssumption
  <2>2. (a + 1) % HoldingDays = r + 1 BY <2>1, RemainderIs
  <2> QED BY <1>2, <1>3, <2>2, CrossSectionalAssumption
<1>4. CASE r + 1 = HoldingDays
  <2>1. 0 \in 0 .. HoldingDays - 1 /\ a + 1 = HoldingDays * (q + 1) + 0 BY <1>1, <1>4, CrossSectionalAssumption
  <2>2. (a + 1) % HoldingDays = 0 BY <2>1, RemainderIs
  <2> QED BY <1>2, <1>4, <2>2, CrossSectionalAssumption
<1> QED BY <1>3, <1>4, CrossSectionalAssumption

LEMMA FormationsApart ==
  ASSUME NEW a \in Nat, NEW b \in Nat, a % HoldingDays = 0, b % HoldingDays = 0, a < b
  PROVE  a + HoldingDays <= b
<1>1. PICK p \in Nat, r \in 0 .. HoldingDays - 1 : a = HoldingDays * p + r BY Division
<1>2. PICK q \in Nat, s \in 0 .. HoldingDays - 1 : b = HoldingDays * q + s BY Division
<1>3. r = 0 /\ s = 0 BY <1>1, <1>2, RemainderIs
<1>4. ASSUME q <= p PROVE FALSE
  <2>1. CASE q = p BY <1>1, <1>2, <1>3, <2>1, CrossSectionalAssumption
  <2>2. CASE q < p
    <3>1. HoldingDays * q + HoldingDays <= HoldingDays * p BY <2>2, PeriodsGrow
    <3> QED BY <1>1, <1>2, <1>3, <3>1, CrossSectionalAssumption
  <2> QED BY <1>4, <2>1, <2>2
<1>5. HoldingDays * p + HoldingDays <= HoldingDays * q BY <1>4, PeriodsGrow
<1> QED BY <1>1, <1>2, <1>3, <1>5, CrossSectionalAssumption


\* The formation of a day's book is the only one in the holding period before it.
LEMMA FormationIs ==
  ASSUME NEW j \in Nat, j >= 2
  PROVE  /\ Formation(j) \in 1 .. (j - 1) /\ j <= Formation(j) + HoldingDays
         /\ (Formation(j) - 1) % HoldingDays = 0
<1>1. j - 2 \in Nat OBVIOUS
<1>2. PICK q \in Nat, r \in 0 .. HoldingDays - 1 : j - 2 = HoldingDays * q + r BY <1>1, Division
<1>3. (j - 2) % HoldingDays = r BY <1>1, <1>2, RemainderIs
<1> DEFINE i == (j - 1) - r
<1>4. HoldingDays * q \in Nat BY CrossSectionalAssumption
<1>5. i - 1 = HoldingDays * q + 0 /\ i - 1 \in Nat /\ 0 \in 0 .. HoldingDays - 1 BY <1>2, <1>4, CrossSectionalAssumption
<1>6. (i - 1) % HoldingDays = 0 BY <1>5, RemainderIs
<1>7. i \in 1 .. j - 1 /\ j <= i + HoldingDays BY <1>2, <1>4, <1>5, CrossSectionalAssumption
<1> QED BY <1>3, <1>6, <1>7 DEF Formation

-------------------------------------------------------------------------------
(* One day.                                                                *)

\* What step_one_cross_sectional_day records of a day.
Day(frame, c, d) ==
  [day |-> d, base |-> RowBefore(frame, d), charged |-> Charge(c), book |-> c.book,
   reformed |-> Reforms(c), by |-> version, whole |-> frame[d] = "whole"]

LEMMA StepIs ==
  ASSUME NEW frame, NEW s, NEW d
  PROVE  StepOneDay(frame, s, d) =
           [carry |-> NextCarry(s.carry, d), days |-> Append(s.days, Day(frame, s.carry, d))]
<1> QED  BY DEF StepOneDay, Day

LEMMA CarryTypes ==
  ASSUME NEW c \in Carry, NEW d \in Nat
  PROVE  NextCarry(c, d) \in Carry /\ Charge(c) \in Nat
<1> USE CrossSectionalAssumption
<1>1. c.since \in 0 .. HoldingDays - 1 /\ c.book \in Nat /\ c.pending \in Nat  BY DEF Carry
<1>2. Charge(c) \in Nat  BY <1>1 DEF Charge
<1>3. CASE Reforms(c)
  <2>1. NextCarry(c, d) = [since |-> 0, book |-> d, pending |-> d]  BY <1>3 DEF NextCarry
  <2> QED  BY <1>2, <2>1 DEF Carry
<1>4. CASE ~Reforms(c)
  <2>1. NextCarry(c, d) = [since |-> c.since + 1, book |-> c.book, pending |-> 0]
    BY <1>4 DEF NextCarry
  <2>2. c.since + 1 \in 0 .. HoldingDays - 1  BY <1>1, <1>4 DEF Reforms
  <2> QED  BY <1>1, <1>2, <2>1, <2>2 DEF Carry
<1> QED  BY <1>3, <1>4

LEMMA DayTypes ==
  ASSUME NEW frame, NEW c \in Carry, NEW d \in Nat, version \in Versions, RowBefore(frame, d) \in Nat
  PROVE  Day(frame, c, d) \in DayResult
<1>1. Charge(c) \in Nat  BY CarryTypes
<1>2. c.book \in Nat  BY DEF Carry
<1>3. Reforms(c) \in BOOLEAN /\ (frame[d] = "whole") \in BOOLEAN  BY DEF Reforms
<1> QED  BY <1>1, <1>2, <1>3 DEF Day, DayResult

\* What the state says of the next day: whether it forms a book, which book it is
\* earned by, and what the state is then.
LEMMA NextDay ==
  ASSUME NEW days, NEW c, NEW d \in Nat \ {0}, RecordFine(days, c, version)
  PROVE  LET n == Len(days)
         IN  /\ n \in Nat
             /\ Reforms(c) <=> n % HoldingDays = 0
             /\ n = 0 => c.book = NoBook
             /\ n # 0 => /\ Formation(n + 1) \in 1 .. n
                         /\ c.book = days[Formation(n + 1)].day
                         /\ Charge(c) = IF n + 1 = Formation(n + 1) + 1 THEN days[n].day ELSE 0
             /\ NextCarry(c, d).since = n % HoldingDays
             /\ IF n % HoldingDays = 0
                THEN NextCarry(c, d).book = d /\ Formation(n + 2) = n + 1
                ELSE NextCarry(c, d).book = c.book /\ Formation(n + 2) = Formation(n + 1) /\ n # 0
             /\ NextCarry(c, d).pending =
                  IF NextCarry(c, d).since = 0 THEN NextCarry(c, d).book ELSE 0
<1> DEFINE n == Len(days)
<1> USE CrossSectionalAssumption
<1>1. n \in Nat /\ days \in Seq(DayResult) /\ c \in Carry /\ CarryFine(days, c)
  BY DEF RecordFine
<1>2. CASE n = 0
  <2>1. c = FreshCarry  BY <1>1, <1>2 DEF CarryFine
  <2>2. c.book = 0 /\ c.since = 0 /\ c.pending = 0  BY <2>1 DEF FreshCarry, NoBook
  <2>3. Reforms(c)  BY <2>2 DEF Reforms, NoBook
  <2>4. 0 = HoldingDays * 0 + 0 /\ 0 \in 0 .. HoldingDays - 1  OBVIOUS
  <2>5. 0 % HoldingDays = 0  BY <2>4, RemainderIs
  <2>6. Formation(2) = 1  BY <2>5 DEF Formation
  <2>7. NextCarry(c, d) = [since |-> 0, book |-> d, pending |-> d]  BY <2>3 DEF NextCarry
  <2> QED  BY <1>2, <2>2, <2>3, <2>5, <2>6, <2>7 DEF NoBook
<1>3. CASE n # 0
  <2> DEFINE m == (n - 1) % HoldingDays
  <2>1. n - 1 \in Nat /\ (n - 1) + 1 = n  BY <1>1, <1>3
  <2>2. /\ m \in 0 .. HoldingDays - 1
        /\ n % HoldingDays = IF m + 1 = HoldingDays THEN 0 ELSE m + 1
    BY <2>1, NextPlace
  <2>3. /\ c.since = m /\ c.book = days[Formation(n + 1)].day
        /\ c.pending = IF c.since = 0 THEN c.book ELSE 0
    BY <1>1, <1>3 DEF CarryFine
  <2>4. (n + 1) - 2 = n - 1 /\ (n + 2) - 2 = n /\ (n + 1) - 1 = n /\ (n + 2) - 1 = n + 1  BY <1>1
  <2>5. Formation(n + 1) = n - m /\ Formation(n + 2) = (n + 1) - (n % HoldingDays)
    BY <2>4 DEF Formation
  <2>6. Formation(n + 1) \in 1 .. n  BY <1>1, <1>3, <2>4, FormationIs
  <2>7. c.book # 0
    <3>1. days[Formation(n + 1)].day # 0  BY <2>6 DEF RecordFine
    <3> QED  BY <2>3, <3>1
  <2> HIDE DEF m
  <2>8. Reforms(c) <=> n % HoldingDays = 0  BY <2>2, <2>3, <2>7 DEF Reforms, NoBook
  <2>9. Charge(c) = IF n + 1 = Formation(n + 1) + 1 THEN days[n].day ELSE 0
    <3>1. m = 0 <=> n + 1 = Formation(n + 1) + 1  BY <1>1, <2>2, <2>5
    <3>2. m = 0 => Formation(n + 1) = n  BY <1>1, <2>2, <2>5
    <3> QED  BY <2>3, <2>7, <3>1, <3>2 DEF Charge, NoBook
  <2>10. CASE n % HoldingDays = 0
    <3>1. NextCarry(c, d) = [since |-> 0, book |-> d, pending |-> d]
      BY <2>8, <2>10 DEF NextCarry
    <3>2. Formation(n + 2) = n + 1  BY <1>1, <2>5, <2>10
    <3> QED  BY <1>1, <1>3, <2>3, <2>6, <2>8, <2>9, <2>10, <3>1, <3>2
  <2>11. CASE n % HoldingDays # 0
    <3>1. NextCarry(c, d) = [since |-> c.since + 1, book |-> c.book, pending |-> 0]
      BY <2>8, <2>11 DEF NextCarry
    <3>2. n % HoldingDays = m + 1 /\ c.since + 1 = m + 1 /\ m + 1 # 0  BY <2>2, <2>3, <2>11
    <3>3. Formation(n + 2) = Formation(n + 1)  BY <1>1, <2>2, <2>5, <3>2
    <3> QED  BY <1>1, <1>3, <2>3, <2>6, <2>8, <2>9, <2>11, <3>1, <3>2, <3>3
  <2> QED  BY <2>10, <2>11
<1> QED  BY <1>1, <1>2, <1>3

LEMMA Appended ==
  ASSUME NEW S, NEW s \in Seq(S), NEW x \in S
  PROVE  /\ Append(s, x) \in Seq(S) /\ Len(Append(s, x)) = Len(s) + 1 /\ Append(s, x) # <<>>
         /\ \A j \in 1 .. Len(s) : Append(s, x)[j] = s[j]
         /\ Append(s, x)[Len(s) + 1] = x
<1>1. Append(s, x) \in Seq(S) /\ Len(Append(s, x)) = Len(s) + 1  OBVIOUS
<1>2. Append(s, x) # <<>>
  <2>1. Len(s) + 1 # 0  OBVIOUS
  <2> QED  BY <1>1, <2>1
<1>3. \A j \in 1 .. Len(s) : Append(s, x)[j] = s[j]  OBVIOUS
<1>4. Append(s, x)[Len(s) + 1] = x  OBVIOUS
<1> QED  BY <1>1, <1>2, <1>3, <1>4

\* A day that follows a record continues it.
LEMMA DayAppended ==
  ASSUME NEW days, NEW c, NEW frame, NEW d \in Nat \ {0},
         version \in Versions, RecordFine(days, c, version), LastDayOf(days) < d,
         RowBefore(frame, d) \in Nat,
         days # <<>> => RowBefore(frame, d) = LastDayOf(days)
  PROVE  RecordFine(Append(days, Day(frame, c, d)), NextCarry(c, d), version)
<1> DEFINE n == Len(days)
           x == Day(frame, c, d)
           all == Append(days, x)
<1> USE CrossSectionalAssumption
<1>1. /\ n \in Nat /\ days \in Seq(DayResult) /\ c \in Carry
      /\ \A j \in 1 .. n : days[j].day # 0 /\ DayFine(days, j, version)
      /\ Ascending(days)
  BY DEF RecordFine
<1>2. x \in DayResult  BY <1>1, DayTypes
<1>3. /\ x.day = d /\ x.base = RowBefore(frame, d) /\ x.charged = Charge(c)
      /\ x.book = c.book /\ x.reformed = Reforms(c) /\ x.by = version
  BY DEF Day
<1> HIDE DEF x
<1>4. /\ all \in Seq(DayResult) /\ Len(all) = n + 1 /\ all # <<>>
      /\ \A j \in 1 .. n : all[j] = days[j]
      /\ all[n + 1] = x
  BY <1>1, <1>2, Appended
<1> HIDE DEF all
<1>5. NextCarry(c, d) \in Carry  BY <1>1, CarryTypes
<1>6. \A j \in 1 .. n : days[j].day \in Nat /\ days[j].day < d
  <2> SUFFICES ASSUME NEW j \in 1 .. n PROVE days[j].day \in Nat /\ days[j].day < d  OBVIOUS
  <2>1. days[j] \in DayResult /\ days[n] \in DayResult  BY <1>1
  <2>2. days[j].day \in Nat /\ days[n].day \in Nat  BY <2>1 DEF DayResult
  <2>3. days[n].day < d  BY <1>1 DEF LastDayOf
  <2>4. j < n => days[j].day < days[n].day  BY <1>1 DEF Ascending
  <2> QED  BY <1>1, <2>2, <2>3, <2>4
<1>7. \A j \in 1 .. n : all[j].day # 0 /\ DayFine(all, j, version)
  <2> SUFFICES ASSUME NEW j \in 1 .. n PROVE all[j].day # 0 /\ DayFine(all, j, version)  OBVIOUS
  <2>1. days[j].day # 0 /\ DayFine(days, j, version) /\ all[j] = days[j]  BY <1>1, <1>4
  <2>2. CASE j = 1  BY <2>1, <2>2 DEF DayFine
  <2>3. CASE j # 1
    <3>1. j \in Nat /\ j >= 2 /\ j - 1 \in 1 .. n  BY <1>1, <2>3
    <3>2. Formation(j) \in 1 .. (j - 1)  BY <3>1, FormationIs
    <3>3. Formation(j) \in 1 .. n  BY <1>1, <3>1, <3>2
    <3>4. all[Formation(j)] = days[Formation(j)] /\ all[j - 1] = days[j - 1]  BY <1>4, <3>1, <3>3
    <3> QED  BY <2>1, <2>3, <3>4 DEF DayFine
  <2> QED  BY <2>2, <2>3
<1>8. /\ Reforms(c) <=> n % HoldingDays = 0
      /\ n = 0 => c.book = NoBook
      /\ n # 0 => /\ Formation(n + 1) \in 1 .. n
                  /\ c.book = days[Formation(n + 1)].day
                  /\ Charge(c) = IF n + 1 = Formation(n + 1) + 1 THEN days[n].day ELSE 0
      /\ NextCarry(c, d).since = n % HoldingDays
      /\ IF n % HoldingDays = 0
         THEN NextCarry(c, d).book = d /\ Formation(n + 2) = n + 1
         ELSE NextCarry(c, d).book = c.book /\ Formation(n + 2) = Formation(n + 1) /\ n # 0
      /\ NextCarry(c, d).pending =
           IF NextCarry(c, d).since = 0 THEN NextCarry(c, d).book ELSE 0
  BY NextDay
<1>9. all[n + 1].day # 0 /\ DayFine(all, n + 1, version)
  <2>1. (n + 1) - 1 = n  BY <1>1
  <2>2. CASE n = 0  BY <1>3, <1>4, <1>8, <2>1, <2>2 DEF DayFine, Realized
  <2>3. CASE n # 0
    <3>1. n + 1 # 1 /\ n \in 1 .. n  BY <1>1, <2>3
    <3>2. all[Formation(n + 1)] = days[Formation(n + 1)] /\ all[n] = days[n]
      BY <1>4, <1>8, <2>3, <3>1
    <3>3. days # <<>>  BY <2>3
    <3>4. x.base = days[n].day  BY <1>3, <3>3 DEF LastDayOf
    <3> QED  BY <1>3, <1>4, <1>8, <2>1, <2>3, <3>1, <3>2, <3>4 DEF DayFine
  <2> QED  BY <2>2, <2>3
<1>10. \A j \in 1 .. (n + 1) : all[j].day # 0 /\ DayFine(all, j, version)
  <2>1. \A j \in 1 .. (n + 1) : j \in 1 .. n \/ j = n + 1  BY <1>1
  <2> QED  BY <1>7, <1>9, <2>1
<1>11. Ascending(all)
  <2> SUFFICES ASSUME NEW i \in 1 .. (n + 1), NEW j \in 1 .. (n + 1), i < j
               PROVE  all[i].day < all[j].day
    BY <1>4 DEF Ascending
  <2>1. i \in 1 .. n /\ all[i] = days[i]  BY <1>1, <1>4
  <2>2. CASE j = n + 1  BY <1>3, <1>4, <1>6, <2>1, <2>2
  <2>3. CASE j # n + 1
    <3>1. j \in 1 .. n /\ all[j] = days[j]  BY <1>1, <1>4, <2>3
    <3> QED  BY <1>1, <2>1, <3>1 DEF Ascending
  <2> QED  BY <2>2, <2>3
<1>12. CarryFine(all, NextCarry(c, d))
  <2>1. Len(all) - 1 = n /\ Len(all) + 1 = n + 2  BY <1>1, <1>4
  <2>2. NextCarry(c, d).book = all[Formation(n + 2)].day
    <3>1. CASE n % HoldingDays = 0  BY <1>3, <1>4, <1>8, <3>1
    <3>2. CASE n % HoldingDays # 0
      <4>1. all[Formation(n + 1)] = days[Formation(n + 1)]  BY <1>4, <1>8, <3>2
      <4> QED  BY <1>8, <3>2, <4>1
    <3> QED  BY <3>1, <3>2
  <2> QED  BY <1>4, <1>8, <2>1, <2>2 DEF CarryFine
<1> QED  BY <1>4, <1>5, <1>10, <1>11, <1>12 DEF RecordFine, all, x

-------------------------------------------------------------------------------
(* Rows of a frame.                                                        *)

LEMMA LargestOf ==
  ASSUME NEW n \in Nat, NEW T \in SUBSET (1 .. n), T # {}
  PROVE  \E x \in T : \A y \in T : x >= y
<1> DEFINE N == {m \in Nat : \A S \in SUBSET (1 .. m) : S # {} => \E x \in S : \A y \in S : x >= y}
<1>1. 0 \in N
  <2>1. 1 .. 0 = {}  OBVIOUS
  <2> QED  BY <2>1
<1>2. ASSUME NEW m \in N PROVE m + 1 \in N
  <2>1. ASSUME NEW S \in SUBSET (1 .. m + 1), S # {}
        PROVE  \E x \in S : \A y \in S : x >= y
    <3>1. CASE m + 1 \in S
      <4>1. \A y \in S : m + 1 >= y  OBVIOUS
      <4> QED  BY <3>1, <4>1
    <3>2. CASE m + 1 \notin S
      <4>1. S \in SUBSET (1 .. m)
        <5>1. \A y \in S : y \in 1 .. m + 1 /\ y # m + 1  BY <3>2
        <5> QED  BY <5>1
      <4> QED  BY <2>1, <4>1
    <3> QED  BY <3>1, <3>2
  <2> QED  BY <2>1
<1>3. N = Nat
  <2>1. N \subseteq Nat  OBVIOUS
  <2> HIDE DEF N
  <2> QED  BY <1>1, <1>2, <2>1, NatInductionBySet
<1> QED  BY <1>3

\* Every day but the first has a row before it, and it is the latest one.
LEMMA RowBeforeIs ==
  ASSUME NEW frame, RowsOf(frame), NEW d \in 2 .. (LastDay + 1)
  PROVE  /\ RowBefore(frame, d) \in 1 .. (d - 1) /\ frame[RowBefore(frame, d)] # "absent"
         /\ \A f \in (RowBefore(frame, d) + 1) .. (d - 1) : frame[f] = "absent"
<1> DEFINE T == {e \in 1 .. (d - 1) : frame[e] # "absent"}
<1> USE CrossSectionalAssumption
<1>1. d \in Nat /\ d - 1 \in Nat /\ 1 \in 1 .. (d - 1) /\ 1 \in 1 .. LastDay /\ 1 < FirstDay
  OBVIOUS
<1>2. 1 \in T  BY <1>1 DEF RowsOf
<1>3. T \in SUBSET (1 .. (d - 1))  OBVIOUS
<1>4. PICK x \in T : \A y \in T : x >= y
  <2> HIDE DEF T
  <2> QED  BY <1>1, <1>2, <1>3, LargestOf
<1>5. ASSUME NEW f \in (x + 1) .. (d - 1) PROVE frame[f] = "absent"
  <2>1. x \in Nat /\ f \in Nat /\ x < f /\ f \in 1 .. (d - 1)  BY <1>1
  <2>2. f \notin T
    <3> HIDE DEF T
    <3>1. SUFFICES ASSUME f \in T PROVE FALSE  OBVIOUS
    <3>2. x >= f  BY <1>4, <3>1
    <3> QED  BY <2>1, <3>2
  <2> QED  BY <2>1, <2>2
<1>6. \E e \in 1 .. (d - 1) : /\ frame[e] # "absent"
                              /\ \A f \in (e + 1) .. (d - 1) : frame[f] = "absent"
  BY <1>5
<1> QED  BY <1>6 DEF RowBefore

LEMMA RowBeforeUnique ==
  ASSUME NEW frame, RowsOf(frame), NEW d \in 2 .. (LastDay + 1),
         NEW e \in 1 .. (d - 1), frame[e] # "absent",
         \A f \in (e + 1) .. (d - 1) : frame[f] = "absent"
  PROVE  RowBefore(frame, d) = e
<1> DEFINE x == RowBefore(frame, d)
<1> USE CrossSectionalAssumption
<1>1. /\ x \in 1 .. (d - 1) /\ frame[x] # "absent"
      /\ \A f \in (x + 1) .. (d - 1) : frame[f] = "absent"
  BY RowBeforeIs
<1> HIDE DEF x
<1>2. ~(x < e)
  <2>1. x < e => e \in (x + 1) .. (d - 1)  BY <1>1
  <2> QED  BY <1>1, <2>1
<1>3. ~(e < x)
  <2>1. e < x => x \in (e + 1) .. (d - 1)  BY <1>1
  <2> QED  BY <1>1, <2>1
<1> QED  BY <1>1, <1>2, <1>3 DEF x

\* A tick takes the newest row, or unprocessed rows from the oldest on.
LEMMA RowsAreNext ==
  ASSUME NEW frame, RowsOf(frame), NEW last \in Nat
  PROVE  LET rows == RowsToProcess(frame, last)
         IN  /\ \A d \in rows : d \in 2 .. LastDay /\ last < d /\ frame[d] # "absent"
             /\ last = Never => \A d, e \in rows : d = e
             /\ last # Never => \A d \in rows, e \in 1 .. LastDay :
                                  last < e /\ e < d /\ frame[e] # "absent" => e \in rows
<1> DEFINE due == {d \in Rows(frame) : d > last /\ d > 1}
           rows == RowsToProcess(frame, last)
           ahead(d) == {e \in due : e < d}
<1> USE CrossSectionalAssumption
<1>1. \A d : d \in due <=> d \in 2 .. LastDay /\ last < d /\ frame[d] # "absent"
  BY DEF Rows, RowsOf
<1>2. rows \subseteq due  BY DEF RowsToProcess
<1>3. ASSUME last = Never, NEW d \in rows, NEW e \in rows PROVE d = e
  <2>1. d <= e /\ e <= d  BY <1>2, <1>3 DEF RowsToProcess
  <2>2. d \in Nat /\ e \in Nat  BY <1>1, <1>2
  <2> QED  BY <2>1, <2>2
<1>4. ASSUME last # Never, NEW d \in rows, NEW e \in 1 .. LastDay,
             last < e, e < d, frame[e] # "absent"
      PROVE  e \in rows
  <2>1. d \in due /\ Cardinality(ahead(d)) < MaxCatchup  BY <1>4 DEF RowsToProcess
  <2>2. e \in due
    <3>1. e > 1  BY <1>4 DEF Never
    <3> QED  BY <1>1, <1>4, <3>1
  <2>3. due \subseteq 1 .. LastDay  BY <1>1
  <2>4. ahead(e) \subseteq ahead(d)
    <3> SUFFICES ASSUME NEW x \in due, x < e PROVE x < d  OBVIOUS
    <3>1. x \in Nat /\ d \in Nat /\ e \in Nat  BY <1>1, <2>1
    <3> QED  BY <1>4, <3>1
  <2> HIDE DEF due
  <2>5. IsFiniteSet(1 .. LastDay)  BY FS_Interval
  <2>6. IsFiniteSet(ahead(d)) /\ IsFiniteSet(ahead(e))
    <3>1. ahead(d) \subseteq 1 .. LastDay /\ ahead(e) \subseteq 1 .. LastDay  BY <2>3
    <3> QED  BY <2>5, <3>1, FS_Subset
  <2> HIDE DEF ahead
  <2>7. /\ Cardinality(ahead(d)) \in Nat /\ Cardinality(ahead(e)) \in Nat
        /\ Cardinality(ahead(e)) <= Cardinality(ahead(d))
    BY <2>4, <2>6, FS_Subset, FS_CardinalityType
  <2>8. Cardinality(ahead(e)) < MaxCatchup  BY <2>1, <2>7
  <2> QED  BY <1>4, <2>2, <2>8 DEF RowsToProcess, due, ahead
<1> QED  BY <1>1, <1>2, <1>3, <1>4

-------------------------------------------------------------------------------
(* advance_forward_validation, as a table of what it has after each day.   *)

WalkStep(walk, frame, snap, rows, d) ==
  IF d = 0 THEN [carry |-> snap.carry, days |-> <<>>]
  ELSE IF d \in rows THEN StepOneDay(frame, walk[d - 1], d) ELSE walk[d - 1]

Walked(walk, frame, snap, rows) ==
  /\ \A d \in 0 .. LastDay : walk[d] = WalkStep(walk, frame, snap, rows, d)
  /\ Advance(frame, snap) = walk[LastDay]

LEMMA AdvanceWalks ==
  ASSUME NEW frame, NEW snap
  PROVE  \E walk : Walked(walk, frame, snap, RowsToProcess(frame, snap.last))
<1> DEFINE rows == RowsToProcess(frame, snap.last)
           Step(walk, d) == WalkStep(walk, frame, snap, rows, d)
           N == {m \in Nat : \E walk : walk = [d \in 0 .. m |-> Step(walk, d)]}
<1>1. 0 \in N
  <2> DEFINE w == [d \in 0 .. 0 |-> [carry |-> snap.carry, days |-> <<>>]]
  <2>1. \A d \in 0 .. 0 : Step(w, d) = [carry |-> snap.carry, days |-> <<>>]  BY DEF WalkStep
  <2>2. w = [d \in 0 .. 0 |-> Step(w, d)]  BY <2>1
  <2> QED  BY <2>2
<1>2. ASSUME NEW m \in N PROVE m + 1 \in N
  <2>1. PICK w : w = [d \in 0 .. m |-> Step(w, d)]  OBVIOUS
  <2> DEFINE next == [d \in 0 .. (m + 1) |-> Step(w, d)]
  <2>2. \A d \in 0 .. m : next[d] = w[d]
    <3> HIDE DEF Step
    <3>1. \A d \in 0 .. m : d \in 0 .. (m + 1) /\ w[d] = Step(w, d)  BY <2>1
    <3> QED  BY <3>1
  <2>3. \A d \in 0 .. (m + 1) : Step(w, d) = Step(next, d)
    <3> SUFFICES ASSUME NEW d \in 0 .. (m + 1), d # 0 PROVE w[d - 1] = next[d - 1]
      <4> HIDE DEF next
      <4> QED  BY DEF WalkStep
    <3>1. d - 1 \in 0 .. m  OBVIOUS
    <3> HIDE DEF next
    <3> QED  BY <2>2, <3>1
  <2>4. next = [d \in 0 .. (m + 1) |-> Step(next, d)]
    <3>1. next = [d \in 0 .. (m + 1) |-> Step(w, d)]  OBVIOUS
    <3> HIDE DEF next, Step
    <3> QED  BY <2>3, <3>1
  <2>5. m + 1 \in Nat  OBVIOUS
  <2> HIDE DEF next, Step
  <2> QED  BY <2>4, <2>5
<1>3. LastDay \in N
  <2>1. N \subseteq Nat  OBVIOUS
  <2> HIDE DEF N
  <2>2. N = Nat  BY <1>1, <1>2, <2>1, NatInductionBySet
  <2> QED  BY <2>2, CrossSectionalAssumption
<1>4. PICK g : g = [d \in 0 .. LastDay |-> Step(g, d)]
  <2> HIDE DEF Step
  <2> QED  BY <1>3
<1> DEFINE h == CHOOSE walk : walk = [d \in 0 .. LastDay |-> Step(walk, d)]
<1>5. h = [d \in 0 .. LastDay |-> Step(h, d)]
  <2> HIDE DEF Step
  <2> QED  BY <1>4
<1>6. Advance(frame, snap) = h[LastDay]  BY DEF Advance, WalkStep
<1>7. \A d \in 0 .. LastDay : h[d] = WalkStep(h, frame, snap, rows, d)
  <2>1. \A d \in 0 .. LastDay : h[d] = Step(h, d)
    <3> HIDE DEF h, Step
    <3> QED  BY <1>5
  <2> HIDE DEF h
  <2> QED  BY <2>1
<1> QED
  <2> HIDE DEF h
  <2>1. Walked(h, frame, snap, rows)  BY <1>6, <1>7 DEF Walked
  <2> QED  BY <2>1

LEMMA Concatenated ==
  ASSUME NEW S, NEW s \in Seq(S), NEW t \in Seq(S)
  PROVE  /\ s \o t \in Seq(S) /\ Len(s \o t) = Len(s) + Len(t)
         /\ \A j \in 1 .. Len(s) : (s \o t)[j] = s[j]
         /\ \A j \in 1 .. Len(t) : (s \o t)[Len(s) + j] = t[j]
         /\ (s \o t = <<>>) <=> (s = <<>> /\ t = <<>>)
         /\ t = <<>> => s \o t = s
<1>1. s \o t \in Seq(S) /\ Len(s \o t) = Len(s) + Len(t)  OBVIOUS
<1>2. \A j \in 1 .. Len(s) : (s \o t)[j] = s[j]  OBVIOUS
<1>3. \A j \in 1 .. Len(t) : (s \o t)[Len(s) + j] = t[j]  OBVIOUS
<1>4. Len(s) \in Nat /\ Len(t) \in Nat  OBVIOUS
<1>5. (s \o t = <<>>) <=> (s = <<>> /\ t = <<>>)
  <2>1. (s \o t = <<>>) <=> Len(s \o t) = 0  BY <1>1
  <2>2. (s = <<>> <=> Len(s) = 0) /\ (t = <<>> <=> Len(t) = 0)  OBVIOUS
  <2> QED  BY <1>1, <1>4, <2>1, <2>2
<1>6. t = <<>> => s \o t = s  OBVIOUS
<1> QED  BY <1>1, <1>2, <1>3, <1>5, <1>6

LEMMA ConcatAppend ==
  ASSUME NEW S, NEW s \in Seq(S), NEW t \in Seq(S), NEW x \in S
  PROVE  s \o Append(t, x) = Append(s \o t, x)
<1> QED  OBVIOUS

LEMMA LastOfConcat ==
  ASSUME NEW s \in Seq(DayResult), NEW t \in Seq(DayResult)
  PROVE  LastDayOf(s \o t) = IF t = <<>> THEN LastDayOf(s) ELSE LastDayOf(t)
<1>1. CASE t = <<>>  BY <1>1, Concatenated
<1>2. CASE t # <<>>
  <2>1. s \o t # <<>> /\ Len(s \o t) = Len(s) + Len(t)  BY <1>2, Concatenated
  <2>2. Len(t) \in 1 .. Len(t)
    <3>1. Len(t) \in Nat /\ Len(t) # 0  BY <1>2
    <3> QED  BY <3>1
  <2>3. (s \o t)[Len(s) + Len(t)] = t[Len(t)]  BY <2>2, Concatenated
  <2> QED  BY <1>2, <2>1, <2>3 DEF LastDayOf
<1> QED  BY <1>1, <1>2

\* Every row up to a day is a day of the results.
Covers(days, rows, k) == \A e \in rows : e <= k => \E i \in 1 .. Len(days) : days[i].day = e

\* After the rows up to a day: a record that continues the one loaded, has each of
\* those rows, and goes to the last of them.
WalkFine(s, snap, rows, k) ==
  /\ s.days \in Seq(DayResult) /\ Covers(s.days, rows, k)
  /\ RecordFine(snap.days \o s.days, s.carry, version)
  /\ IF s.days = <<>> THEN \A e \in rows : k < e
     ELSE /\ LastDayOf(s.days) \in rows /\ LastDayOf(s.days) <= k
          /\ \A e \in rows : e <= k => e <= LastDayOf(s.days)

LEMMA WalkGoesOn ==
  ASSUME NEW frame, RowsOf(frame), NEW snap \in Row, RowFine(snap), snap.spec = version,
         version \in Versions, snap.last \in 0 .. LastDay,
         snap.last # Never => frame[snap.last] # "absent",
         NEW s, NEW d \in RowsToProcess(frame, snap.last),
         WalkFine(s, snap, RowsToProcess(frame, snap.last), d - 1)
  PROVE  WalkFine(StepOneDay(frame, s, d), snap, RowsToProcess(frame, snap.last), d)
<1> DEFINE rows == RowsToProcess(frame, snap.last)
           all == snap.days \o s.days
           x == Day(frame, s.carry, d)
           L == LastDayOf(all)
<1> USE CrossSectionalAssumption
<1>1. /\ snap.days \in Seq(DayResult) /\ snap.last = LastDayOf(snap.days) /\ snap.last \in Nat
  BY DEF RowFine, RecordFine
<1>2. /\ s.days \in Seq(DayResult) /\ RecordFine(all, s.carry, version)
      /\ IF s.days = <<>> THEN \A e \in rows : d - 1 < e
         ELSE /\ LastDayOf(s.days) \in rows /\ LastDayOf(s.days) <= d - 1
              /\ \A e \in rows : e <= d - 1 => e <= LastDayOf(s.days)
  BY DEF WalkFine
<1>3. /\ \A e \in rows : e \in 2 .. LastDay /\ snap.last < e /\ frame[e] # "absent"
      /\ snap.last = Never => \A f, e \in rows : f = e
      /\ snap.last # Never => \A f \in rows, e \in 1 .. LastDay :
                                snap.last < e /\ e < f /\ frame[e] # "absent" => e \in rows
  BY <1>1, RowsAreNext
<1> HIDE DEF rows
<1>4. d \in rows /\ d \in Nat \ {0} /\ d \in 2 .. LastDay /\ snap.last < d
  <2>1. d \in rows  BY DEF rows
  <2> QED  BY <1>3, <2>1
<1>5. L = IF s.days = <<>> THEN snap.last ELSE LastDayOf(s.days)
  BY <1>1, <1>2, LastOfConcat
<1>6. s.carry \in Carry /\ all \in Seq(DayResult)  BY <1>2 DEF RecordFine
<1>7. L \in Nat /\ L < d
  <2>1. CASE s.days = <<>>  BY <1>1, <1>4, <1>5, <2>1
  <2>2. CASE s.days # <<>>
    <3>1. L \in rows /\ L <= d - 1  BY <1>2, <1>5, <2>2
    <3>2. L \in 2 .. LastDay  BY <1>3, <3>1
    <3> HIDE DEF L
    <3> QED  BY <1>4, <3>1, <3>2
  <2> QED  BY <2>1, <2>2
<1>8. RowBefore(frame, d) \in Nat
  <2>1. d \in 2 .. (LastDay + 1)  BY <1>4
  <2>2. RowBefore(frame, d) \in 1 .. (d - 1)  BY <2>1, RowBeforeIs
  <2> QED  BY <1>4, <2>2
<1>9. ASSUME all # <<>> PROVE RowBefore(frame, d) = L
  <2>1. snap.last # Never
    <3>1. SUFFICES ASSUME snap.last = Never PROVE FALSE  OBVIOUS
    <3>2. snap.days = <<>>
      <4>1. SUFFICES ASSUME snap.days # <<>> PROVE FALSE  OBVIOUS
      <4>2. Len(snap.days) \in 1 .. Len(snap.days)
        <5>1. Len(snap.days) \in Nat /\ Len(snap.days) # 0  BY <1>1, <4>1
        <5> QED  BY <5>1
      <4>3. snap.days[Len(snap.days)].day # 0  BY <4>2 DEF RowFine, RecordFine
      <4> QED  BY <1>1, <3>1, <4>1, <4>3 DEF LastDayOf, Never
    <3>3. s.days # <<>>  BY <1>1, <1>2, <1>9, <3>2, Concatenated
    <3>4. LastDayOf(s.days) = d  BY <1>2, <1>3, <1>4, <3>1, <3>3
    <3> QED  BY <1>2, <1>4, <3>3, <3>4
  <2>2. L # 0 /\ frame[L] # "absent"
    <3>1. CASE s.days = <<>>  BY <1>5, <2>1, <3>1 DEF Never
    <3>2. CASE s.days # <<>>
      <4>1. L \in rows  BY <1>2, <1>5, <3>2
      <4> HIDE DEF L
      <4> QED  BY <1>3, <4>1
    <3> QED  BY <3>1, <3>2
  <2>3. snap.last <= L
    <3>1. CASE s.days = <<>>
      <4> HIDE DEF L
      <4> QED  BY <1>1, <1>5, <3>1
    <3>2. CASE s.days # <<>>
      <4>1. L \in rows  BY <1>2, <1>5, <3>2
      <4> HIDE DEF L
      <4> QED  BY <1>1, <1>3, <1>7, <4>1
    <3> QED  BY <3>1, <3>2
  <2> HIDE DEF L, all
  <2>4. ASSUME NEW f \in (L + 1) .. (d - 1), frame[f] # "absent" PROVE FALSE
    <3>1. f \in 1 .. LastDay /\ snap.last < f /\ f < d /\ f <= d - 1 /\ ~(f <= L) /\ f \in Nat
      BY <1>1, <1>4, <1>7, <2>3, <2>4
    <3>2. f \in rows  BY <1>3, <1>4, <2>1, <2>4, <3>1
    <3>3. CASE s.days = <<>>
      <4>1. d - 1 < f  BY <1>2, <3>2, <3>3
      <4> QED  BY <1>4, <3>1, <4>1
    <3>4. CASE s.days # <<>>
      <4>1. f <= L  BY <1>2, <1>5, <3>1, <3>2, <3>4
      <4> QED  BY <3>1, <4>1
    <3> QED  BY <3>3, <3>4
  <2>5. d \in 2 .. (LastDay + 1) /\ L \in 1 .. (d - 1)  BY <1>4, <1>7, <2>2
  <2> QED  BY <2>2, <2>4, <2>5, RowBeforeUnique
<1>10. RecordFine(Append(all, x), NextCarry(s.carry, d), version)
  <2> HIDE DEF all
  <2> QED  BY <1>2, <1>4, <1>7, <1>8, <1>9, DayAppended
<1>11. x \in DayResult /\ x.day = d
  <2>1. x.day = d  BY DEF Day
  <2>2. d \in Nat  BY <1>4
  <2> QED  BY <1>6, <1>8, <2>1, <2>2, DayTypes
<1> HIDE DEF x
<1>12. Append(all, x) = snap.days \o Append(s.days, x)
  <2> DEFINE p == snap.days
             q == s.days
  <2>1. p \in Seq(DayResult) /\ q \in Seq(DayResult) /\ x \in DayResult  BY <1>1, <1>2, <1>11
  <2> HIDE DEF p, q
  <2>2. p \o Append(q, x) = Append(p \o q, x)  BY <2>1, ConcatAppend
  <2> QED  BY <2>2 DEF p, q
<1>13. StepOneDay(frame, s, d) = [carry |-> NextCarry(s.carry, d), days |-> Append(s.days, x)]
  BY StepIs DEF x
<1>14. /\ Append(s.days, x) \in Seq(DayResult) /\ Append(s.days, x) # <<>>
       /\ LastDayOf(Append(s.days, x)) = d
  <2>1. /\ Append(s.days, x) \in Seq(DayResult) /\ Append(s.days, x) # <<>>
        /\ Len(Append(s.days, x)) = Len(s.days) + 1
        /\ Append(s.days, x)[Len(s.days) + 1] = x
    BY <1>2, <1>11, Appended
  <2> QED  BY <1>11, <2>1 DEF LastDayOf
<1>15. d <= d  BY <1>4
<1>18. Covers(Append(s.days, x), rows, d)
  <2> DEFINE q == s.days
  <2>1. /\ q \in Seq(DayResult) /\ x \in DayResult /\ x.day = d /\ Covers(q, rows, d - 1)
    BY <1>2, <1>11 DEF WalkFine, rows
  <2> HIDE DEF q
  <2>2. /\ Len(Append(q, x)) = Len(q) + 1 /\ Len(q) \in Nat /\ Append(q, x)[Len(q) + 1] = x
        /\ \A i \in 1 .. Len(q) : Append(q, x)[i] = q[i]
    BY <2>1, Appended
  <2>3. ASSUME NEW e \in rows, e <= d PROVE \E i \in 1 .. Len(q) + 1 : Append(q, x)[i].day = e
    <3>1. e \in Nat  BY <1>3
    <3>2. CASE e = d
      <4>1. Len(q) + 1 \in 1 .. Len(q) + 1  BY <2>2
      <4> QED  BY <2>1, <2>2, <3>2, <4>1
    <3>3. CASE e # d
      <4>1. e <= d - 1  BY <1>4, <2>3, <3>1, <3>3
      <4>2. PICK i \in 1 .. Len(q) : q[i].day = e  BY <2>1, <4>1 DEF Covers
      <4>3. i \in 1 .. Len(q) + 1 /\ Append(q, x)[i] = q[i]  BY <2>2
      <4> QED  BY <4>2, <4>3
    <3> QED  BY <3>2, <3>3
  <2> QED  BY <2>2, <2>3 DEF Covers, q
<1> DEFINE new == StepOneDay(frame, s, d)
<1>16. new.days = Append(s.days, x) /\ new.carry = NextCarry(s.carry, d)  BY <1>13
<1> HIDE DEF new
<1>17. RecordFine(snap.days \o new.days, new.carry, version)  BY <1>10, <1>12, <1>16
<1> HIDE DEF all, L
<1> SUFFICES WalkFine(new, snap, rows, d)  BY DEF new, rows
<1> QED  BY <1>4, <1>14, <1>15, <1>16, <1>17, <1>18 DEF WalkFine

\* What a tick makes of a registration continues its record to the last row
\* that was due.
LEMMA AdvanceWalkFine ==
  ASSUME NEW frame, RowsOf(frame), NEW snap \in Row, RowFine(snap), snap.spec = version,
         version \in Versions, snap.last \in 0 .. LastDay,
         snap.last # Never => frame[snap.last] # "absent"
  PROVE  WalkFine(Advance(frame, snap), snap, RowsToProcess(frame, snap.last), LastDay)
<1> DEFINE rows == RowsToProcess(frame, snap.last)
           run == Advance(frame, snap)
<1> USE CrossSectionalAssumption
<1>1. PICK walk : Walked(walk, frame, snap, rows)  BY AdvanceWalks
<1>2. \A e \in rows : e \in 2 .. LastDay /\ frame[e] # "absent"
  <2>1. snap.last \in Nat  OBVIOUS
  <2> QED  BY <2>1, RowsAreNext
<1> DEFINE N == {m \in Nat : m <= LastDay => WalkFine(walk[m], snap, rows, m)}
<1>3. 0 \in N
  <2>1. walk[0] = [carry |-> snap.carry, days |-> <<>>]  BY <1>1 DEF Walked, WalkStep
  <2>2. walk[0].days = <<>> /\ walk[0].carry = snap.carry  BY <2>1
  <2>3. snap.days \o <<>> = snap.days
    <3>1. snap.days \in Seq(DayResult)  BY DEF RowFine, RecordFine
    <3>2. <<>> \in Seq(DayResult)  OBVIOUS
    <3> QED  BY <3>1, <3>2, Concatenated
  <2>4. RecordFine(snap.days, snap.carry, version)  BY DEF RowFine
  <2>5. \A e \in rows : 0 < e
    <3> HIDE DEF rows
    <3> QED  BY <1>2
  <2>6. <<>> \in Seq(DayResult)  OBVIOUS
  <2>7. \A e \in rows : ~(e <= 0)
    <3> HIDE DEF rows
    <3> QED  BY <1>2
  <2> HIDE DEF rows
  <2>8. Covers(<<>>, rows, 0)  BY <2>7 DEF Covers
  <2>9. WalkFine(walk[0], snap, rows, 0)
    BY <2>2, <2>3, <2>4, <2>5, <2>6, <2>8 DEF WalkFine
  <2> QED  BY <2>9
<1>4. ASSUME NEW m \in N PROVE m + 1 \in N
  <2> SUFFICES ASSUME m + 1 <= LastDay PROVE WalkFine(walk[m + 1], snap, rows, m + 1)  OBVIOUS
  <2> DEFINE d == m + 1
  <2>1. m \in Nat /\ d \in 0 .. LastDay /\ d # 0 /\ d - 1 = m /\ WalkFine(walk[m], snap, rows, m)
    OBVIOUS
  <2>2. walk[d] = IF d \in rows THEN StepOneDay(frame, walk[m], d) ELSE walk[m]
    BY <1>1, <2>1 DEF Walked, WalkStep
  <2>3. CASE d \in rows
    <3>1. WalkFine(walk[m], snap, RowsToProcess(frame, snap.last), d - 1)  BY <2>1
    <3>2. WalkFine(StepOneDay(frame, walk[m], d), snap, RowsToProcess(frame, snap.last), d)
      BY <2>3, <3>1, WalkGoesOn
    <3> QED  BY <2>2, <2>3, <3>2
  <2>4. CASE d \notin rows
    <3> HIDE DEF rows, N
    <3>1. \A e \in rows : e \in Nat /\ e # d  BY <1>2, <2>4
    <3>2. \A e \in rows : e <= d <=> e <= m  BY <2>1, <3>1
    <3>3. \A e \in rows : m < e => d < e  BY <2>1, <3>1
    <3>4. walk[d] = walk[m]  BY <2>2, <2>4
    <3>5. ASSUME walk[m].days # <<>>
          PROVE  LastDayOf(walk[m].days) \in rows /\ LastDayOf(walk[m].days) <= d
      <4>1. LastDayOf(walk[m].days) \in rows /\ LastDayOf(walk[m].days) <= m
        BY <2>1, <3>5 DEF WalkFine
      <4>2. \A e \in rows : e <= m => e <= d  BY <3>2
      <4> QED  BY <4>1, <4>2
    <3> HIDE DEF d
    <3>7. Covers(walk[m].days, rows, d)  BY <2>1, <3>2 DEF WalkFine, Covers
    <3>6. WalkFine(walk[m], snap, rows, d)  BY <2>1, <3>2, <3>3, <3>5, <3>7 DEF WalkFine
    <3> QED  BY <3>4, <3>6 DEF d
  <2> QED  BY <2>3, <2>4
<1>5. WalkFine(walk[LastDay], snap, rows, LastDay)
  <2>1. N \subseteq Nat  OBVIOUS
  <2> HIDE DEF N
  <2>2. N = Nat  BY <1>3, <1>4, <2>1, NatInductionBySet
  <2>3. LastDay \in N  BY <2>2
  <2> QED  BY <2>3 DEF N
<1>6. run = walk[LastDay]  BY <1>1 DEF Walked
<1> HIDE DEF run, rows
<1>7. WalkFine(run, snap, rows, LastDay)  BY <1>5, <1>6
<1> QED  BY <1>7 DEF run, rows

LEMMA AdvanceContinues ==
  ASSUME NEW frame, RowsOf(frame), NEW snap \in Row, RowFine(snap), snap.spec = version,
         version \in Versions, snap.last \in 0 .. LastDay,
         snap.last # Never => frame[snap.last] # "absent"
  PROVE  LET run == Advance(frame, snap)
         IN  /\ run.days \in Seq(DayResult)
             /\ RecordFine(snap.days \o run.days, run.carry, version)
             /\ run.days # <<>> =>
                  /\ LastDayOf(run.days) \in 1 .. LastDay
                  /\ frame[LastDayOf(run.days)] # "absent"
<1> DEFINE rows == RowsToProcess(frame, snap.last)
           run == Advance(frame, snap)
<1> USE CrossSectionalAssumption
<1>1. \A e \in rows : e \in 1 .. LastDay /\ frame[e] # "absent"
  <2>1. snap.last \in Nat  OBVIOUS
  <2> QED  BY <2>1, RowsAreNext
<1>2. WalkFine(run, snap, rows, LastDay)  BY AdvanceWalkFine
<1> HIDE DEF run, rows
<1>3. run.days # <<>> => LastDayOf(run.days) \in rows  BY <1>2 DEF WalkFine
<1> SUFFICES /\ run.days \in Seq(DayResult)
             /\ RecordFine(snap.days \o run.days, run.carry, version)
             /\ run.days # <<>> =>
                  /\ LastDayOf(run.days) \in 1 .. LastDay
                  /\ frame[LastDayOf(run.days)] # "absent"
  BY DEF run
<1> QED  BY <1>1, <1>2, <1>3 DEF WalkFine

\* Every day of a record but its first was earned by a book.
LEMMA AllButFirst ==
  ASSUME NEW days, NEW c, NEW spec, RecordFine(days, c, spec), NEW j \in 1 .. Len(days)
  PROVE  Realized(days[j]) <=> j # 1
<1>1. DayFine(days, j, spec) /\ days \in Seq(DayResult)  BY DEF RecordFine
<1>2. CASE j = 1  BY <1>1, <1>2 DEF DayFine
<1>3. CASE j # 1
  <2>1. j \in Nat /\ j >= 2 /\ Len(days) \in Nat  BY <1>1, <1>3
  <2>2. Formation(j) \in 1 .. (j - 1)  BY <2>1, FormationIs
  <2>3. Formation(j) \in 1 .. Len(days)  BY <2>1, <2>2
  <2>4. days[Formation(j)].day # 0  BY <2>3 DEF RecordFine
  <2>5. days[j].book = days[Formation(j)].day  BY <1>1, <1>3 DEF DayFine
  <2> QED  BY <1>3, <2>4, <2>5 DEF Realized, NoBook
<1> QED  BY <1>2, <1>3

LEMMA CountedIs ==
  ASSUME NEW s \in Seq(DayResult), NEW t \in Seq(DayResult), t # <<>>, NEW c, NEW spec,
         RecordFine(s \o t, c, spec)
  PROVE  Counted(t) = IF s = <<>> THEN Len(t) - 1 ELSE Len(t)
<1> DEFINE all == s \o t
           m == Len(s)
           n == Len(t)
<1>1. m \in Nat /\ n \in Nat /\ n # 0 /\ DOMAIN t = 1 .. n /\ (s = <<>> <=> m = 0)  OBVIOUS
<1>2. Len(all) = m + n /\ \A j \in 1 .. n : all[m + j] = t[j]  BY Concatenated
<1>3. \A j \in 1 .. Len(all) : Realized(all[j]) <=> j # 1  BY AllButFirst
<1> HIDE DEF all, m, n
<1>4. \A j \in 1 .. n : Realized(t[j]) <=> m + j # 1
  <2> SUFFICES ASSUME NEW j \in 1 .. n PROVE Realized(t[j]) <=> m + j # 1  OBVIOUS
  <2>1. m + j \in 1 .. Len(all)  BY <1>1, <1>2
  <2> QED  BY <1>2, <1>3, <2>1
<1>5. Counted(t) = Cardinality({k \in 1 .. n : m + k # 1})
  <2>1. {k \in DOMAIN t : Realized(t[k])} = {k \in 1 .. n : m + k # 1}  BY <1>1, <1>4
  <2> QED  BY <2>1 DEF Counted
<1>6. CASE m = 0
  <2>1. {k \in 1 .. n : m + k # 1} = 2 .. n  BY <1>1, <1>6
  <2>2. Cardinality(2 .. n) = IF 2 > n THEN 0 ELSE n - 2 + 1  BY <1>1, FS_Interval
  <2>3. Cardinality(2 .. n) = n - 1  BY <1>1, <2>2
  <2> QED  BY <1>1, <1>5, <1>6, <2>1, <2>3 DEF n
<1>7. CASE m # 0
  <2>1. {k \in 1 .. n : m + k # 1} = 1 .. n  BY <1>1, <1>7
  <2>2. Cardinality(1 .. n) = IF 1 > n THEN 0 ELSE n - 1 + 1  BY <1>1, FS_Interval
  <2>3. Cardinality(1 .. n) = n  BY <1>1, <2>2
  <2> QED  BY <1>1, <1>5, <1>7, <2>1, <2>3 DEF n
<1> QED  BY <1>6, <1>7

-------------------------------------------------------------------------------
(* The invariant.                                                          *)

LEMMA FreshFine ==
  ASSUME NEW id \in Nat, NEW status \in Statuses, NEW spec \in Versions
  PROVE  RowFine(FreshRow(id, status, spec))
<1> DEFINE r == FreshRow(id, status, spec)
<1> USE CrossSectionalAssumption
<1>1. /\ r.id = id /\ r.status = status /\ r.spec = spec /\ r.n = 0 /\ r.last = 0
      /\ r.carry = FreshCarry /\ r.days = <<>>
  BY DEF FreshRow, Never
<1>2. FreshCarry \in Carry  BY DEF FreshCarry, Carry, NoBook
<1>3. <<>> \in Seq(DayResult) /\ Len(<<>>) = 0  OBVIOUS
<1>4. r \in Row  BY <1>2, <1>3 DEF FreshRow, Row, Never
<1> HIDE DEF r
<1>5. RecordFine(r.days, r.carry, r.spec)
  BY <1>1, <1>2, <1>3 DEF RecordFine, Ascending, CarryFine
<1>6. RowFine(r)  BY <1>1, <1>4, <1>5 DEF RowFine, LastDayOf, Never
<1> QED  BY <1>6 DEF r

LEMMA IdleFine == Idle \in Tick /\ Idle.pc = "idle" /\ FirstVersion \in Versions
<1> USE CrossSectionalAssumption
<1>1. FirstVersion \in Versions  BY DEF FirstVersion
<1>2. NoFrame \in [1 .. LastDay -> Kinds]  BY DEF NoFrame, Kinds
<1>3. FreshRow(0, "none", FirstVersion) \in Row
  <2>1. "none" \in Statuses /\ 0 \in Nat  BY DEF Statuses
  <2> QED  BY <1>1, <2>1, FreshFine DEF RowFine
<1> QED  BY <1>1, <1>2, <1>3 DEF Idle, Tick

LEMMA InitIInv == Init => IInv
<1> SUFFICES ASSUME Init PROVE IInv  OBVIOUS
<1> USE CrossSectionalAssumption
<1>1. RowFine(row) /\ row.status = "none" /\ row.last = 0
  <2>1. "none" \in Statuses /\ 0 \in Nat  BY DEF Statuses
  <2>2. row = FreshRow(0, "none", FirstVersion)  BY DEF Init
  <2>3. RowFine(row)  BY <2>1, <2>2, IdleFine, FreshFine
  <2> QED  BY <2>2, <2>3 DEF FreshRow, Never
<1>2. Graduated  BY <1>1 DEF Graduated
<1>3. today = FirstDay /\ version = FirstVersion /\ faults = 0  BY DEF Init
<1>4. Surroundings  BY <1>3, IdleFine DEF Surroundings
<1>5. panel = [d \in 1 .. LastDay |-> IF d < FirstDay THEN "whole" ELSE "absent"]  BY DEF Init
<1>6. RowsOf(panel)  BY <1>3, <1>5 DEF RowsOf, Kinds
<1>7. PanelFine  BY <1>1, <1>3, <1>6 DEF PanelFine, Never
<1>8. TickFine
  <2>1. tick = Idle  BY DEF Init
  <2> QED  BY <2>1, IdleFine DEF TickFine
<1> QED  BY <1>1, <1>2, <1>4, <1>7, <1>8 DEF IInv

LEMMA LastInRange ==
  ASSUME IInv
  PROVE  /\ row \in Row /\ row.last \in 0 .. LastDay /\ row.last < today
         /\ today \in Nat /\ today \in 1 .. LastDay
<1> USE CrossSectionalAssumption
<1>1. row \in Row /\ row.last < today /\ today \in FirstDay .. LastDay
  BY DEF IInv, RowFine, PanelFine, Surroundings
<1>2. row.last \in Nat  BY <1>1 DEF Row
<1> QED  BY <1>1, <1>2

\* A tick that is over leaves nothing to say of it.
LEMMA TickOver ==
  ASSUME tick' = Idle
  PROVE  TickFine'
<1> QED  BY IdleFine DEF TickFine

LEMMA LoadKeeps == ASSUME IInv, Load PROVE IInv'
<1>1. RowFine(row)' /\ Graduated' /\ PanelFine' /\ Surroundings'
  BY DEF IInv, Load, Graduated, PanelFine, RowsOf, Surroundings
<1>2. tick' = [pc |-> "loaded", snap |-> row, frame |-> NoFrame]  BY DEF Load, Idle
<1>3. row \in Row /\ Idle.frame = NoFrame /\ Idle.frame \in [1 .. LastDay -> Kinds]
  <2>1. Idle.frame = NoFrame  BY DEF Idle
  <2>2. Idle.frame \in [1 .. LastDay -> Kinds]  BY IdleFine DEF Tick
  <2> QED  BY <2>1, <2>2, LastInRange
<1>4. tick' \in Tick  BY <1>2, <1>3 DEF Tick
<1>5. tick'.pc = "loaded" /\ tick'.snap = row  BY <1>2
<1>6. row' = row /\ today' = today /\ panel' = panel  BY DEF Load
<1>7. row.id \in Nat /\ row.id <= row.id
  <2>1. row.id \in Nat  BY <1>3 DEF Row
  <2> QED  BY <2>1
<1>8. TickFine'
  BY <1>4, <1>5, <1>6, <1>7 DEF TickFine, IInv, PanelFine, Present
<1> QED  BY <1>1, <1>8 DEF IInv

LEMMA BuildPanelKeeps == ASSUME IInv, BuildPanel PROVE IInv'
<1> USE CrossSectionalAssumption
<1> DEFINE frame == [d \in DOMAIN panel |-> IF d < today THEN panel[d] ELSE "absent"]
<1>1. RowFine(row)' /\ Graduated' /\ PanelFine' /\ Surroundings'
  BY DEF IInv, BuildPanel, Graduated, PanelFine, RowsOf, Surroundings
<1>2. tick' = [tick EXCEPT !.pc = "built", !.frame = frame] \/ tick' = Idle  BY DEF BuildPanel
<1>3. CASE tick' = Idle  BY <1>1, <1>3, TickOver DEF IInv
<1>4. CASE tick' = [tick EXCEPT !.pc = "built", !.frame = frame]
  <2>1. tick \in Tick /\ tick.pc = "loaded"  BY DEF IInv, TickFine, BuildPanel
  <2>2. RowsOf(panel) /\ DOMAIN panel = 1 .. LastDay /\ today \in FirstDay .. LastDay
    BY DEF IInv, PanelFine, RowsOf, Surroundings
  <2>3. frame \in [1 .. LastDay -> Kinds]  BY <2>2 DEF RowsOf, Kinds
  <2>4. tick' = [pc |-> "built", snap |-> tick.snap, frame |-> frame]
    <3> HIDE DEF frame
    <3> QED  BY <1>4, <2>1 DEF Tick
  <2>5. RowsOf(frame)  BY <2>2, <2>3 DEF RowsOf
  <2>6. \A d \in 1 .. LastDay : d < today => frame[d] = panel[d]  BY <2>2
  <2>7. \A d \in 1 .. LastDay : frame[d] # "absent" => panel[d] # "absent"  BY <2>2
  <2>8. row' = row /\ today' = today /\ panel' = panel  BY DEF BuildPanel
  <2> HIDE DEF frame
  <2>9. tick' \in Tick /\ tick'.pc = "built" /\ tick'.snap = tick.snap /\ tick'.frame = frame
    BY <2>1, <2>3, <2>4 DEF Tick
  <2>10. tick.snap.last \in Nat  BY <2>1 DEF Tick, Row
  <2>11. tick.snap.last # Never => tick.snap.last \in 1 .. LastDay
    BY <2>1, <2>2, <2>10 DEF IInv, TickFine, Never
  <2>12. tick.snap.last # Never => frame[tick.snap.last] # "absent"
    BY <2>1, <2>6, <2>11 DEF IInv, TickFine
  <2>13. RowsOf(tick.frame)'
    <3>1. tick'.frame = frame /\ today' = today  BY <2>8, <2>9
    <3> QED  BY <2>5, <3>1 DEF RowsOf
  <2>14. /\ RowFine(tick.snap) /\ tick.snap.id <= row.id
         /\ Present /\ row.id = tick.snap.id =>
              /\ row.days = tick.snap.days /\ row.carry = tick.snap.carry
              /\ row.n = tick.snap.n /\ row.last = tick.snap.last /\ row.spec = tick.snap.spec
         /\ tick.snap.last < today
         /\ tick.snap.last # Never => panel[tick.snap.last] # "absent"
    BY <2>1 DEF IInv, TickFine
  <2>15. Present' = Present  BY <2>8 DEF Present
  <2>16. TickFine'  BY <2>7, <2>8, <2>9, <2>12, <2>13, <2>14, <2>15 DEF TickFine
  <2> QED  BY <1>1, <2>16 DEF IInv
<1> QED  BY <1>2, <1>3, <1>4

\* The row a tick writes.
LEMMA AppliedIs ==
  ASSUME row \in Row, NEW snap, NEW run
  PROVE  LET n == snap.n + Counted(run.days)
         IN  Applied(snap, run) =
               [id |-> row.id, spec |-> row.spec, carry |-> run.carry, n |-> n,
                status |-> IF row.status = "in_progress" /\ n >= GraduationThreshold
                           THEN "forward_validated" ELSE row.status,
                days |-> snap.days \o run.days, last |-> run.days[Len(run.days)].day]
<1> DEFINE n == snap.n + Counted(run.days)
           all == snap.days \o run.days
           status == IF row.status = "in_progress" /\ n >= GraduationThreshold
                     THEN "forward_validated" ELSE row.status
           last == run.days[Len(run.days)].day
<1>1. Applied(snap, run) =
        [row EXCEPT !.carry = run.carry, !.days = all, !.n = n, !.last = last, !.status = status]
  BY DEF Applied, Last
<1> HIDE DEF n, all, status, last
<1>2. row = [id |-> row.id, status |-> row.status, spec |-> row.spec, n |-> row.n,
             last |-> row.last, carry |-> row.carry, days |-> row.days]
  BY DEF Row
<1>3. Applied(snap, run) = [id |-> row.id, status |-> status, spec |-> row.spec, n |-> n,
                            last |-> last, carry |-> run.carry, days |-> all]
  BY <1>1, <1>2
<1> QED  BY <1>3 DEF n, all, status, last

LEMMA RecordWritten ==
  ASSUME IInv, NEW run, tick.pc = "built", Present, row.id = tick.snap.id,
         ~Drifted(tick.snap), run = Advance(tick.frame, tick.snap), run.days # <<>>,
         row' = Applied(tick.snap, run), tick' = Idle, UNCHANGED <<panel, today, version, faults>>
  PROVE  IInv'
<1> DEFINE snap == tick.snap
           n == snap.n + Counted(run.days)
           all == snap.days \o run.days
<1> USE CrossSectionalAssumption
<1>1. /\ RowFine(snap) /\ snap \in Row /\ snap.spec = version
      /\ row.days = snap.days /\ row.n = snap.n /\ row.spec = snap.spec
      /\ snap.last # Never => tick.frame[snap.last] # "absent"
      /\ RowsOf(tick.frame) /\ snap.last < today
      /\ \A d \in 1 .. LastDay : tick.frame[d] # "absent" => panel[d] # "absent"
  BY DEF IInv, TickFine, RowFine, Drifted
<1>2. row \in Row /\ today \in Nat /\ today \in 1 .. LastDay /\ version \in Versions
  BY LastInRange DEF IInv, Surroundings
<1>3. snap.last \in 0 .. LastDay
  <2>1. snap.last \in Nat  BY <1>1 DEF Row
  <2> QED  BY <1>1, <1>2, <2>1
<1> HIDE DEF snap
<1>4. /\ run.days \in Seq(DayResult)
      /\ RecordFine(snap.days \o run.days, run.carry, version)
      /\ LastDayOf(run.days) \in 1 .. LastDay /\ tick.frame[LastDayOf(run.days)] # "absent"
  <2>1. run = Advance(tick.frame, snap)  BY DEF snap
  <2> QED  BY <1>1, <1>2, <1>3, <2>1, AdvanceContinues
<1>5. /\ row'.id = row.id /\ row'.spec = row.spec /\ row'.carry = run.carry /\ row'.n = n
      /\ row'.days = all /\ row'.last = run.days[Len(run.days)].day
      /\ row'.status = IF row.status = "in_progress" /\ n >= GraduationThreshold
                       THEN "forward_validated" ELSE row.status
      /\ row' = [id |-> row'.id, status |-> row'.status, spec |-> row'.spec, n |-> row'.n,
                 last |-> row'.last, carry |-> row'.carry, days |-> row'.days]
  <2> DEFINE status == IF row.status = "in_progress" /\ n >= GraduationThreshold
                       THEN "forward_validated" ELSE row.status
             last == run.days[Len(run.days)].day
  <2>1. row' = [id |-> row.id, spec |-> row.spec, carry |-> run.carry, n |-> n,
                status |-> status, days |-> all, last |-> last]
    <3>1. row' = Applied(snap, run)  BY DEF snap
    <3> QED  BY <1>2, <3>1, AppliedIs
  <2> HIDE DEF n, all, status, last
  <2>2. /\ row'.id = row.id /\ row'.spec = row.spec /\ row'.carry = run.carry /\ row'.n = n
        /\ row'.days = all /\ row'.last = last /\ row'.status = status
        /\ row' = [id |-> row'.id, status |-> row'.status, spec |-> row'.spec, n |-> row'.n,
                   last |-> row'.last, carry |-> row'.carry, days |-> row'.days]
    BY <2>1
  <2> QED  BY <2>2 DEF status, last
<1>6. snap.days \in Seq(DayResult)  BY <1>1 DEF RowFine, RecordFine
<1>7. /\ all \in Seq(DayResult) /\ Len(all) = Len(snap.days) + Len(run.days) /\ all # <<>>
      /\ LastDayOf(all) = LastDayOf(run.days)
  BY <1>4, <1>6, Concatenated, LastOfConcat
<1>8. Counted(run.days) = IF snap.days = <<>> THEN Len(run.days) - 1 ELSE Len(run.days)
  BY <1>4, <1>6, CountedIs
<1>9. n = Len(all) - 1
  <2>1. snap.n = IF snap.days = <<>> THEN 0 ELSE Len(snap.days) - 1  BY <1>1 DEF RowFine
  <2>2. Len(snap.days) \in Nat /\ Len(run.days) \in Nat /\ (snap.days = <<>> <=> Len(snap.days) = 0)
    BY <1>4, <1>6
  <2>3. n = snap.n + Counted(run.days)  OBVIOUS
  <2>4. Len(all) = Len(snap.days) + Len(run.days)  BY <1>7
  <2> HIDE DEF all, n
  <2>5. CASE snap.days = <<>>
    <3>1. Counted(run.days) = Len(run.days) - 1 /\ snap.n = 0 /\ Len(snap.days) = 0
      BY <1>8, <2>1, <2>2, <2>5
    <3> QED  BY <2>2, <2>3, <2>4, <3>1
  <2>6. CASE snap.days # <<>>
    <3>1. Counted(run.days) = Len(run.days) /\ snap.n = Len(snap.days) - 1
      BY <1>8, <2>1, <2>6
    <3> QED  BY <2>2, <2>3, <2>4, <3>1
  <2> QED  BY <2>5, <2>6
<1>10. n \in Nat
  <2>1. Len(all) \in Nat /\ Len(all) # 0
    <3>1. all \in Seq(DayResult) /\ all # <<>>  BY <1>7
    <3> HIDE DEF all
    <3> QED  BY <3>1
  <2> HIDE DEF all, n
  <2> QED  BY <1>9, <2>1
<1> HIDE DEF all, n
<1>11. row'.last = LastDayOf(run.days)  BY <1>5 DEF LastDayOf
<1>12. row' \in Row
  <2>1. row.id \in Nat /\ row.spec \in Versions /\ row.status \in Statuses  BY <1>2 DEF Row
  <2>2. row'.status \in Statuses  BY <1>5, <2>1 DEF Statuses, ActiveStatuses
  <2>3. run.carry \in Carry  BY <1>4 DEF RecordFine
  <2>4. row'.last \in Nat  BY <1>4, <1>11
  <2>5. row'.id \in Nat /\ row'.spec \in Versions /\ row'.n \in Nat /\ row'.carry \in Carry
        /\ row'.days \in Seq(DayResult)
    BY <1>5, <1>7, <1>10, <2>1, <2>3
  <2> QED  BY <1>5, <2>2, <2>4, <2>5 DEF Row
<1>13. RowFine(row')
  <2>1. RecordFine(row'.days, row'.carry, row'.spec)  BY <1>1, <1>4, <1>5 DEF all
  <2>2. row'.n = IF row'.days = <<>> THEN 0 ELSE Len(row'.days) - 1  BY <1>5, <1>7, <1>9
  <2>3. row'.last = LastDayOf(row'.days)  BY <1>5, <1>7, <1>11
  <2> QED  BY <1>12, <2>1, <2>2, <2>3 DEF RowFine
<1>14. Graduated'
  <2>1. SUFFICES ASSUME row'.status = "forward_validated" PROVE row'.n >= GraduationThreshold
    BY DEF Graduated, GraduationThreshold
  <2>2. CASE row.status = "in_progress" /\ n >= GraduationThreshold  BY <1>5, <2>2
  <2>3. CASE ~(row.status = "in_progress" /\ n >= GraduationThreshold)
    <3>1. row.status = "forward_validated"  BY <1>5, <2>1, <2>3
    <3>2. snap.n >= GraduationThreshold  BY <1>1, <3>1 DEF IInv, Graduated
    <3>3. Counted(run.days) \in Nat
      <4>1. Len(run.days) \in Nat /\ Len(run.days) # 0  BY <1>4, <1>7, <1>5
      <4> QED  BY <1>8, <4>1
    <3>4. snap.n \in Nat /\ GraduationThreshold \in Nat
      <4>1. snap.n \in Nat  BY <1>1 DEF Row
      <4>2. CompleteHolds * HoldingDays \in Nat /\ DayFloor \in Nat  BY DEF CompleteHolds
      <4> QED  BY <4>1, <4>2 DEF GraduationThreshold
    <3> HIDE DEF GraduationThreshold
    <3>5. n >= GraduationThreshold  BY <3>2, <3>3, <3>4 DEF n
    <3> QED  BY <1>5, <3>5
  <2> QED  BY <2>2, <2>3
<1>15. PanelFine'
  <2>1. row'.last \in 1 .. LastDay /\ tick.frame[row'.last] # "absent"  BY <1>4, <1>11
  <2>2. row'.last < today /\ panel[row'.last] # "absent"  BY <1>1, <2>1 DEF RowsOf
  <2> QED  BY <2>2 DEF IInv, PanelFine, RowsOf
<1>16. Surroundings'  BY DEF IInv, Surroundings
<1> QED  BY <1>13, <1>14, <1>15, <1>16, TickOver DEF IInv

LEMMA ProcessKeeps == ASSUME IInv, Process PROVE IInv'
<1> DEFINE run == Advance(tick.frame, tick.snap)
<1>1. /\ tick.pc = "built" /\ tick' = Idle /\ UNCHANGED <<panel, today, version, faults>>
      /\ row' = IF ~Present \/ row.id # tick.snap.id THEN row
                ELSE IF Drifted(tick.snap) THEN [row EXCEPT !.status = "spec_drift"]
                ELSE IF run.days = <<>> THEN row
                ELSE Applied(tick.snap, run)
  BY DEF Process
<1> HIDE DEF run
<1>2. TickFine'  BY <1>1, TickOver
<1>3. CASE row' = row
  BY <1>1, <1>2, <1>3 DEF IInv, Graduated, PanelFine, RowsOf, Surroundings
<1>4. CASE row' = [row EXCEPT !.status = "spec_drift"]
  <2>1. row \in Row /\ RowFine(row)  BY LastInRange DEF IInv
  <2>2. row' \in Row  BY <1>4, <2>1 DEF Row, Statuses
  <2>3. /\ row'.days = row.days /\ row'.carry = row.carry /\ row'.spec = row.spec
        /\ row'.n = row.n /\ row'.last = row.last /\ row'.status = "spec_drift"
    BY <1>4, <2>1 DEF Row
  <2>4. RowFine(row')  BY <2>1, <2>2, <2>3 DEF RowFine
  <2>5. Graduated'  BY <2>3 DEF Graduated
  <2>6. PanelFine'  BY <1>1, <2>3 DEF IInv, PanelFine, RowsOf
  <2>7. Surroundings'  BY <1>1 DEF IInv, Surroundings
  <2> QED  BY <1>2, <2>4, <2>5, <2>6, <2>7 DEF IInv
<1>5. CASE /\ Present /\ row.id = tick.snap.id /\ ~Drifted(tick.snap) /\ run.days # <<>>
           /\ row' = Applied(tick.snap, run)
  <2>1. run = Advance(tick.frame, tick.snap)  BY DEF run
  <2> QED  BY <1>1, <1>5, <2>1, RecordWritten
<1> QED  BY <1>1, <1>3, <1>4, <1>5

\* The tick is over and nothing else has changed but the build.
LEMMA TickLostKeeps ==
  ASSUME IInv, tick' = Idle, row' = row, panel' = panel, today' = today,
         version' \in Versions, faults' \in 0 .. MaxFaults
  PROVE  IInv'
<1>1. RowFine(row)' /\ Graduated' /\ PanelFine'
  BY DEF IInv, Graduated, PanelFine, RowsOf
<1>2. Surroundings'  BY DEF IInv, Surroundings
<1> QED  BY <1>1, <1>2, TickOver DEF IInv

LEMMA FailKeeps == ASSUME IInv, Fail PROVE IInv'
<1> USE CrossSectionalAssumption
<1>1. faults \in 0 .. MaxFaults /\ version \in Versions  BY DEF IInv, Surroundings
<1>2. faults' \in 0 .. MaxFaults  BY <1>1 DEF Fail
<1> QED  BY <1>1, <1>2, TickLostKeeps DEF Fail

LEMMA DeployKeeps == ASSUME IInv, Deploy PROVE IInv'
<1> USE CrossSectionalAssumption
<1>1. faults \in 0 .. MaxFaults  BY DEF IInv, Surroundings
<1>2. faults' \in 0 .. MaxFaults  BY <1>1 DEF Deploy
<1> QED  BY <1>2, TickLostKeeps DEF Deploy

\* A registration that begins, or one that is withdrawn: no tick holds its row.
LEMMA FreshKeeps ==
  ASSUME IInv, NEW status \in Statuses \ {"forward_validated"}, NEW id \in Nat, row.id <= id,
         row' = FreshRow(id, status, version), UNCHANGED <<panel, today, version, tick, faults>>,
         status = "none" \/ row.id < id
  PROVE  IInv'
<1> USE CrossSectionalAssumption
<1>1. version \in Versions /\ today \in FirstDay .. LastDay  BY DEF IInv, Surroundings
<1>2. RowFine(row')  BY <1>1, FreshFine
<1>3. row'.id = id /\ row'.status = status /\ row'.last = 0 /\ row'.n = 0
  BY DEF FreshRow, Never
<1>4. Graduated'  BY <1>3 DEF Graduated
<1>5. PanelFine'  BY <1>1, <1>3 DEF IInv, PanelFine, RowsOf, Never
<1>6. Surroundings'  BY DEF IInv, Surroundings
<1>7. TickFine'
  <2>1. tick' \in Tick  BY DEF IInv, TickFine
  <2>2. CASE tick.pc = "idle"  BY <2>1, <2>2 DEF TickFine
  <2>3. CASE tick.pc # "idle"
    <3>1. /\ RowFine(tick.snap) /\ tick.snap.id <= row.id /\ tick.snap.last < today
          /\ tick.snap.last # Never => panel[tick.snap.last] # "absent"
      BY <2>3 DEF IInv, TickFine
    <3>2. row.id \in Nat /\ tick.snap.id \in Nat  BY <3>1, LastInRange DEF RowFine, Row
    <3>3. tick.snap.id <= id /\ (row.id < id => tick.snap.id # id)  BY <3>1, <3>2
    <3>4. ~Present' \/ row'.id # tick'.snap.id  BY <1>3, <3>3 DEF Present
    <3>5. RowFine(tick.snap)' /\ tick'.snap.id <= row'.id /\ tick'.snap.last < today'
      BY <1>3, <3>1, <3>3
    <3>6. tick'.pc = "built" =>
            /\ RowsOf(tick.frame)'
            /\ \A d \in 1 .. LastDay : tick'.frame[d] # "absent" => panel'[d] # "absent"
            /\ tick'.snap.last # Never => tick'.frame[tick'.snap.last] # "absent"
      BY DEF IInv, TickFine, RowsOf
    <3> QED  BY <2>1, <3>1, <3>4, <3>5, <3>6 DEF TickFine
  <2> QED  BY <2>2, <2>3
<1> QED  BY <1>2, <1>4, <1>5, <1>6, <1>7 DEF IInv

LEMMA RegisterKeeps == ASSUME IInv, Register PROVE IInv'
<1>1. row.id \in Nat  BY LastInRange DEF Row
<1>2. "in_progress" \in Statuses \ {"forward_validated"}  BY DEF Statuses, ActiveStatuses
<1>3. row.id + 1 \in Nat /\ row.id <= row.id + 1 /\ row.id < row.id + 1  BY <1>1
<1> QED  BY <1>2, <1>3, FreshKeeps DEF Register

LEMMA DeleteKeeps == ASSUME IInv, Delete PROVE IInv'
<1>1. row.id \in Nat /\ row.id <= row.id
  <2>1. row.id \in Nat  BY LastInRange DEF Row
  <2> QED  BY <2>1
<1>2. "none" \in Statuses \ {"forward_validated"}  BY DEF Statuses
<1> QED  BY <1>1, <1>2, FreshKeeps DEF Delete

LEMMA RetireKeeps == ASSUME IInv, Retire PROVE IInv'
<1>1. row \in Row /\ RowFine(row)  BY LastInRange DEF IInv
<1>2. row' = [row EXCEPT !.status = "retired"]  BY DEF Retire
<1>3. row' \in Row  BY <1>1, <1>2 DEF Row, Statuses
<1>4. /\ row'.id = row.id /\ row'.days = row.days /\ row'.carry = row.carry
      /\ row'.spec = row.spec /\ row'.n = row.n /\ row'.last = row.last
      /\ row'.status = "retired"
  BY <1>1, <1>2 DEF Row
<1>5. UNCHANGED <<panel, today, version, tick, faults>> /\ Present
  BY DEF Retire, Present, ActiveStatuses
<1>6. RowFine(row')  BY <1>1, <1>3, <1>4 DEF RowFine
<1>7. Graduated'  BY <1>4 DEF Graduated
<1>8. PanelFine'  BY <1>4, <1>5 DEF IInv, PanelFine, RowsOf
<1>9. TickFine'  BY <1>4, <1>5 DEF IInv, TickFine, RowsOf
<1>10. Surroundings'  BY <1>5 DEF IInv, Surroundings
<1> QED  BY <1>6, <1>7, <1>8, <1>9, <1>10 DEF IInv

\* The provider's rows only grow in number, and time goes on.
LEMMA RowsGainedKeep ==
  ASSUME IInv, UNCHANGED <<row, version, tick, faults>>,
         today' \in FirstDay .. LastDay, today <= today', RowsOf(panel)',
         \A d \in 1 .. LastDay : d < today /\ panel[d] # "absent" => panel'[d] # "absent"
  PROVE  IInv'
<1> USE CrossSectionalAssumption
<1>1. row.last < today /\ today \in FirstDay .. LastDay  BY DEF IInv, PanelFine, Surroundings
<1>2. RowFine(row)' /\ Graduated'  BY DEF IInv, Graduated
<1>3. row \in Row /\ row.last \in Nat  BY LastInRange DEF Row
<1>4. PanelFine'
  <2>1. row'.last < today'  BY <1>1, <1>3
  <2>2. row'.last # Never => panel'[row'.last] # "absent"
    BY <1>1, <1>3 DEF IInv, PanelFine, Never
  <2> QED  BY <2>1, <2>2 DEF PanelFine
<1>5. Surroundings'  BY DEF IInv, Surroundings
<1>6. TickFine'
  <2>1. tick' \in Tick  BY DEF IInv, TickFine
  <2>2. CASE tick.pc = "idle"  BY <2>1, <2>2 DEF TickFine
  <2>3. CASE tick.pc # "idle"
    <3>1. /\ RowFine(tick.snap) /\ tick.snap.id <= row.id
          /\ Present /\ row.id = tick.snap.id =>
               /\ row.days = tick.snap.days /\ row.carry = tick.snap.carry
               /\ row.n = tick.snap.n /\ row.last = tick.snap.last /\ row.spec = tick.snap.spec
          /\ tick.snap.last < today
          /\ tick.snap.last # Never => panel[tick.snap.last] # "absent"
      BY <2>3 DEF IInv, TickFine
    <3>2. tick.snap.last \in Nat  BY <3>1 DEF RowFine, Row
    <3>3. tick'.snap.last < today'  BY <1>1, <3>1, <3>2
    <3>4. tick'.snap.last # Never => panel'[tick'.snap.last] # "absent"
      BY <1>1, <3>1, <3>2 DEF Never
    <3>5. tick'.pc = "built" =>
            /\ RowsOf(tick.frame)'
            /\ \A d \in 1 .. LastDay : tick'.frame[d] # "absent" => panel'[d] # "absent"
            /\ tick'.snap.last # Never => tick'.frame[tick'.snap.last] # "absent"
      <4> SUFFICES ASSUME tick.pc = "built"
                   PROVE  /\ RowsOf(tick.frame)'
                          /\ \A d \in 1 .. LastDay : tick.frame[d] # "absent" => panel'[d] # "absent"
                          /\ tick.snap.last # Never => tick.frame[tick.snap.last] # "absent"
        OBVIOUS
      <4>1. /\ RowsOf(tick.frame)
            /\ \A d \in 1 .. LastDay : tick.frame[d] # "absent" => panel[d] # "absent"
            /\ tick.snap.last # Never => tick.frame[tick.snap.last] # "absent"
        BY DEF IInv, TickFine
      <4>2. \A d \in 1 .. LastDay : tick.frame[d] # "absent" => d < today  BY <4>1 DEF RowsOf
      <4>3. RowsOf(tick.frame)'  BY <1>1, <4>1, <4>2 DEF RowsOf
      <4> QED  BY <4>1, <4>2, <4>3
    <3>6. Present' = Present  BY DEF Present
    <3> QED  BY <2>1, <3>1, <3>3, <3>4, <3>5, <3>6 DEF TickFine
  <2> QED  BY <2>2, <2>3
<1> QED  BY <1>2, <1>4, <1>5, <1>6 DEF IInv

LEMMA DayPassesKeeps == ASSUME IInv, DayPasses PROVE IInv'
<1> USE CrossSectionalAssumption
<1>1. today \in FirstDay .. LastDay /\ today < LastDay /\ today' = today + 1
  BY DEF IInv, Surroundings, DayPasses
<1>2. today' \in FirstDay .. LastDay /\ today <= today'  BY <1>1
<1>3. PICK kind \in Kinds : panel' = [panel EXCEPT ![today] = kind]  BY DEF DayPasses
<1>4. RowsOf(panel)  BY DEF IInv, PanelFine
<1>5. panel' \in [1 .. LastDay -> Kinds]  BY <1>3, <1>4 DEF RowsOf
<1>6. \A d \in 1 .. LastDay : d # today => panel'[d] = panel[d]  BY <1>3, <1>4 DEF RowsOf
<1>7. RowsOf(panel)'  BY <1>1, <1>4, <1>5, <1>6 DEF RowsOf
<1>8. \A d \in 1 .. LastDay : d < today /\ panel[d] # "absent" => panel'[d] # "absent"
  BY <1>1, <1>6
<1> QED  BY <1>2, <1>7, <1>8, RowsGainedKeep DEF DayPasses

LEMMA RepairKeeps == ASSUME IInv, NEW d \in 1 .. LastDay, Repair(d) PROVE IInv'
<1> USE CrossSectionalAssumption
<1>1. today \in FirstDay .. LastDay /\ today' = today /\ d < today
  BY DEF IInv, Surroundings, Repair
<1>2. PICK kind \in {"outage", "whole"} : panel' = [panel EXCEPT ![d] = kind]  BY DEF Repair
<1>3. RowsOf(panel)  BY DEF IInv, PanelFine
<1>4. panel' \in [1 .. LastDay -> Kinds]  BY <1>2, <1>3 DEF RowsOf, Kinds
<1>5. \A e \in 1 .. LastDay : panel'[e] = IF e = d THEN kind ELSE panel[e]
  BY <1>2, <1>3 DEF RowsOf
<1>6. RowsOf(panel)'  BY <1>1, <1>2, <1>3, <1>4, <1>5 DEF RowsOf
<1>7. \A e \in 1 .. LastDay : e < today /\ panel[e] # "absent" => panel'[e] # "absent"
  BY <1>2, <1>5
<1>8. today' \in FirstDay .. LastDay /\ today <= today'  BY <1>1
<1> QED  BY <1>6, <1>7, <1>8, RowsGainedKeep DEF Repair

LEMMA NextKeeps == ASSUME IInv, [Next]_vars PROVE IInv'
<1>1. CASE Next
  BY <1>1, LoadKeeps, BuildPanelKeeps, ProcessKeeps, FailKeeps, DeployKeeps, RegisterKeeps,
     DeleteKeeps, RetireKeeps, DayPassesKeeps, RepairKeeps DEF Next
<1>2. CASE UNCHANGED vars
  BY <1>2 DEF IInv, Graduated, PanelFine, TickFine, RowsOf, Surroundings, Present, vars
<1> QED  BY <1>1, <1>2

LEMMA Holds == Spec => []IInv
<1>1. IInv /\ [Next]_vars => IInv'  BY NextKeeps
<1> QED  BY <1>1, InitIInv, PTL DEF Spec

-------------------------------------------------------------------------------
(* The batch replay finds the same formations.                             *)

LEMMA FormationUnique ==
  ASSUME NEW j \in Nat, j >= 2, NEW i \in 1 .. (j - 1), j <= i + HoldingDays,
         (i - 1) % HoldingDays = 0
  PROVE  i = Formation(j)
<1> DEFINE f == Formation(j)
<1> USE CrossSectionalAssumption
<1>1. f \in 1 .. (j - 1) /\ j <= f + HoldingDays /\ (f - 1) % HoldingDays = 0  BY FormationIs
<1> HIDE DEF f
<1>2. i - 1 \in Nat /\ f - 1 \in Nat  BY <1>1
<1>3. ASSUME i < f PROVE FALSE
  <2>1. i - 1 < f - 1  BY <1>1, <1>3
  <2>2. (i - 1) + HoldingDays <= f - 1
    <3> DEFINE a == i - 1
               b == f - 1
    <3>1. a \in Nat /\ b \in Nat /\ a % HoldingDays = 0 /\ b % HoldingDays = 0 /\ a < b
      BY <1>1, <1>2, <2>1
    <3> HIDE DEF a, b
    <3>2. a + HoldingDays <= b  BY <3>1, FormationsApart
    <3> QED  BY <3>2 DEF a, b
  <2> QED  BY <1>1, <2>2
<1>4. ASSUME f < i PROVE FALSE
  <2>1. (f - 1) + HoldingDays <= i - 1  BY <1>1, <1>2, <1>4, FormationsApart
  <2> QED  BY <1>1, <2>1
<1>5. i = f  BY <1>1, <1>3, <1>4
<1> QED  BY <1>5 DEF f

\* The book and the charge of the batch replay, by the place of the formation.
LEMMA ReplayIs ==
  ASSUME NEW days \in Seq(DayResult), NEW j \in 2 .. Len(days)
  PROVE  /\ Replay(days)[j].book = days[Formation(j)].day
         /\ Replay(days)[j].charged = IF j = Formation(j) + 1 THEN days[j - 1].day ELSE 0
<1> DEFINE f == Formation(j)
           F == Formations(Len(days))
           i == CHOOSE i \in F : i < j /\ j <= i + HoldingDays
<1> USE CrossSectionalAssumption
<1>1. Len(days) \in Nat /\ j \in Nat /\ j >= 2 /\ j <= Len(days)  OBVIOUS
<1>2. f \in 1 .. (j - 1) /\ j <= f + HoldingDays /\ (f - 1) % HoldingDays = 0
  BY <1>1, FormationIs
<1>3. Replay(days)[j] = [book |-> days[i].day, charged |-> IF j = i + 1 THEN days[i].day ELSE 0]
  BY DEF Replay
<1> HIDE DEF f
<1>4. f \in F /\ f < j  BY <1>1, <1>2 DEF Formations
<1>5. i \in F /\ i < j /\ j <= i + HoldingDays
  <2> HIDE DEF F
  <2> QED  BY <1>2, <1>4
<1> HIDE DEF i
<1>6. i \in 1 .. (j - 1) /\ (i - 1) % HoldingDays = 0  BY <1>1, <1>5 DEF Formations
<1>7. i = f  BY <1>1, <1>5, <1>6, FormationUnique DEF f
<1>8. j = f + 1 => f = j - 1  BY <1>1, <1>2
<1> QED  BY <1>3, <1>7, <1>8 DEF f

\* A book whose holding period is over was held for exactly its holding days.
LEMMA HeldThrough ==
  ASSUME NEW r, RowFine(r), NEW i \in 1 .. Len(r.days), i + HoldingDays <= Len(r.days),
         (i - 1) % HoldingDays = 0
  PROVE  /\ r.days[i].reformed
         /\ Cardinality({j \in DOMAIN r.days : r.days[j].book = r.days[i].day}) = HoldingDays
<1> DEFINE days == r.days
<1> USE CrossSectionalAssumption
<1>1. /\ days \in Seq(DayResult) /\ Ascending(days)
      /\ \A j \in 1 .. Len(days) : days[j].day # 0 /\ DayFine(days, j, r.spec)
  BY DEF RowFine, RecordFine
<1>2. i \in 1 .. Len(days) /\ i + HoldingDays <= Len(days)  OBVIOUS
<1> HIDE DEF days
<1>3. DOMAIN days = 1 .. Len(days) /\ Len(days) \in Nat  BY <1>1
<1>4. days[i].reformed  BY <1>1, <1>2 DEF DayFine
<1>5. ASSUME NEW j \in 1 .. Len(days)
      PROVE  days[j].book = days[i].day <=> j \in (i + 1) .. (i + HoldingDays)
  <2>1. DayFine(days, j, r.spec) /\ days[i].day # 0  BY <1>1, <1>2
  <2>2. CASE j = 1
    <3>1. days[j].book = 0  BY <2>1, <2>2 DEF DayFine, Realized, NoBook
    <3> QED  BY <1>2, <2>1, <2>2, <3>1
  <2>3. CASE j # 1
    <3> DEFINE f == Formation(j)
    <3>1. days[j].book = days[f].day  BY <2>1, <2>3 DEF DayFine
    <3>2. j \in Nat /\ j >= 2  BY <1>3, <2>3
    <3>3. f \in 1 .. (j - 1) /\ j <= f + HoldingDays  BY <3>2, FormationIs
    <3>4. j \in (i + 1) .. (i + HoldingDays) <=> f = i
      <4>1. f = i => j \in (i + 1) .. (i + HoldingDays)
        <5> HIDE DEF f
        <5> QED  BY <1>2, <3>2, <3>3
      <4>2. ASSUME j \in (i + 1) .. (i + HoldingDays) PROVE f = i
        <5>1. i \in 1 .. (j - 1) /\ j <= i + HoldingDays  BY <1>2, <3>2, <4>2
        <5> QED  BY <3>2, <5>1, FormationUnique
      <4> QED  BY <4>1, <4>2
    <3> HIDE DEF f
    <3>5. f \in 1 .. Len(days)  BY <1>3, <3>2, <3>3
    <3>6. \A p \in 1 .. Len(days) : days[p].day \in Nat
      <4>1. \A p \in 1 .. Len(days) : days[p] \in DayResult  BY <1>1
      <4>2. \A x \in DayResult : x.day \in Nat  BY DEF DayResult
      <4> QED  BY <4>1, <4>2
    <3>7. days[f].day = days[i].day <=> f = i
      BY <1>1, <1>2, <1>3, <3>5, <3>6 DEF Ascending
    <3> QED  BY <3>1, <3>4, <3>7
  <2> QED  BY <2>2, <2>3
<1>6. {j \in DOMAIN days : days[j].book = days[i].day} = (i + 1) .. (i + HoldingDays)
  <2>1. \A j \in (i + 1) .. (i + HoldingDays) : j \in 1 .. Len(days)  BY <1>2, <1>3
  <2> QED  BY <1>3, <1>5, <2>1
<1>7. Cardinality((i + 1) .. (i + HoldingDays)) = HoldingDays
  <2>1. Cardinality((i + 1) .. (i + HoldingDays)) =
          IF i + 1 > i + HoldingDays THEN 0 ELSE (i + HoldingDays) - (i + 1) + 1
    BY <1>2, FS_Interval
  <2> QED  BY <1>2, <2>1
<1> QED  BY <1>4, <1>6, <1>7 DEF days

-------------------------------------------------------------------------------
(* Theorems.                                                               *)

\* The registration row, the provider's panel and what a tick holds keep their
\* types, and no registration records a day that is not over.
THEOREM PanelTypes == Spec => []TypeOK
<1>1. IInv => TypeOK
  BY DEF IInv, RowFine, PanelFine, RowsOf, TickFine, Surroundings, TypeOK
<1> QED  BY <1>1, Holds, PTL

\* "Resume where the last real day left off": for any holding period, catch-up
\* limit, outages, repairs, failed ticks, restarts, deployments and withdrawals,
\* the record cross_sectional_forward_validation.py leaves is the one
\* _replay_sleeve makes of its days, under the definition it was registered with.
THEOREM RecordIsReplay == Spec => []RecordIsTheReplay
<1>1. ASSUME IInv PROVE RecordIsTheReplay
  <2> DEFINE days == row.days
             replay == Replay(days)
  <2>1. /\ days \in Seq(DayResult)
        /\ \A j \in 1 .. Len(days) : DayFine(days, j, row.spec)
        /\ row.n = (IF days = <<>> THEN 0 ELSE Len(days) - 1)
        /\ row.last = LastDayOf(days)
    BY <1>1 DEF IInv, RowFine, RecordFine
  <2> HIDE DEF days
  <2>2. DOMAIN days = 1 .. Len(days) /\ Len(days) \in Nat  BY <2>1
  <2>3. ASSUME NEW j \in 1 .. Len(days)
        PROVE  /\ days[j].by = row.spec
               /\ days[j].reformed <=> (j - 1) % HoldingDays = 0
               /\ IF j = 1 THEN ~Realized(days[j])
                  ELSE /\ days[j].book = replay[j].book /\ days[j].charged = replay[j].charged
                       /\ days[j].base = days[j - 1].day
    <3>1. DayFine(days, j, row.spec)  BY <2>1
    <3>2. CASE j = 1  BY <3>1, <3>2 DEF DayFine
    <3>3. CASE j # 1
      <4>1. j \in 2 .. Len(days)  BY <2>2, <3>3
      <4> QED  BY <2>1, <3>1, <3>3, <4>1, ReplayIs DEF DayFine
    <3> QED  BY <3>2, <3>3
  <2>4. row.last = IF days = <<>> THEN Never ELSE Last(days).day
    BY <2>1 DEF LastDayOf, Last
  <2> QED  BY <2>1, <2>2, <2>3, <2>4 DEF RecordIsTheReplay, days
<1> QED  BY <1>1, Holds, PTL

\* Whatever the day floor and the holding period are, a registration graduates
\* only when two of its books were held from their formation to their last day.
THEOREM GraduatedHolds == Spec => []GraduatedOnCompleteHolds
<1> USE CrossSectionalAssumption
<1>1. ASSUME IInv PROVE GraduatedOnCompleteHolds
  <2>1. SUFFICES ASSUME row.status = "forward_validated"
        PROVE  Cardinality({i \in DOMAIN row.days :
                   /\ row.days[i].reformed
                   /\ Cardinality({j \in DOMAIN row.days : row.days[j].book = row.days[i].day})
                        = HoldingDays}) >= CompleteHolds
    BY DEF GraduatedOnCompleteHolds
  <2> DEFINE days == row.days
             held == {i \in DOMAIN days :
                        /\ days[i].reformed
                        /\ Cardinality({j \in DOMAIN days : days[j].book = days[i].day})
                             = HoldingDays}
  <2>2. RowFine(row) /\ row.n >= GraduationThreshold  BY <1>1, <2>1 DEF IInv, Graduated
  <2>3. /\ days \in Seq(DayResult) /\ row.n = (IF days = <<>> THEN 0 ELSE Len(days) - 1)
    BY <2>2 DEF RowFine, RecordFine
  <2>4. DOMAIN days = 1 .. Len(days) /\ Len(days) \in Nat
    <3> HIDE DEF days
    <3> QED  BY <2>3
  <2>5. 1 + 2 * HoldingDays <= Len(days)
    <3>1. row.n >= 2 * HoldingDays /\ row.n \in Nat
      <4>1. row.n \in Nat  BY <2>2 DEF RowFine, Row
      <4>2. GraduationThreshold >= 2 * HoldingDays
        <5>1. 2 * HoldingDays \in Nat  OBVIOUS
        <5> QED  BY <5>1 DEF GraduationThreshold, CompleteHolds
      <4>3. GraduationThreshold \in Nat  BY DEF GraduationThreshold, CompleteHolds
      <4> HIDE DEF GraduationThreshold
      <4> QED  BY <2>2, <4>1, <4>2, <4>3
    <3> HIDE DEF days
    <3>2. days # <<>>  BY <2>3, <3>1
    <3> QED  BY <2>3, <2>4, <3>1, <3>2
  <2>6. 0 % HoldingDays = 0 /\ HoldingDays % HoldingDays = 0
    <3>1. 0 \in 0 .. HoldingDays - 1 /\ 0 = HoldingDays * 0 + 0
          /\ HoldingDays = HoldingDays * 1 + 0
      OBVIOUS
    <3> QED  BY <3>1, RemainderIs
  <2>7. 1 \in held
    <3>1. 1 \in 1 .. Len(row.days) /\ 1 + HoldingDays <= Len(row.days)  BY <2>4, <2>5
    <3>2. (1 - 1) % HoldingDays = 0  BY <2>6
    <3> QED  BY <2>2, <2>4, <3>1, <3>2, HeldThrough
  <2>8. HoldingDays + 1 \in held
    <3>1. /\ HoldingDays + 1 \in 1 .. Len(row.days)
          /\ (HoldingDays + 1) + HoldingDays <= Len(row.days)
      BY <2>4, <2>5
    <3>2. ((HoldingDays + 1) - 1) % HoldingDays = 0
      <4>1. (HoldingDays + 1) - 1 = HoldingDays  OBVIOUS
      <4> QED  BY <2>6, <4>1
    <3> QED  BY <2>2, <2>4, <3>1, <3>2, HeldThrough
  <2>9. IsFiniteSet(held)
    <3>1. IsFiniteSet(1 .. Len(days))
      <4>1. 1 \in Int /\ Len(days) \in Int  BY <2>4
      <4> QED  BY <4>1, FS_Interval
    <3>2. held \in SUBSET (1 .. Len(days))  BY <2>4
    <3> HIDE DEF held
    <3> QED  BY <3>1, <3>2, FS_Subset
  <2> SUFFICES Cardinality(held) >= 2  BY DEF CompleteHolds
  <2> HIDE DEF held
  <2>10. Cardinality({1, HoldingDays + 1}) = 2 /\ {1, HoldingDays + 1} \in SUBSET held
    <3>1. IsFiniteSet({1}) /\ Cardinality({1}) = 1  BY FS_Singleton
    <3>2. HoldingDays + 1 \notin {1}  OBVIOUS
    <3>3. Cardinality({1} \cup {HoldingDays + 1}) = 2  BY <3>1, <3>2, FS_AddElement
    <3>4. {1} \cup {HoldingDays + 1} = {1, HoldingDays + 1}  OBVIOUS
    <3> QED  BY <2>7, <2>8, <3>3, <3>4
  <2>11. Cardinality({1, HoldingDays + 1}) <= Cardinality(held)  BY <2>9, <2>10, FS_Subset
  <2>12. Cardinality(held) \in Nat  BY <2>9, FS_CardinalityType
  <2> QED  BY <2>10, <2>11, <2>12
<1> QED  BY <1>1, Holds, PTL

-------------------------------------------------------------------------------
(* What a tick does to a record.                                           *)

\* A day that is not processed yet makes some row due.
LEMMA SomeRowIsDue ==
  ASSUME NEW frame, RowsOf(frame), NEW last \in Nat,
         NEW d \in 2 .. LastDay, last < d, frame[d] # "absent"
  PROVE  RowsToProcess(frame, last) # {}
<1> DEFINE due == {e \in Rows(frame) : e > last /\ e > 1}
           mirror == {LastDay + 1 - e : e \in due}
<1> USE CrossSectionalAssumption
<1>1. d \in due /\ due \in SUBSET (1 .. LastDay)  BY DEF Rows, RowsOf
<1>2. RowsToProcess(frame, last) =
        IF last = Never THEN {e \in due : \A f \in due : f <= e}
        ELSE {e \in due : Cardinality({f \in due : f < e}) < MaxCatchup}
  BY DEF RowsToProcess
<1> HIDE DEF due
<1>3. CASE last = Never
  <2>1. PICK x \in due : \A y \in due : x >= y  BY <1>1, LargestOf
  <2>2. \A f \in due : f <= x  BY <1>1, <2>1
  <2> QED  BY <1>2, <1>3, <2>1, <2>2
<1>4. CASE last # Never
  <2>1. mirror \in SUBSET (1 .. LastDay) /\ mirror # {}  BY <1>1
  <2>2. PICK z \in mirror : \A y \in mirror : z >= y
    <3> HIDE DEF mirror
    <3> QED  BY <2>1, LargestOf
  <2>3. PICK x \in due : z = LastDay + 1 - x  OBVIOUS
  <2>4. \A f \in due : ~(f < x)
    <3> SUFFICES ASSUME NEW f \in due, f < x PROVE FALSE  OBVIOUS
    <3>1. z >= LastDay + 1 - f  BY <2>2
    <3>2. f \in 1 .. LastDay /\ x \in 1 .. LastDay  BY <1>1
    <3> QED  BY <2>3, <3>1, <3>2
  <2>5. {f \in due : f < x} = {}  BY <2>4
  <2>6. Cardinality({f \in due : f < x}) < MaxCatchup  BY <2>5, FS_EmptySet
  <2> QED  BY <1>2, <1>4, <2>6
<1> QED  BY <1>3, <1>4

\* The row of a registration that a tick steps, before and after.
LEMMA TickSteps ==
  ASSUME IInv, Process, Present, row.id = tick.snap.id, ~Drifted(tick.snap)
  PROVE  LET run == Advance(tick.frame, tick.snap)
             rows == RowsToProcess(tick.frame, row.last)
         IN  /\ WalkFine(run, tick.snap, rows, LastDay)
             /\ tick.snap.days = row.days /\ row.last = tick.snap.last
             /\ run.days = <<>> => row' = row
             /\ run.days # <<>> => /\ row'.days = row.days \o run.days
                                   /\ row'.last = LastDayOf(run.days)
             /\ RowsOf(tick.frame)
<1> DEFINE run == Advance(tick.frame, tick.snap)
<1> USE CrossSectionalAssumption
<1>1. /\ RowFine(tick.snap) /\ tick.snap \in Row /\ tick.snap.spec = version
      /\ row.days = tick.snap.days /\ row.last = tick.snap.last
      /\ tick.snap.last # Never => tick.frame[tick.snap.last] # "absent"
      /\ RowsOf(tick.frame) /\ tick.snap.last < today
  BY DEF IInv, TickFine, RowFine, Drifted, Process
<1>2. row \in Row /\ tick.snap.last \in 0 .. LastDay /\ version \in Versions
  BY <1>1, LastInRange DEF IInv, Surroundings
<1>3. WalkFine(run, tick.snap, RowsToProcess(tick.frame, tick.snap.last), LastDay)
  BY <1>1, <1>2, AdvanceWalkFine
<1>4. row' = IF run.days = <<>> THEN row ELSE Applied(tick.snap, run)  BY DEF Process
<1> HIDE DEF run
<1>5. ASSUME run.days # <<>>
      PROVE  row'.days = row.days \o run.days /\ row'.last = LastDayOf(run.days)
  <2> DEFINE n == tick.snap.n + Counted(run.days)
             all == tick.snap.days \o run.days
             status == IF row.status = "in_progress" /\ n >= GraduationThreshold
                       THEN "forward_validated" ELSE row.status
             last == run.days[Len(run.days)].day
  <2>1. row' = [id |-> row.id, spec |-> row.spec, carry |-> run.carry, n |-> n,
                status |-> status, days |-> all, last |-> last]
    BY <1>2, <1>4, <1>5, AppliedIs
  <2> HIDE DEF n, all, status, last
  <2>2. row'.days = all /\ row'.last = last  BY <2>1
  <2> QED  BY <1>1, <1>5, <2>2 DEF all, last, LastDayOf
<1> QED  BY <1>1, <1>3, <1>4, <1>5 DEF run

\* A record only grows: a day that is recorded stays as it was recorded, until the
\* owner withdraws the registration.
RecordOnlyGrows ==
  [][Present' /\ row'.id = row.id =>
       /\ Len(row.days) <= Len(row'.days)
       /\ \A j \in 1 .. Len(row.days) : row'.days[j] = row.days[j]]_vars

\* A tick that gets as far as a registration which can go on, on a panel with a
\* row it has not processed, moves it on: to the newest row the first time, and
\* then over the oldest ones without leaving any out.
Left(last) == {d \in 2 .. LastDay : last < d /\ tick.frame[d] # "absent"}
TickMovesOn ==
  [][Process /\ Present /\ row.id = tick.snap.id /\ ~Drifted(tick.snap) /\ Left(row.last) # {} =>
       /\ row'.last \in Left(row.last)
       /\ row.last = Never => \A d \in Left(row.last) : d <= row'.last
       /\ row.last # Never =>
            \A d \in Left(row.last) :
              d <= row'.last => \E k \in 1 .. Len(row'.days) : row'.days[k].day = d]_vars

LEMMA StepMovesOn ==
  ASSUME IInv, Process, Present, row.id = tick.snap.id, ~Drifted(tick.snap), Left(row.last) # {}
  PROVE  /\ row'.last \in Left(row.last)
         /\ row.last = Never => \A d \in Left(row.last) : d <= row'.last
         /\ row.last # Never =>
              \A d \in Left(row.last) :
                d <= row'.last => \E k \in 1 .. Len(row'.days) : row'.days[k].day = d
<1> DEFINE run == Advance(tick.frame, tick.snap)
           rows == RowsToProcess(tick.frame, row.last)
<1> USE CrossSectionalAssumption
<1>1. /\ WalkFine(run, tick.snap, rows, LastDay)
      /\ tick.snap.days = row.days
      /\ run.days = <<>> => row' = row
      /\ run.days # <<>> => row'.days = row.days \o run.days /\ row'.last = LastDayOf(run.days)
      /\ RowsOf(tick.frame)
  BY TickSteps
<1>2. row.last \in Nat /\ row.days \in Seq(DayResult)
  BY LastInRange DEF Row
<1>3. rows # {}
  <2>1. PICK d \in 2 .. LastDay : row.last < d /\ tick.frame[d] # "absent"  BY DEF Left
  <2> QED  BY <1>1, <1>2, <2>1, SomeRowIsDue
<1>4. /\ \A d \in rows : d \in 2 .. LastDay /\ row.last < d /\ tick.frame[d] # "absent"
      /\ row.last # Never => \A d \in rows, e \in 1 .. LastDay :
                               row.last < e /\ e < d /\ tick.frame[e] # "absent" => e \in rows
  BY <1>1, <1>2, RowsAreNext
<1>5. row.last = Never => \A d \in rows : \A e \in Left(row.last) : e <= d
  <2> SUFFICES ASSUME row.last = Never, NEW d \in rows, NEW e \in Left(row.last) PROVE e <= d
    OBVIOUS
  <2>1. e \in Rows(tick.frame) /\ e > row.last /\ e > 1
    <3>1. e \in 2 .. LastDay /\ row.last < e /\ tick.frame[e] # "absent"  BY DEF Left
    <3>2. DOMAIN tick.frame = 1 .. LastDay  BY <1>1 DEF RowsOf
    <3> QED  BY <1>2, <3>1, <3>2 DEF Rows
  <2> QED  BY <2>1 DEF RowsToProcess
<1> HIDE DEF rows, run
<1>6. run.days # <<>> /\ run.days \in Seq(DayResult)
  <2>1. SUFFICES ASSUME run.days = <<>> PROVE FALSE  BY <1>1 DEF WalkFine
  <2>2. PICK e \in rows : TRUE  BY <1>3
  <2>3. LastDay < e  BY <1>1, <2>1 DEF WalkFine
  <2>4. e \in 2 .. LastDay  BY <1>4
  <2> QED  BY <2>3, <2>4
<1>7. row'.last \in rows  BY <1>1, <1>6 DEF WalkFine
<1>8. \A d \in rows : d \in Left(row.last)  BY <1>4 DEF Left
<1>9. ASSUME row.last # Never, NEW d \in Left(row.last), d <= row'.last
      PROVE  \E k \in 1 .. Len(row'.days) : row'.days[k].day = d
  <2>1. d \in 2 .. LastDay /\ row.last < d /\ tick.frame[d] # "absent"  BY DEF Left
  <2>2. row'.last \in 2 .. LastDay  BY <1>4, <1>7
  <2>3. d \in rows
    <3>1. CASE d = row'.last  BY <1>7, <3>1
    <3>2. CASE d # row'.last
      <4>1. d < row'.last /\ d \in 1 .. LastDay  BY <1>9, <2>1, <2>2, <3>2
      <4> QED  BY <1>4, <1>7, <1>9, <2>1, <4>1
    <3> QED  BY <3>1, <3>2
  <2> DEFINE p == row.days
             q == run.days
  <2>4. PICK i \in 1 .. Len(q) : q[i].day = d
    <3>1. Covers(q, rows, LastDay)  BY <1>1 DEF WalkFine
    <3>2. d <= LastDay  BY <2>1
    <3> HIDE DEF q
    <3> QED  BY <2>3, <3>1, <3>2 DEF Covers
  <2>5. p \in Seq(DayResult) /\ q \in Seq(DayResult) /\ row'.days = p \o q  BY <1>1, <1>2, <1>6
  <2> HIDE DEF p, q
  <2>6. /\ Len(p \o q) = Len(p) + Len(q) /\ (p \o q)[Len(p) + i] = q[i]
        /\ Len(p) \in Nat /\ Len(q) \in Nat
    BY <2>5, Concatenated
  <2>7. Len(p) + i \in 1 .. Len(p \o q)  BY <2>6
  <2> QED  BY <2>4, <2>5, <2>6, <2>7
<1> QED  BY <1>5, <1>7, <1>8, <1>9

LEMMA StepGrows ==
  ASSUME IInv, [Next]_vars, Present', row'.id = row.id
  PROVE  /\ Len(row.days) <= Len(row'.days)
         /\ \A j \in 1 .. Len(row.days) : row'.days[j] = row.days[j]
<1>1. row \in Row /\ row.days \in Seq(DayResult)  BY LastInRange DEF Row
<1>2. CASE row'.days = row.days
  <2>1. Len(row.days) \in Nat  BY <1>1
  <2> QED  BY <1>2, <2>1
<1>3. ASSUME row'.days # row.days, Process
      PROVE  /\ Len(row.days) <= Len(row'.days)
             /\ \A j \in 1 .. Len(row.days) : row'.days[j] = row.days[j]
  <2>1. Present /\ row.id = tick.snap.id /\ ~Drifted(tick.snap)
    <3>1. [row EXCEPT !.status = "spec_drift"].days = row.days  BY <1>1 DEF Row
    <3> QED  BY <1>3, <3>1 DEF Process
  <2> DEFINE run == Advance(tick.frame, tick.snap)
             p == row.days
             q == run.days
  <2>2. row'.days = p \o q /\ q \in Seq(DayResult)
    BY <1>3, <2>1, TickSteps DEF WalkFine
  <2>3. p \in Seq(DayResult)  BY <1>1
  <2> HIDE DEF p, q
  <2>4. /\ Len(p \o q) = Len(p) + Len(q) /\ Len(p) \in Nat /\ Len(q) \in Nat
        /\ \A j \in 1 .. Len(p) : (p \o q)[j] = p[j]
    BY <2>2, <2>3, Concatenated
  <2>5. Len(p) <= Len(p \o q)  BY <2>4
  <2> QED  BY <2>2, <2>4, <2>5 DEF p
<1>4. ASSUME ~Process PROVE row'.days = row.days
  <2>1. CASE Load \/ BuildPanel \/ Fail \/ Deploy \/ DayPasses \/ UNCHANGED vars
    BY <2>1 DEF Load, BuildPanel, Fail, Deploy, DayPasses, vars
  <2>2. ASSUME NEW d \in 1 .. LastDay, Repair(d) PROVE row'.days = row.days
    BY <2>2 DEF Repair
  <2>3. CASE Register
    <3>1. row'.id = row.id + 1 /\ row.id \in Nat  BY <1>1, <2>3 DEF Register, FreshRow, Row
    <3> QED  BY <3>1
  <2>4. CASE Delete  BY <2>4 DEF Delete, Present, FreshRow
  <2>5. CASE Retire  BY <1>1, <2>5 DEF Retire, Row
  <2> QED  BY <1>4, <2>1, <2>2, <2>3, <2>4, <2>5 DEF Next
<1> QED  BY <1>2, <1>3, <1>4

\* _process_registration appends to stored_days: no tick, restart, deployment or
\* retirement changes or drops a recorded day.
THEOREM RecordGrows == Spec => RecordOnlyGrows
<1> DEFINE Step == Present' /\ row'.id = row.id =>
                     /\ Len(row.days) <= Len(row'.days)
                     /\ \A j \in 1 .. Len(row.days) : row'.days[j] = row.days[j]
<1>1. IInv /\ [Next]_vars => Step  BY StepGrows
<1> QED  BY <1>1, Holds, PTL DEF Spec, RecordOnlyGrows

\* "Successive ticks continue where this one stopped": what CatchesUp rests on, and
\* a proof can say of a single tick (rows_to_process, advance_forward_validation).
THEOREM TicksMoveOn == Spec => TickMovesOn
<1> DEFINE Step ==
      Process /\ Present /\ row.id = tick.snap.id /\ ~Drifted(tick.snap) /\ Left(row.last) # {} =>
        /\ row'.last \in Left(row.last)
        /\ row.last = Never => \A d \in Left(row.last) : d <= row'.last
        /\ row.last # Never =>
             \A d \in Left(row.last) :
               d <= row'.last => \E k \in 1 .. Len(row'.days) : row'.days[k].day = d
<1>1. IInv => [Step]_vars
  <2>1. IInv => Step  BY StepMovesOn
  <2> QED  BY <2>1
<1> QED  BY <1>1, Holds, PTL DEF Spec, TickMovesOn
===============================================================================
