----------------------- MODULE CrossSectionalValidation -----------------------
(***************************************************************************)
(* Forward validation of a cross-sectional strategy: one registration row, *)
(* the runner's tick over its family's live panel, deployments that change *)
(* the family's definition, and the owner.                                 *)
(*                                                                         *)
(* A book is known by the day it was formed on; what it holds and earns is *)
(* computed by the functions the batch backtest also calls, and left out.  *)
(* Days are rows of the panel, numbered; a row is whole, or an outage: it  *)
(* carries a close for few of its names only.  The registrations of a      *)
(* family share nothing but the panel, so one of them is modelled.         *)
(***************************************************************************)
EXTENDS Naturals, FiniteSets, SequencesExt

CONSTANTS HoldingDays,   \* spec.holding_days
          MaxCatchup,    \* MAX_CATCHUP_ROWS_PER_TICK
          DayFloor,      \* MIN_FORWARD_VALIDATION_TRADING_DAYS
          Versions,      \* definitions of spec and config a build may carry
          FirstDay,      \* the day the behaviour begins on
          LastDay,       \* bound on the calendar
          MaxId,         \* bound on registrations
          MaxFaults      \* bound on failed ticks and restarts

ASSUME CrossSectionalAssumption ==
  /\ HoldingDays \in Nat \ {0} /\ MaxCatchup \in Nat \ {0} /\ DayFloor \in Nat
  /\ Versions # {} /\ FirstDay \in Nat \ {0, 1, 2}
  /\ LastDay \in Nat /\ FirstDay <= LastDay
  /\ MaxId \in Nat /\ MaxFaults \in Nat

VARIABLES row,           \* the registration row
          panel,         \* what the provider has of each day
          today,         \* utcnow_naive().date(); its own row is still forming
          version,       \* the definition in the running build
          tick,          \* the runner's tick
          faults

vars == <<row, panel, today, version, tick, faults>>

Never == 0               \* last_processed_date IS NULL
NoBook == 0              \* rows_since_formation IS NULL

ActiveStatuses == {"in_progress", "forward_validated"}
Statuses == ActiveStatuses \cup {"spec_drift", "retired", "none"}

\* MIN_FORWARD_COMPLETE_HOLDS complete holds, and never less than the day floor.
CompleteHolds == 2
GraduationThreshold ==
  IF DayFloor > CompleteHolds * HoldingDays THEN DayFloor ELSE CompleteHolds * HoldingDays

\* The state between days: the book held, the rows since it was formed, and the
\* formation whose turnover is still to be charged.
Carry == [since : 0 .. HoldingDays - 1, book : Nat, pending : Nat]
FreshCarry == [since |-> 0, book |-> NoBook, pending |-> 0]

\* A processed day: the book that earned it, priced against which row, the
\* formation whose turnover it paid, whether it formed a new book, under which
\* definition, and whether its row was whole.
DayResult == [day : Nat, book : Nat, base : Nat, charged : Nat,
              reformed : BOOLEAN, by : Versions, whole : BOOLEAN]

Realized(day) == day.book # NoBook

FreshRow(id, status, spec) ==
  [id |-> id, status |-> status, spec |-> spec, n |-> 0, last |-> Never,
   carry |-> FreshCarry, days |-> <<>>]

Row == [id : Nat, status : Statuses, spec : Versions, n : Nat, last : Nat,
        carry : Carry, days : Seq(DayResult)]

Present == row.status # "none"
Kinds == {"absent", "outage", "whole"}

\* A tick holds the row as loaded and, once built, the panel.
Tick == [pc : {"idle", "loaded", "built"}, snap : Row, frame : [1 .. LastDay -> Kinds]]
NoFrame == [d \in 1 .. LastDay |-> "absent"]

\* Versions have no order, so the build a behaviour begins with is a fixed one.
FirstVersion == CHOOSE v \in Versions : TRUE
Idle == [pc |-> "idle", snap |-> FreshRow(0, "none", FirstVersion), frame |-> NoFrame]

TypeOK ==
  /\ row \in Row /\ row.last < today
  /\ panel \in [1 .. LastDay -> Kinds]
  /\ today \in FirstDay .. LastDay
  /\ version \in Versions
  /\ tick \in Tick
  /\ faults \in 0 .. MaxFaults

Init ==
  /\ version = FirstVersion
  /\ row = FreshRow(0, "none", FirstVersion)
  /\ panel = [d \in 1 .. LastDay |-> IF d < FirstDay THEN "whole" ELSE "absent"]
  /\ today = FirstDay
  /\ tick = Idle
  /\ faults = 0

-------------------------------------------------------------------------------
(* The pure part: rows of a frame, and one day.                            *)

\* Days the frame has a row of, and the row before a day.
Rows(frame) == {d \in DOMAIN frame : frame[d] # "absent"}
RowBefore(frame, d) ==
  CHOOSE e \in 1 .. (d - 1) : frame[e] # "absent" /\ \A f \in (e + 1) .. (d - 1) : frame[f] = "absent"

\* Mutation: no row of the panel may be an outage.
NewestRowIncompleteAny(frame) == \E d \in Rows(frame) : frame[d] = "outage"

\* live_panel_newest_row_incomplete: the newest row against the row before it.
NewestRowIncomplete(frame) ==
  LET newest == RowBefore(frame, LastDay + 1)
  IN  frame[newest] = "outage" /\ frame[RowBefore(frame, newest)] = "whole"

\* The newest row on the first tick ever, then the oldest unprocessed ones.
RowsToProcess(frame, last) ==
  LET due == {d \in Rows(frame) : d > last /\ d > 1}
  IN  IF last = Never THEN {d \in due : \A e \in due : e <= d}
      ELSE {d \in due : Cardinality({e \in due : e < d}) < MaxCatchup}

\* Mutation: a book is held a row too long.
ReformsLate(c) == c.book = NoBook \/ c.since >= HoldingDays

\* There is no book yet, or it has been held for its holding days by now.
Reforms(c) == c.book = NoBook \/ c.since + 1 >= HoldingDays

NextCarry(c, d) ==
  IF Reforms(c) THEN [since |-> 0, book |-> d, pending |-> d]
                ELSE [since |-> c.since + 1, book |-> c.book, pending |-> 0]

\* The formation whose turnover is paid on this day.
Charge(c) == IF c.book # NoBook /\ c.since = 0 THEN c.pending ELSE 0

\* Mutation: the new book is formed before the day is realized.
StepOneDayReformFirst(frame, s, d) ==
  [carry |-> NextCarry(s.carry, d),
   days |-> Append(s.days,
              [day |-> d, base |-> RowBefore(frame, d), charged |-> Charge(s.carry),
               book |-> IF s.carry.book # NoBook /\ Reforms(s.carry) THEN d ELSE s.carry.book,
               reformed |-> Reforms(s.carry), by |-> version, whole |-> frame[d] = "whole"])]

\* step_one_cross_sectional_day: the day is earned by the book held into it,
\* which pays its turnover on the first such day; then a new book is formed if
\* one is due.
StepOneDay(frame, s, d) ==
  [carry |-> NextCarry(s.carry, d),
   days |-> Append(s.days,
              [day |-> d, base |-> RowBefore(frame, d), charged |-> Charge(s.carry),
               book |-> s.carry.book,
               reformed |-> Reforms(s.carry), by |-> version, whole |-> frame[d] = "whole"])]

\* advance_forward_validation: the rows to process in order, from what the
\* registration carries.
Advance(frame, snap) ==
  LET rows == RowsToProcess(frame, snap.last)
      walk[d \in 0 .. LastDay] ==
        IF d = 0 THEN [carry |-> snap.carry, days |-> <<>>]
        ELSE IF d \in rows THEN StepOneDay(frame, walk[d - 1], d) ELSE walk[d - 1]
  IN  walk[LastDay]

-------------------------------------------------------------------------------
(* The tick.                                                               *)

Load ==
  /\ tick.pc = "idle"
  /\ row.status \in ActiveStatuses
  /\ tick' = [Idle EXCEPT !.pc = "loaded", !.snap = row]
  /\ UNCHANGED <<row, panel, today, version, faults>>

\* _process_family up to the first registration: the pre-check on the date, the
\* download, and the check of the newest row.
BuildPanel ==
  LET frame == [d \in DOMAIN panel |-> IF d < today THEN panel[d] ELSE "absent"]
      pending == tick.snap.last = Never \/ tick.snap.last < today
  IN  /\ tick.pc = "loaded"
      /\ tick' = IF pending /\ ~NewestRowIncomplete(frame)
                 THEN [tick EXCEPT !.pc = "built", !.frame = frame]
                 ELSE Idle
      /\ UNCHANGED <<row, panel, today, version, faults>>

\* Mutation: every processed day counts towards graduation.
CountedAll(results) == Len(results)

\* n_realized_new: a day that only formed a book is no day of track record.
Counted(results) == Cardinality({k \in DOMAIN results : Realized(results[k])})

\* resolve_spec, detect_spec_drift and detect_config_drift.
Drifted(snap) == snap.spec # version

\* The columns a tick writes; the status is the one read when it commits.
Applied(snap, run) ==
  LET n == snap.n + Counted(run.days)
  IN  [row EXCEPT !.carry = run.carry, !.days = snap.days \o run.days, !.n = n,
                  !.last = Last(run.days).day,
                  !.status = IF @ = "in_progress" /\ n >= GraduationThreshold
                             THEN "forward_validated" ELSE @]

\* _process_registration.  Neither branch looks at the status or the record the
\* row has by now, only whether the row is there.
Process ==
  tick.pc = "built" /\ \E run \in {Advance(tick.frame, tick.snap)} :
    /\ row' = IF ~Present \/ row.id # tick.snap.id THEN row
              ELSE IF Drifted(tick.snap) THEN [row EXCEPT !.status = "spec_drift"]
              ELSE IF run.days = <<>> THEN row
              ELSE Applied(tick.snap, run)
    /\ tick' = Idle
    /\ UNCHANGED <<panel, today, version, faults>>

\* The download fails, or the commit does.
Fail ==
  /\ tick.pc # "idle" /\ faults < MaxFaults
  /\ tick' = Idle /\ faults' = faults + 1
  /\ UNCHANGED <<row, panel, today, version>>

\* A restart, with the same build or another.
Deploy ==
  /\ faults < MaxFaults
  /\ version' \in Versions
  /\ tick' = Idle /\ faults' = faults + 1
  /\ UNCHANGED <<row, panel, today>>

-------------------------------------------------------------------------------
(* Around it.                                                              *)

\* A fresh POST; for a registration that is there POST changes nothing.
Register ==
  /\ ~Present /\ row.id < MaxId
  /\ row' = FreshRow(row.id + 1, "in_progress", version)
  /\ UNCHANGED <<panel, today, version, tick, faults>>

Delete ==
  /\ Present
  /\ row' = FreshRow(row.id, "none", version)
  /\ UNCHANGED <<panel, today, version, tick, faults>>

\* A human stops the clock; no code does.
Retire ==
  /\ row.status \in ActiveStatuses
  /\ row' = [row EXCEPT !.status = "retired"]
  /\ UNCHANGED <<panel, today, version, tick, faults>>

\* Midnight UTC; the day that ended has its row by then, in part, or not at all.
DayPasses ==
  /\ today < LastDay
  /\ today' = today + 1
  /\ \E kind \in Kinds : panel' = [panel EXCEPT ![today] = kind]
  /\ UNCHANGED <<row, version, tick, faults>>

\* The provider fills in a day.
Repair(d) ==
  /\ d < today /\ panel[d] # "whole"
  /\ \E kind \in {"outage", "whole"} \ {panel[d]} : panel' = [panel EXCEPT ![d] = kind]
  /\ UNCHANGED <<row, today, version, tick, faults>>

RunnerStep == Load \/ BuildPanel \/ Process

Next ==
  \/ Load
  \/ BuildPanel
  \/ Process
  \/ Fail
  \/ Deploy
  \/ Register
  \/ Delete
  \/ Retire
  \/ DayPasses
  \/ \E d \in 1 .. LastDay : Repair(d)

Spec == Init /\ [][Next]_vars

FairSpec == Spec /\ WF_vars(RunnerStep)

-------------------------------------------------------------------------------
(* The batch backtest over the days of a record, for comparison.           *)

\* _replay_sleeve: a book every HoldingDays rows but none on the last row, each
\* realized on the rows after it up to the next formation, charged on the first.
Formations(n) == {i \in 1 .. n : i < n /\ (i - 1) % HoldingDays = 0}

Replay(days) ==
  [j \in 2 .. Len(days) |->
     LET i == CHOOSE i \in Formations(Len(days)) : i < j /\ j <= i + HoldingDays
     IN  [book |-> days[i].day, charged |-> IF j = i + 1 THEN days[i].day ELSE 0]]

-------------------------------------------------------------------------------
(* Properties.                                                             *)

\* "Resume where the last real day left off": whatever ticks, catch-ups,
\* restarts, deployments and withdrawals produced it, a record is the batch
\* replay of the registered definition over its days.  Each day but the first is
\* earned by the book the replay holds, pays the turnover the replay charges and
\* is priced against the day recorded before it; n_forward_trading_days and
\* last_processed_date describe the same days.
RecordIsTheReplay ==
  LET days == row.days
      replay == Replay(days)
  IN  /\ \A j \in DOMAIN days :
           /\ days[j].by = row.spec
           /\ days[j].reformed <=> (j - 1) % HoldingDays = 0
           /\ IF j = 1 THEN ~Realized(days[j])
              ELSE /\ days[j].book = replay[j].book /\ days[j].charged = replay[j].charged
                   /\ days[j].base = days[j - 1].day
      /\ row.n = (IF days = <<>> THEN 0 ELSE Len(days) - 1)
      /\ row.last = (IF days = <<>> THEN Never ELSE Last(days).day)

\* "A track record of one unfinished bet" never graduates: a graduated record
\* has two books that were held from formation to their last realized day.
GraduatedOnCompleteHolds ==
  row.status = "forward_validated" =>
    Cardinality({i \in DOMAIN row.days :
                   /\ row.days[i].reformed
                   /\ Cardinality({j \in DOMAIN row.days : row.days[j].book = row.days[i].day})
                        = HoldingDays}) >= CompleteHolds

\* The registration can go on: it is active, under the definition it was made
\* with, and the newest row of the panel is not an outage.
NewestRow == RowBefore(panel, today)
CanGoOn ==
  /\ row.status \in ActiveStatuses /\ row.spec = version
  /\ panel[NewestRow] = "whole"

\* "Successive ticks continue where this one stopped": a registration that can go
\* on is in the end recorded up to the newest row, whatever is wrong with older
\* rows.
CatchesUp == <>[]CanGoOn => <>[](row.last = NewestRow)

\* cross_sectional_forward_validation_runner.py:256 "A row like that is a data
\* outage, not a trading day ... the normal catch-up in rows_to_process realizes
\* it once it is complete."
OutageNeverRealized ==
  \A k \in DOMAIN row.days : Realized(row.days[k]) => row.days[k].whole
===============================================================================
