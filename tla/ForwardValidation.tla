--------------------------- MODULE ForwardValidation ---------------------------
(***************************************************************************)
(* Forward validation of one strategy: its registration row, the runner's  *)
(* tick, the operator's backfill script, and what happens around them.     *)
(*                                                                         *)
(* Tick and backfill are passes over the same code: load the active row    *)
(* (Load), fetch prices (Fetch), read the row again and compare its        *)
(* last_processed_date with the one loaded (Check), and commit (Commit).   *)
(* Nothing locks the row, and the ORM writes back only the columns whose   *)
(* value changed.  A pass may die between any two of these; a dry run of   *)
(* the backfill is one that ends before its commit.                        *)
(*                                                                         *)
(* Days are trading days, numbered; a bar is published when every ticker   *)
(* of the registration has it, since a row without one is dropped.         *)
(***************************************************************************)
EXTENDS WalkForward, FiniteSets

CONSTANTS Passes,        \* passes that may be under way at the same time
          FitWindow,     \* fit_window_days
          Window,        \* trading days a tick loads (2 * fit + 30 calendar days)
          MaxCatchup,    \* MAX_CATCHUP_ROWS_PER_TICK
          Threshold,     \* min_trading_days_threshold
          FirstDay,      \* the day the registration may begin on
          LastDay,       \* bound on the calendar
          MaxId,         \* bound on registrations
          Calendars      \* readings of the days that a behaviour may have

ASSUME ValidationAssumption ==
  /\ FitWindow \in Nat \ {0} /\ Window \in Nat \ {0} /\ MaxCatchup \in Nat \ {0}
  /\ Threshold \in Nat \ {0} /\ MaxId \in Nat
  /\ FirstDay \in Nat \ {0} /\ LastDay \in Nat /\ FirstDay <= LastDay
  /\ Calendars \subseteq [1 .. LastDay -> Readings]

VARIABLES row,           \* the forward_validation_registrations row
          bars,          \* days whose bar is published
          today,         \* utcnow_naive().date(); its own bar is still forming
          readings,      \* what the fit says of each day
          pass,          \* each pass under way
          born,          \* history: the bars published when the row was inserted
          late,          \* history: days published after a later day
          lost,          \* history: days a pass has reported as unrecoverable
          torn           \* history: a write has landed on one it did not know of

vars == <<row, bars, today, readings, pass, born, late, lost, torn>>

Never == 0               \* last_processed_date IS NULL

ActiveStatuses == {"in_progress", "forward_validated"}
Statuses == ActiveStatuses \cup {"underperforming", "none"}

Row == [id : Nat, status : Statuses, n : Nat, last : Nat,
        carry : CarryStates, days : Seq(Nat), trades : Seq(Trades)]

\* What register_or_get_forward_validation inserts.
FreshRow(id, status) ==
  [id |-> id, status |-> status, n |-> 0, last |-> Never,
   carry |-> FreshCarry, days |-> <<>>, trades |-> <<>>]

\* _RegistrationSnapshot, as far as a pass uses it.
Snapshot == [id : Nat, last : Nat, carry : CarryStates]
SnapshotOf(r) == [id |-> r.id, last |-> r.last, carry |-> r.carry]

\* A pass: the date the script asked for, the rows to step onto, the row as read
\* at the check, and whether it has been written since.
Pass == [pc : {"idle", "loaded", "fetched", "checked"}, op : {"tick", "backfill"},
         end : Nat, snap : Snapshot, steps : Seq(Nat), seen : Row, overtaken : BOOLEAN]

NoRow == FreshRow(0, "none")

Idle == [pc |-> "idle", op |-> "tick", end |-> 0, snap |-> SnapshotOf(NoRow),
         steps |-> <<>>, seen |-> NoRow, overtaken |-> FALSE]

Present == row.status # "none"

TypeOK ==
  /\ row \in Row
  /\ bars \subseteq 1 .. LastDay
  /\ today \in FirstDay .. LastDay
  /\ readings \in Calendars
  /\ pass \in [Passes -> Pass]
  /\ born \subseteq bars /\ late \subseteq bars /\ lost \subseteq bars
  /\ torn \in BOOLEAN

Init ==
  /\ row = NoRow
  /\ bars = 1 .. (FirstDay - 1)
  /\ today = FirstDay
  /\ readings \in Calendars
  /\ pass = [p \in Passes |-> Idle]
  /\ born = {} /\ late = {} /\ lost = {}
  /\ torn = FALSE

\* A write by someone else makes every pass past its check a late one.
Overtaking(p) ==
  [q \in Passes |-> IF q = p THEN Idle
                    ELSE [pass[q] EXCEPT !.overtaken = @ \/ pass[q].pc = "checked"]]

-------------------------------------------------------------------------------
(* The pure part: which rows of the loaded frame a pass steps onto.        *)

Frame(from, end) == {d \in bars : from <= d /\ d < end}

Before(S, d) == {e \in S : e < d}

\* A finite set of days in order: the k-th has k - 1 days before it.
InOrder(S) == [k \in 1 .. Cardinality(S) |-> CHOOSE d \in S : Cardinality(Before(S, d)) = k - 1]

\* Rows with a full fit window in front of them.
WithWindow(frame) == {d \in frame : Cardinality(Before(frame, d)) >= FitWindow}

\* Mutation: the catch-up takes the newest rows.
RowsToProcessNewest(frame, last, maxRows) ==
  LET due == {d \in WithWindow(frame) : d > last}
  IN  {d \in due : Cardinality({e \in due : e > d}) < IF last = Never THEN 1 ELSE maxRows}

\* Mutation: the first tick takes every row it could.
RowsToProcessHistory(frame, last, maxRows) ==
  LET due == {d \in WithWindow(frame) : d > last}
  IN  {d \in due : Cardinality(Before(due, d)) < maxRows}

\* The newest row on the first tick ever, then the oldest unprocessed ones.
RowsToProcess(frame, last, maxRows) ==
  LET due == {d \in WithWindow(frame) : d > last}
  IN  IF last = Never THEN {d \in due : \A e \in due : e <= d}
                      ELSE {d \in due : Cardinality(Before(due, d)) < maxRows}

UnrecoverableRows(frame, last) ==
  IF last = Never THEN {} ELSE {d \in frame \ WithWindow(frame) : d > last}

-------------------------------------------------------------------------------
(* A pass.                                                                 *)

\* _load_active_registrations, by a tick or by the script; the script has
\* asked for the date before.
Load(p, op) ==
  /\ pass[p].pc = "idle"
  /\ row.status \in ActiveStatuses
  /\ pass' = [pass EXCEPT ![p] = [Idle EXCEPT !.pc = "loaded", !.op = op,
                                              !.end = IF op = "tick" THEN 0 ELSE today,
                                              !.snap = SnapshotOf(row)]]
  /\ UNCHANGED <<row, bars, today, readings, born, late, lost, torn>>

\* Prices fetched, rows chosen.  A tick anchors its window on the date of the
\* fetch, the script on the last processed date, and the script leaves rows
\* alone that were never ticked or are current.
Fetch(p) ==
  LET snap == pass[p].snap
      isTick == pass[p].op = "tick"
      end == IF isTick THEN today ELSE pass[p].end
      frame == Frame((IF isTick THEN end ELSE snap.last) - Window, end)
      rows == RowsToProcess(frame, snap.last, IF isTick THEN MaxCatchup ELSE Cardinality(frame))
      skip == ~isTick /\ (row.id # snap.id \/ ~Present \/ snap.last = Never \/ snap.last >= end)
  IN  /\ pass[p].pc = "loaded"
      /\ IF skip \/ rows = {}
           THEN pass' = [pass EXCEPT ![p] = Idle] /\ UNCHANGED lost
           ELSE /\ pass' = [pass EXCEPT ![p].pc = "fetched", ![p].steps = InOrder(rows)]
                /\ lost' = lost \cup UnrecoverableRows(frame, snap.last)
      /\ UNCHANGED <<row, bars, today, readings, born, late, torn>>

\* Mutation: the row is not compared with the one loaded.
CheckTrusting(p) ==
  /\ pass[p].pc = "fetched"
  /\ pass' = [pass EXCEPT ![p] = IF Present /\ row.id = @.snap.id
                                 THEN [@ EXCEPT !.pc = "checked", !.seen = row]
                                 ELSE Idle]
  /\ UNCHANGED <<row, bars, today, readings, born, late, lost, torn>>

\* The row is read again: gone, or advanced since the load, ends the pass.
Check(p) ==
  /\ pass[p].pc = "fetched"
  /\ pass' = [pass EXCEPT ![p] =
                IF Present /\ row.id = @.snap.id /\ row.last = @.snap.last
                THEN [@ EXCEPT !.pc = "checked", !.seen = row]
                ELSE Idle]
  /\ UNCHANGED <<row, bars, today, readings, born, late, lost, torn>>

\* Mutation: graduation is decided by the days before the pass.
ApplyForwardStepsLate(snap, seen, steps) ==
  LET run == WalkThrough([carry |-> snap.carry, trades |-> seen.trades], steps, readings)
  IN  [seen EXCEPT !.n = @ + Len(steps), !.last = Last(steps),
                   !.days = @ \o steps, !.carry = run.carry, !.trades = run.trades,
                   !.status = IF @ = "in_progress" /\ seen.n >= Threshold
                              THEN "forward_validated" ELSE @]

\* apply_forward_steps: the steps chain from the state as loaded, the row's
\* other columns from the row as read at the check.
ApplyForwardSteps(snap, seen, steps) ==
  LET run == WalkThrough([carry |-> snap.carry, trades |-> seen.trades], steps, readings)
  IN  [seen EXCEPT !.n = @ + Len(steps), !.last = Last(steps),
                   !.days = @ \o steps, !.carry = run.carry, !.trades = run.trades,
                   !.status = IF @ = "in_progress" /\ seen.n + Len(steps) >= Threshold
                              THEN "forward_validated" ELSE @]

\* The columns a flush leaves behind: a column is written when it changed.
Flush(seen, assigned, stored) ==
  [c \in DOMAIN stored |-> IF assigned[c] = seen[c] THEN stored[c] ELSE assigned[c]]

\* The commit; updating a row that is gone fails and ends the pass.
Commit(p) ==
  LET s == pass[p]
      written == Present /\ row.id = s.snap.id
  IN  /\ s.pc = "checked"
      /\ row' = IF written THEN Flush(s.seen, ApplyForwardSteps(s.snap, s.seen, s.steps), row)
                ELSE row
      /\ torn' = (torn \/ (written /\ s.overtaken))
      /\ pass' = IF written THEN Overtaking(p) ELSE [pass EXCEPT ![p] = Idle]
      /\ UNCHANGED <<bars, today, readings, born, late, lost>>

\* A failed fetch, a failed commit, a crash, or the rollback of a dry run.
Abandon(p) ==
  /\ pass[p].pc # "idle"
  /\ pass' = [pass EXCEPT ![p] = Idle]
  /\ UNCHANGED <<row, bars, today, readings, born, late, lost, torn>>

-------------------------------------------------------------------------------
(* Around it: the owner, the calendar and the data provider.               *)

\* A human sets the status by hand; no code does.
Park ==
  /\ row.status \in ActiveStatuses
  /\ row' = [row EXCEPT !.status = "underperforming"]
  /\ pass' = [p \in Passes |-> [pass[p] EXCEPT !.overtaken = @ \/ pass[p].pc = "checked"]]
  /\ UNCHANGED <<bars, today, readings, born, late, lost, torn>>

Delete ==
  /\ Present
  /\ row' = FreshRow(row.id, "none")
  /\ UNCHANGED <<bars, today, readings, pass, born, late, lost, torn>>

\* A fresh POST after a DELETE: ids are not given out twice.
Register ==
  /\ ~Present
  /\ row.id < MaxId
  /\ row' = FreshRow(row.id + 1, "in_progress")
  /\ born' = bars
  /\ UNCHANGED <<bars, today, readings, pass, late, lost, torn>>

\* Midnight UTC.  The bar of the day that ended is published by then, or not.
DayPasses ==
  /\ today < LastDay
  /\ today' = today + 1
  /\ bars' \in {bars, bars \cup {today}}
  /\ UNCHANGED <<row, readings, pass, born, late, lost, torn>>

Publish(d) ==
  /\ d < today /\ d \notin bars
  /\ bars' = bars \cup {d}
  /\ late' = IF \E e \in bars : e > d THEN late \cup {d} ELSE late
  /\ UNCHANGED <<row, today, readings, pass, born, lost, torn>>

-------------------------------------------------------------------------------
PassStep(p) ==
  \/ \E op \in {"tick", "backfill"} : Load(p, op)
  \/ Fetch(p)
  \/ Check(p)
  \/ Commit(p)
  \/ Abandon(p)

Next ==
  \/ \E p \in Passes : PassStep(p)
  \/ Park
  \/ Delete
  \/ Register
  \/ DayPasses
  \/ \E d \in 1 .. LastDay : Publish(d)

Spec == Init /\ [][Next]_vars

-------------------------------------------------------------------------------
(* Properties.                                                             *)

\* The registration keeps the promise of TrackRecord as long as no write has
\* landed on one it did not know of: days once, in order, one to begin with,
\* a status that follows the record, no matter how ticks, script, deletions
\* and fresh registrations interleave.
Promise == INSTANCE TrackRecord WITH
             days <- row.days, status <- row.status, intact <- ~torn

TrackRecordKept == Promise!Spec

\* The persisted state is the batch backtest's over the recorded days, whatever
\* passes, crashes and catch-ups produced it: carry state, closed trades,
\* counter and last date all describe the same run of days.
RecordIsABacktest ==
  ~torn => LET run == RunWalkForward(row.days, readings)
           IN  /\ row.carry = run.carry /\ row.trades = run.trades
               /\ row.n = Len(row.days)
               /\ row.last = IF row.days = <<>> THEN Never ELSE Last(row.days)

\* A forward record is not made of the history the registration was decided on:
\* whatever late bars, catch-ups and passes follow, at most its first day was
\* published by then, and that one is the newest bar there was.
NoHindsight ==
  \A i \in DOMAIN row.days, d \in born : d <= row.days[i] /\ (i > 1 => d < row.days[i])

\* A trade's holding days are the recorded days from its entry up to its exit,
\* the exit not counted, and two trades of a record do not overlap.
TradesMatchTheRecord ==
  ~torn =>
    \A i \in DOMAIN row.trades :
      LET t == row.trades[i]
      IN  /\ t.held = Cardinality({k \in DOMAIN row.days : t.entry <= row.days[k] /\ row.days[k] < t.exit})
          /\ t.held >= 1 /\ t.direction # 0
          /\ \A j \in DOMAIN row.trades : i < j => t.exit < row.trades[j].entry

\* "Every day since, not the latest day": a published day between the first and
\* the last recorded one is in the record, or was published after a later day,
\* or lies in a gap of the record of which a pass has reported a day as lost.
NoSilentGap ==
  ~torn =>
    \A d \in bars : (row.days # <<>> /\ row.days[1] < d /\ d < row.last)
       => \/ d \in ToSet(row.days) \cup late
          \/ \E e \in lost : d <= e /\ \A r \in ToSet(row.days) : ~(d < r /\ r < e)

-------------------------------------------------------------------------------
(* What the documentation says, and the code does not do.                  *)

\* engine.py:272 "a forward-validation track record must start TODAY and
\* accumulate from data that did not exist when the registration was created":
\* no recorded day was published by then.
RecordStartsAfterRegistration == \A i \in DOMAIN row.days : row.days[i] \notin born

\* forward_validation_backfill.py:35 "so a gap older than the tick's rolling
\* window ... is recovered too": a day reported as lost stays ahead of
\* last_processed_date until it is counted.
LostDaysStayRecoverable ==
  \A d \in lost : d \in ToSet(row.days) \/ d > row.last

\* forward_validation_runner.py:245 "safe to run against a database a live
\* runner is also ticking": with nobody else writing the row, the record never
\* loses a day.
RecordNeverShrinks ==
  [][Len(row'.days) < Len(row.days) => row'.status = "none"]_vars
===============================================================================
