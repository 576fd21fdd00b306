--------------------------- MODULE ExecutionControl ---------------------------
(***************************************************************************)
(* The account-wide kill switch: one execution_control row, read and       *)
(* written by the execution tick and by the /halt and /resume requests,    *)
(* each through a database session of its own.                             *)
(*                                                                         *)
(* A session reads the row once, decides on what it read, and commits      *)
(* later; nothing locks the row in between.  The ORM writes back only the  *)
(* columns whose value differs from the value that was read (Flush), so a  *)
(* halt of a row that was read as halted does not write trading_halted.    *)
(* The last_tick_* and resumed_* columns are never read by a decision and  *)
(* are left out.                                                           *)
(***************************************************************************)
EXTENDS Naturals

CONSTANTS Requests,    \* concurrent /halt and /resume requests
          Ticks,       \* execution runners: one, two while a deploy overlaps
          LastDay      \* bound on the calendar (US Eastern dates)

ASSUME ControlAssumption ==
  /\ Requests \cap Ticks = {}
  /\ LastDay \in Nat \ {0}

VARIABLES row,         \* the execution_control row in the database
          today,       \* eastern_trading_date(utcnow_naive())
          sess,        \* the database session of each request and tick
          overlapped,  \* history: halts during which a resume committed
          raced        \* history: a breach halt and a resume have overlapped

vars == <<row, today, sess, overlapped, raced>>

Sessions == Requests \cup Ticks
Never == 0             \* daily_loss_breach_at IS NULL

Reasons == {"none", "startup", "manual", "blocked", "breach"}
Row == [present : BOOLEAN, halted : BOOLEAN, reason : Reasons, breachDay : Nat]

\* The row the migration seeds and get_control creates.  Before it exists the
\* record only stands for "no row".
SeedRow(present) ==
  [present |-> present, halted |-> TRUE, reason |-> "startup", breachDay |-> Never]
StartupRow == SeedRow(TRUE)

NoRow == SeedRow(FALSE)

\* A session: where it stands, what it is doing, the row as it last read it.
Session == [pc : {"idle", "load", "create", "ticking", "halting", "resuming"},
            op : {"none", "tick", "resume", "manual", "blocked", "breach"},
            seen : Row]
Idle == [pc |-> "idle", op |-> "none", seen |-> NoRow]

\* The value a column has after a flush: only a net change is written.
Flush(read, assigned, stored) == IF assigned = read THEN stored ELSE assigned

TypeOK ==
  /\ row \in Row
  /\ today \in 1 .. LastDay
  /\ sess \in [Sessions -> Session]
  /\ overlapped \subseteq Sessions
  /\ raced \in BOOLEAN

Init ==
  /\ row \in {StartupRow, NoRow}
  /\ today = 1
  /\ sess = [s \in Sessions |-> Idle]
  /\ overlapped = {}
  /\ raced = FALSE

-------------------------------------------------------------------------------
(* Sessions: opening one, get_control, and losing one to a crash.          *)

Begin(s, o) ==
  /\ sess[s].pc = "idle"
  /\ o \in IF s \in Ticks THEN {"tick"} ELSE {"manual", "resume"}
  /\ sess' = [sess EXCEPT ![s].pc = "load", ![s].op = o]
  /\ UNCHANGED <<row, today, overlapped, raced>>

\* get_control on an empty table: two sessions may both find it empty.
LoadMissing(s) ==
  /\ sess[s].pc = "load"
  /\ ~row.present
  /\ sess' = [sess EXCEPT ![s].pc = "create"]
  /\ UNCHANGED <<row, today, overlapped, raced>>

\* The insert: whoever is second violates the primary key and fails.
Create(s) ==
  /\ sess[s].pc = "create"
  /\ \/ /\ ~row.present
        /\ row' = StartupRow
        /\ sess' = [sess EXCEPT ![s].pc = "load"]
     \/ /\ row.present
        /\ sess' = [sess EXCEPT ![s] = Idle]
        /\ UNCHANGED row
  /\ UNCHANGED <<today, overlapped, raced>>

\* A failed commit, a crash or a restart: nothing uncommitted survives.
Abort(s) ==
  /\ sess[s].pc # "idle"
  /\ sess' = [sess EXCEPT ![s] = Idle]
  /\ overlapped' = overlapped \ {s}
  /\ UNCHANGED <<row, today, raced>>

Loading(s, o) == sess[s].pc = "load" /\ sess[s].op = o /\ row.present

-------------------------------------------------------------------------------
(* The execution tick, as far as the control row is concerned.             *)

\* Mutation: a halted tick goes on watching the account.
TickLoadAlways(s) ==
  /\ Loading(s, "tick")
  /\ sess' = [sess EXCEPT ![s] = [pc |-> "ticking", op |-> "tick", seen |-> row]]
  /\ UNCHANGED <<row, today, overlapped, raced>>

TickLoad(s) ==
  /\ Loading(s, "tick")
  /\ sess' = [sess EXCEPT ![s] = IF row.halted THEN Idle
                                 ELSE [pc |-> "ticking", op |-> "tick", seen |-> row]]
  /\ UNCHANGED <<row, today, overlapped, raced>>

\* The tick ends without halting anything (whatever it traded in between).
TickEnd(s) ==
  /\ sess[s].pc = "ticking"
  /\ sess' = [sess EXCEPT ![s] = Idle]
  /\ UNCHANGED <<row, today, overlapped, raced>>

\* The tick found a reason to halt.  Its session still holds the row read at
\* the start of the tick, unless a commit since (the reconciliation's) has
\* expired it, in which case get_control reads it again.
TickDetects(s, o) ==
  /\ sess[s].pc = "ticking"
  /\ \E read \in {sess[s].seen, row} :
       sess' = [sess EXCEPT ![s] = [pc |-> "halting", op |-> o, seen |-> read]]
  /\ UNCHANGED <<row, today, overlapped, raced>>

-------------------------------------------------------------------------------
(* The operator's requests.                                                *)

HaltLoad(s) ==
  /\ Loading(s, "manual")
  /\ sess' = [sess EXCEPT ![s].pc = "halting", ![s].seen = row]
  /\ UNCHANGED <<row, today, overlapped, raced>>

\* Mutation: the day of the breach itself passes the check.
ResumeLoadSameDay(s, confirmed) ==
  /\ Loading(s, "resume")
  /\ sess' = [sess EXCEPT ![s] = IF confirmed /\ row.breachDay <= today
                                 THEN [pc |-> "resuming", op |-> "resume", seen |-> row]
                                 ELSE Idle]
  /\ UNCHANGED <<row, today, overlapped, raced>>

\* resume's checks run on the row as read: the confirmation phrase, and no
\* breach on the current Eastern date.
ResumeLoad(s, confirmed) ==
  /\ Loading(s, "resume")
  /\ sess' = [sess EXCEPT ![s] = IF confirmed /\ row.breachDay < today
                                 THEN [pc |-> "resuming", op |-> "resume", seen |-> row]
                                 ELSE Idle]
  /\ UNCHANGED <<row, today, overlapped, raced>>

-------------------------------------------------------------------------------
(* The two commits.                                                        *)

\* Mutation: halt stores the breach it was given, also when it was given none.
CommitHaltOverwriting(s) ==
  /\ sess[s].pc = "halting"
  /\ row' = [row EXCEPT !.halted = TRUE, !.reason = sess[s].op,
                        !.breachDay = IF sess[s].op = "breach" THEN today ELSE Never]
  /\ overlapped' = overlapped \ {s}
  /\ sess' = [sess EXCEPT ![s] = Idle]
  /\ UNCHANGED <<today, raced>>

CommitHalt(s) ==
  /\ sess[s].pc = "halting"
  /\ row' = [row EXCEPT !.halted = Flush(sess[s].seen.halted, TRUE, @),
                        !.reason = Flush(sess[s].seen.reason, sess[s].op, @),
                        !.breachDay = IF sess[s].op = "breach" THEN today ELSE @]
  /\ raced' = (raced \/ (sess[s].op = "breach" /\ \E r \in Sessions : sess[r].pc = "resuming"))
  /\ overlapped' = overlapped \ {s}
  /\ sess' = [sess EXCEPT ![s] = Idle]
  /\ UNCHANGED today

CommitResume(s) ==
  /\ sess[s].pc = "resuming"
  /\ row' = [row EXCEPT !.halted = Flush(sess[s].seen.halted, FALSE, @),
                        !.reason = Flush(sess[s].seen.reason, "none", @)]
  /\ raced' = (raced \/ \E h \in Sessions : sess[h].pc = "halting" /\ sess[h].op = "breach")
  /\ overlapped' = overlapped \cup {h \in Sessions : sess[h].pc = "halting"}
  /\ sess' = [sess EXCEPT ![s] = Idle]
  /\ UNCHANGED today

DayPasses ==
  /\ today < LastDay
  /\ today' = today + 1
  /\ UNCHANGED <<row, sess, overlapped, raced>>

-------------------------------------------------------------------------------
SessionStep(s) ==
  \/ \E o \in {"tick", "manual", "resume"} : Begin(s, o)
  \/ LoadMissing(s)
  \/ Create(s)
  \/ Abort(s)
  \/ TickLoad(s)
  \/ TickEnd(s)
  \/ \E o \in {"blocked", "breach"} : TickDetects(s, o)
  \/ HaltLoad(s)
  \/ \E confirmed \in BOOLEAN : ResumeLoad(s, confirmed)
  \/ CommitHalt(s)
  \/ CommitResume(s)

Next == DayPasses \/ \E s \in Sessions : SessionStep(s)

Spec == Init /\ [][Next]_vars

-------------------------------------------------------------------------------
(* Properties that hold.                                                   *)

\* resume() refuses to re-arm trading on the date of a loss breach.  Trading
\* is nevertheless on during a breach date only if a breach halt and a resume
\* have overlapped between read and commit: serial requests keep the promise.
BreachHoldsUnlessRaced ==
  (~raced /\ row.breachDay = today) => row.halted

\* halt() never clears or back-dates a recorded breach, and neither does a
\* resume or a re-created row: the stamp that blocks a same-day resume cannot
\* be laundered by a later manual halt.
BreachNeverLaundered == [][row'.breachDay >= row.breachDay]_vars

\* A halt that commits leaves trading halted, unless a resume committed after
\* the halt had read the row: halt() writes no column it believes is right.
HaltSticksUnlessOverlapped ==
  [][\A s \in Sessions : CommitHalt(s) => (row'.halted \/ s \in overlapped)]_vars

\* From the first moment of a new database on, only the commit of a resume
\* that read a halted row turns trading on: neither get_control's creation of
\* the row, nor a halt flushed from a stale read, nor a crash does.
OnlyResumeEnables ==
  [][(row.halted /\ ~row'.halted)
       => \E s \in Sessions : sess[s].pc = "resuming" /\ sess[s].seen.halted]_vars

-------------------------------------------------------------------------------
(* What the router says, and the row does not keep.                        *)

\* routers/execution.py:246 "Always succeeds, no confirmation, idempotent": a
\* committed halt leaves trading halted.
HaltAlwaysTakesEffect ==
  [][\A s \in Sessions : CommitHalt(s) => row'.halted]_vars
===============================================================================
