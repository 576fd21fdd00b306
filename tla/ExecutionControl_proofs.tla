----------------------- MODULE ExecutionControl_proofs -----------------------
(***************************************************************************)
(* Proofs about the kill switch for any number of requests and ticks and   *)
(* any calendar.                                                           *)
(***************************************************************************)
EXTENDS ExecutionControl, TLAPS

(***************************************************************************)
(* The strengthening that makes the properties inductive: what every       *)
(* session may still conclude from the row it has read.                    *)
(***************************************************************************)
BreachNotAhead == row.breachDay <= today

MissingRowIsBlank == ~row.present => row = NoRow

ReadersHaveARow ==
  \A s \in Sessions :
    sess[s].pc \in {"ticking", "halting", "resuming"} => row.present

\* A resume that has passed its check still stands on firm ground.
ResumingIsClear ==
  \A s \in Sessions :
    (sess[s].pc = "resuming" /\ ~raced) => row.breachDay < today

\* A halt that read "halted", and was not overlapped, need not write it.
HaltingReadHolds ==
  \A s \in Sessions :
    (sess[s].pc = "halting" /\ sess[s].seen.halted /\ s \notin overlapped) => row.halted

TickingReadEnabled ==
  \A s \in Sessions : sess[s].pc = "ticking" => ~sess[s].seen.halted

HaltingHasReason ==
  \A s \in Sessions :
    sess[s].pc = "halting" => sess[s].op \in {"manual", "blocked", "breach"}

\* Only halts in progress are overlapped, and an overlapped breach is a race.
OverlappedAreHalting ==
  \A s \in overlapped : sess[s].pc = "halting" /\ (sess[s].op = "breach" => raced)

IInv ==
  /\ TypeOK
  /\ BreachNotAhead
  /\ MissingRowIsBlank
  /\ ReadersHaveARow
  /\ ResumingIsClear
  /\ HaltingReadHolds
  /\ TickingReadEnabled
  /\ HaltingHasReason
  /\ OverlappedAreHalting
  /\ BreachHoldsUnlessRaced

-------------------------------------------------------------------------------
LEMMA InitIInv == Init => IInv
<1> SUFFICES ASSUME Init PROVE IInv
  OBVIOUS
<1>a. \A b \in BOOLEAN : SeedRow(b) \in Row /\ SeedRow(b).halted /\ SeedRow(b).breachDay = 0
                          /\ SeedRow(b).present = b
  BY DEF SeedRow, Never, Row, Reasons
<1>b. row = SeedRow(TRUE) \/ row = SeedRow(FALSE)
  BY DEF Init, NoRow, StartupRow
<1>1. /\ row \in Row /\ row.halted /\ row.breachDay = 0
      /\ ~row.present => row = NoRow
  BY <1>a, <1>b DEF NoRow
<1>i. Idle \in Session /\ Idle.pc = "idle"
  <2>1. NoRow \in Row
    BY <1>a DEF NoRow
  <2> QED  BY <2>1 DEF Idle, Session
<1>2. sess \in [Sessions -> Session] /\ \A s \in Sessions : sess[s].pc = "idle"
  BY <1>i DEF Init
<1>3. today \in 1 .. LastDay /\ today = 1
  BY ControlAssumption DEF Init
<1>4. overlapped = {} /\ raced = FALSE
  BY DEF Init
<1>5. TypeOK
  BY <1>1, <1>2, <1>3, <1>4 DEF TypeOK
<1> QED
  BY <1>1, <1>2, <1>3, <1>4, <1>5
  DEF IInv, BreachNotAhead, MissingRowIsBlank, ReadersHaveARow, ResumingIsClear,
      HaltingReadHolds, TickingReadEnabled, HaltingHasReason, OverlappedAreHalting,
      BreachHoldsUnlessRaced

(***************************************************************************)
(* Steps that neither write the row nor move the calendar: they only have  *)
(* to establish what the one session that moved now knows.                 *)
(***************************************************************************)
LEMMA ReadStep ==
  ASSUME IInv, NEW s \in Sessions, NEW new \in Session,
         sess' = [sess EXCEPT ![s] = new],
         UNCHANGED <<row, today, raced>>,
         overlapped' = overlapped \ {s} \/ (overlapped' = overlapped /\ sess[s].pc # "halting"),
         new.pc \in {"ticking", "halting", "resuming"} => row.present,
         new.pc = "resuming" => row.breachDay < today,
         (new.pc = "halting" /\ new.seen.halted) => row.halted,
         new.pc = "halting" => new.op \in {"manual", "blocked", "breach"},
         new.pc = "ticking" => ~new.seen.halted
  PROVE  IInv'
<1>1. /\ sess'[s] = new
      /\ \A r \in Sessions : r # s => sess'[r] = sess[r]
      /\ sess' \in [Sessions -> Session]
  BY DEF IInv, TypeOK
<1>2. overlapped' \subseteq overlapped /\ s \notin overlapped'
      /\ \A r \in Sessions : r # s => (r \in overlapped' <=> r \in overlapped)
  BY DEF IInv, OverlappedAreHalting
<1>3. TypeOK'
  BY <1>1, <1>2 DEF IInv, TypeOK
<1>4. BreachNotAhead' /\ MissingRowIsBlank' /\ BreachHoldsUnlessRaced'
  BY DEF IInv, BreachNotAhead, MissingRowIsBlank, BreachHoldsUnlessRaced
<1>5. ReadersHaveARow' /\ TickingReadEnabled' /\ HaltingHasReason'
  BY <1>1 DEF IInv, ReadersHaveARow, TickingReadEnabled, HaltingHasReason
<1>6. ResumingIsClear'
  BY <1>1 DEF IInv, ResumingIsClear
<1>7. HaltingReadHolds'
  BY <1>1, <1>2 DEF IInv, HaltingReadHolds
<1>8. OverlappedAreHalting'
  BY <1>1, <1>2 DEF IInv, OverlappedAreHalting, TypeOK
<1> QED
  BY <1>3, <1>4, <1>5, <1>6, <1>7, <1>8 DEF IInv

LEMMA NextIInv == IInv /\ [Next]_vars => IInv'
<1> SUFFICES ASSUME IInv, [Next]_vars PROVE IInv'
  OBVIOUS
<1>r. row \in Row /\ today \in Nat /\ sess \in [Sessions -> Session] /\ raced \in BOOLEAN
      /\ overlapped \subseteq Sessions
  BY ControlAssumption DEF IInv, TypeOK
<1>i. Idle \in Session /\ Idle.pc = "idle" /\ StartupRow \in Row
  BY DEF Idle, Session, NoRow, StartupRow, SeedRow, Row, Reasons, Never
<1>1. ASSUME NEW s \in Sessions, NEW o \in {"tick", "manual", "resume"}, Begin(s, o)
      PROVE  IInv'
  <2> DEFINE new == [sess[s] EXCEPT !.pc = "load", !.op = o]
  <2>1. new \in Session /\ new.pc = "load"
    BY <1>r DEF Session
  <2>2. sess' = [sess EXCEPT ![s] = new]
    BY <1>1, <1>r DEF Begin
  <2> HIDE DEF new
  <2> QED  BY <2>1, <2>2, <1>1, ReadStep DEF Begin
<1>2. ASSUME NEW s \in Sessions, LoadMissing(s)
      PROVE  IInv'
  <2> DEFINE new == [sess[s] EXCEPT !.pc = "create"]
  <2>1. new \in Session /\ new.pc = "create"
    BY <1>r DEF Session
  <2>2. sess' = [sess EXCEPT ![s] = new]
    BY <1>2, <1>r DEF LoadMissing
  <2> HIDE DEF new
  <2> QED  BY <2>1, <2>2, <1>2, ReadStep DEF LoadMissing
<1>3. ASSUME NEW s \in Sessions, Abort(s)
      PROVE  IInv'
  BY <1>3, <1>i, ReadStep DEF Abort
<1>4. ASSUME NEW s \in Sessions, TickLoad(s)
      PROVE  IInv'
  <2>1. CASE row.halted
    BY <2>1, <1>4, <1>i, ReadStep DEF TickLoad, Loading
  <2>2. CASE ~row.halted
    <3> DEFINE new == [pc |-> "ticking", op |-> "tick", seen |-> row]
    <3>1. new \in Session /\ new.pc = "ticking" /\ new.seen = row
      BY <1>r DEF Session
    <3>2. sess' = [sess EXCEPT ![s] = new]
      BY <2>2, <1>4 DEF TickLoad
    <3> HIDE DEF new
    <3> QED  BY <2>2, <3>1, <3>2, <1>4, ReadStep DEF TickLoad, Loading
  <2> QED  BY <2>1, <2>2
<1>5. ASSUME NEW s \in Sessions, TickEnd(s)
      PROVE  IInv'
  BY <1>5, <1>i, ReadStep DEF TickEnd
<1>6. ASSUME NEW s \in Sessions, NEW o \in {"blocked", "breach"}, TickDetects(s, o)
      PROVE  IInv'
  <2>1. PICK read \in {sess[s].seen, row} :
               sess' = [sess EXCEPT ![s] = [pc |-> "halting", op |-> o, seen |-> read]]
    BY <1>6 DEF TickDetects
  <2> DEFINE new == [pc |-> "halting", op |-> o, seen |-> read]
  <2>2. read \in Row
    BY <1>r DEF Session
  <2>3. new \in Session /\ new.pc = "halting" /\ new.op = o /\ new.seen = read
    BY <2>2 DEF Session
  <2>4. read.halted => row.halted
    BY <1>6 DEF TickDetects, IInv, TickingReadEnabled
  <2>5. row.present
    BY <1>6 DEF TickDetects, IInv, ReadersHaveARow
  <2>6. sess' = [sess EXCEPT ![s] = new]
    BY <2>1
  <2> HIDE DEF new
  <2> QED  BY <2>3, <2>4, <2>5, <2>6, <1>6, ReadStep DEF TickDetects
<1>7. ASSUME NEW s \in Sessions, HaltLoad(s)
      PROVE  IInv'
  <2> DEFINE new == [sess[s] EXCEPT !.pc = "halting", !.seen = row]
  <2>1. new \in Session /\ new.pc = "halting" /\ new.op = sess[s].op /\ new.seen = row
    BY <1>r DEF Session
  <2>2. sess' = [sess EXCEPT ![s] = new]
    BY <1>7, <1>r DEF HaltLoad
  <2> HIDE DEF new
  <2> QED  BY <2>1, <2>2, <1>7, ReadStep DEF HaltLoad, Loading
<1>8. ASSUME NEW s \in Sessions, NEW confirmed \in BOOLEAN, ResumeLoad(s, confirmed)
      PROVE  IInv'
  <2>1. CASE ~(confirmed /\ row.breachDay < today)
    BY <2>1, <1>8, <1>i, ReadStep DEF ResumeLoad, Loading
  <2>2. CASE confirmed /\ row.breachDay < today
    <3> DEFINE new == [pc |-> "resuming", op |-> "resume", seen |-> row]
    <3>1. new \in Session /\ new.pc = "resuming"
      BY <1>r DEF Session
    <3>2. sess' = [sess EXCEPT ![s] = new]
      BY <2>2, <1>8 DEF ResumeLoad
    <3> HIDE DEF new
    <3> QED  BY <2>2, <3>1, <3>2, <1>8, ReadStep DEF ResumeLoad, Loading
  <2> QED  BY <2>1, <2>2
<1>9. ASSUME NEW s \in Sessions, Create(s)
      PROVE  IInv'
  <2>1. CASE row.present
    BY <2>1, <1>9, <1>i, ReadStep DEF Create
  <2>2. CASE ~row.present
    <3> DEFINE new == [sess[s] EXCEPT !.pc = "load"]
    <3>1. new \in Session /\ new.pc = "load"
      BY <1>r DEF Session
    <3>2. sess' = [sess EXCEPT ![s] = new] /\ row' = StartupRow
          /\ UNCHANGED <<today, overlapped, raced>> /\ sess[s].pc = "create"
      BY <2>2, <1>9, <1>r DEF Create
    <3>3. /\ \A r \in Sessions : sess[r].pc \notin {"ticking", "halting", "resuming"}
          /\ overlapped = {}
      BY <2>2 DEF IInv, ReadersHaveARow, OverlappedAreHalting, TypeOK
    <3>4. /\ sess'[s] = new
          /\ \A r \in Sessions : r # s => sess'[r] = sess[r]
          /\ sess' \in [Sessions -> Session]
      BY <1>r, <3>1, <3>2
    <3>5. \A r \in Sessions : sess'[r].pc \notin {"ticking", "halting", "resuming"}
      BY <3>1, <3>3, <3>4
    <3>6. StartupRow.present /\ StartupRow.halted /\ StartupRow.breachDay = 0
      BY DEF StartupRow, SeedRow, Never
    <3> HIDE DEF new
    <3> QED
      BY <1>i, <3>2, <3>3, <3>4, <3>5, <3>6, <1>r
      DEF IInv, TypeOK, BreachNotAhead, MissingRowIsBlank, ReadersHaveARow, ResumingIsClear,
          HaltingReadHolds, TickingReadEnabled, HaltingHasReason, OverlappedAreHalting, BreachHoldsUnlessRaced
  <2> QED  BY <2>1, <2>2
<1>10. ASSUME NEW s \in Sessions, CommitHalt(s)
       PROVE  IInv'
  <2>1. /\ sess[s].pc = "halting"
        /\ sess'[s] = Idle
        /\ \A r \in Sessions : r # s => sess'[r] = sess[r]
        /\ sess' \in [Sessions -> Session]
        /\ overlapped' = overlapped \ {s}
        /\ today' = today
    BY <1>10, <1>r, <1>i DEF CommitHalt
  <2>2. sess[s].op \in {"manual", "blocked", "breach"}
    BY <2>1 DEF IInv, HaltingHasReason
  <2>3. /\ row' \in Row
        /\ row'.present = row.present
        /\ row'.breachDay = IF sess[s].op = "breach" THEN today ELSE row.breachDay
    BY <1>10, <1>r, <2>2 DEF CommitHalt, Row, Reasons, Session, Flush
  <2>4. row'.halted = IF sess[s].seen.halted THEN row.halted ELSE TRUE
    BY <1>10, <1>r DEF CommitHalt, Row, Session, Flush
  <2>5. raced' \in BOOLEAN /\ (raced => raced')
    BY <1>10, <1>r DEF CommitHalt
  <2>6. row.halted => row'.halted
    BY <2>4
  <2>7. row.present
    BY <2>1 DEF IInv, ReadersHaveARow
  <2>8. (sess[s].op = "breach" /\ ~raced')
           => (row'.halted /\ \A r \in Sessions : sess[r].pc # "resuming")
    <3> SUFFICES ASSUME sess[s].op = "breach", ~raced'
                 PROVE  row'.halted /\ \A r \in Sessions : sess[r].pc # "resuming"
      OBVIOUS
    <3>1. ~raced /\ \A r \in Sessions : sess[r].pc # "resuming"
      BY <1>10 DEF CommitHalt
    <3>2. s \notin overlapped
      BY <3>1 DEF IInv, OverlappedAreHalting
    <3>3. sess[s].seen.halted => row.halted
      BY <2>1, <3>2 DEF IInv, HaltingReadHolds
    <3> QED  BY <3>1, <3>3, <2>4
  <2>9. TypeOK' /\ BreachNotAhead'
    BY <1>r, <2>1, <2>3, <2>5 DEF IInv, TypeOK, BreachNotAhead
  <2>10. MissingRowIsBlank' /\ ReadersHaveARow'
    BY <2>3, <2>7 DEF MissingRowIsBlank, ReadersHaveARow
  <2>11. ResumingIsClear'
    BY <1>i, <1>r, <2>1, <2>3, <2>5, <2>8 DEF IInv, ResumingIsClear
  <2>12. HaltingReadHolds' /\ TickingReadEnabled' /\ HaltingHasReason'
    BY <1>i, <2>1, <2>6 DEF IInv, HaltingReadHolds, TickingReadEnabled, HaltingHasReason
  <2>13. OverlappedAreHalting'
    BY <1>r, <2>1, <2>5 DEF IInv, OverlappedAreHalting
  <2>14. BreachHoldsUnlessRaced'
    BY <2>1, <2>3, <2>5, <2>6, <2>8 DEF IInv, BreachHoldsUnlessRaced
  <2> QED
    BY <2>9, <2>10, <2>11, <2>12, <2>13, <2>14 DEF IInv
<1>11. ASSUME NEW s \in Sessions, CommitResume(s)
       PROVE  IInv'
  <2>1. /\ sess[s].pc = "resuming"
        /\ sess'[s] = Idle
        /\ \A r \in Sessions : r # s => sess'[r] = sess[r]
        /\ sess' \in [Sessions -> Session]
        /\ today' = today
    BY <1>11, <1>r, <1>i DEF CommitResume
  <2>2. overlapped' = overlapped \cup {h \in Sessions : sess[h].pc = "halting"}
    BY <1>11 DEF CommitResume
  <2>3. /\ row' \in Row
        /\ row'.present = row.present
        /\ row'.breachDay = row.breachDay
    BY <1>11, <1>r DEF CommitResume, Row, Reasons, Session, Flush
  <2>4. raced' \in BOOLEAN /\ (raced => raced')
    BY <1>11, <1>r DEF CommitResume
  <2>5. (\E h \in Sessions : sess[h].pc = "halting" /\ sess[h].op = "breach") => raced'
    BY <1>11 DEF CommitResume
  <2>6. row.present
    BY <2>1 DEF IInv, ReadersHaveARow
  <2>7. TypeOK' /\ BreachNotAhead'
    BY <1>r, <2>1, <2>2, <2>3, <2>4 DEF IInv, TypeOK, BreachNotAhead
  <2>8. MissingRowIsBlank' /\ ReadersHaveARow'
    BY <2>3, <2>6 DEF MissingRowIsBlank, ReadersHaveARow
  <2>9. ResumingIsClear'
    BY <1>i, <2>1, <2>3, <2>4 DEF IInv, ResumingIsClear
  <2>10. HaltingReadHolds'
    BY <1>i, <2>1, <2>2 DEF HaltingReadHolds
  <2>11. TickingReadEnabled' /\ HaltingHasReason'
    BY <1>i, <2>1 DEF IInv, TickingReadEnabled, HaltingHasReason
  <2>12. OverlappedAreHalting'
    BY <2>1, <2>2, <2>4, <2>5, <1>r DEF IInv, OverlappedAreHalting
  <2>13. BreachHoldsUnlessRaced'
    BY <1>r, <2>1, <2>3, <2>4 DEF IInv, BreachHoldsUnlessRaced, ResumingIsClear
  <2> QED
    BY <2>7, <2>8, <2>9, <2>10, <2>11, <2>12, <2>13 DEF IInv
<1>12. ASSUME DayPasses
       PROVE  IInv'
  <2>1. today' = today + 1 /\ today' \in 1 .. LastDay /\ UNCHANGED <<row, sess, overlapped, raced>>
    BY <1>12, <1>r, ControlAssumption DEF DayPasses, IInv, TypeOK
  <2>2. row.breachDay < today'
    BY <1>r, <2>1 DEF IInv, BreachNotAhead, Row
  <2>3. ResumingIsClear' /\ BreachNotAhead' /\ BreachHoldsUnlessRaced'
    BY <1>r, <2>1, <2>2 DEF ResumingIsClear, BreachNotAhead, BreachHoldsUnlessRaced, Row
  <2> QED
    BY <2>1, <2>3
    DEF IInv, TypeOK, MissingRowIsBlank, ReadersHaveARow, HaltingReadHolds,
        TickingReadEnabled, HaltingHasReason, OverlappedAreHalting
<1>13. ASSUME UNCHANGED vars
       PROVE  IInv'
  BY <1>13
  DEF vars, IInv, TypeOK, BreachNotAhead, MissingRowIsBlank, ReadersHaveARow, ResumingIsClear,
      HaltingReadHolds, TickingReadEnabled, HaltingHasReason, OverlappedAreHalting,
      BreachHoldsUnlessRaced
<1> QED
  BY <1>1, <1>2, <1>3, <1>4, <1>5, <1>6, <1>7, <1>8, <1>9, <1>10, <1>11, <1>12, <1>13
  DEF Next, SessionStep

-------------------------------------------------------------------------------
LEMMA Invariance == Spec => []IInv
  BY InitIInv, NextIInv, PTL DEF Spec

\* The row, the sessions and the histories keep their types.
THEOREM TypeCorrect == Spec => []TypeOK
<1>1. IInv => TypeOK
  BY DEF IInv
<1> QED  BY <1>1, Invariance, PTL

\* resume(): on the date of a loss breach trading stays halted, however many
\* requests and ticks run concurrently, unless a breach halt and a resume have
\* overlapped between their read of the row and their commit.
THEOREM BreachHolds == Spec => []BreachHoldsUnlessRaced
<1>1. IInv => BreachHoldsUnlessRaced
  BY DEF IInv
<1> QED  BY <1>1, Invariance, PTL

\* halt() and resume(): no commit clears or back-dates a recorded breach.
THEOREM NeverLaundered == Spec => BreachNeverLaundered
<1> DEFINE Step == row'.breachDay >= row.breachDay
<1>1. IInv /\ [Next]_vars => [Step]_vars
  <2> SUFFICES ASSUME IInv, Next PROVE Step
    BY DEF vars
  <2>1. row \in Row /\ today \in Nat /\ row.breachDay <= today
    BY ControlAssumption DEF IInv, TypeOK, BreachNotAhead
  <2>2. CASE row' = row
    BY <2>1, <2>2 DEF Row
  <2>3. ASSUME NEW s \in Sessions, Create(s), row' # row
        PROVE  Step
    <3>1. ~row.present /\ row' = StartupRow
      BY <2>3 DEF Create
    <3> QED
      BY <3>1 DEF IInv, MissingRowIsBlank, NoRow, StartupRow, SeedRow, Never
  <2>4. ASSUME NEW s \in Sessions, CommitHalt(s)
        PROVE  Step
    <3>1. row'.breachDay = IF sess[s].op = "breach" THEN today ELSE row.breachDay
      BY <2>1, <2>4 DEF CommitHalt, Row
    <3> QED  BY <2>1, <3>1 DEF Row
  <2>5. ASSUME NEW s \in Sessions, CommitResume(s)
        PROVE  Step
    <3>1. row'.breachDay = row.breachDay
      BY <2>1, <2>5 DEF CommitResume, Row
    <3> QED  BY <2>1, <3>1 DEF Row
  <2> QED
    BY <2>2, <2>3, <2>4, <2>5
    DEF Next, SessionStep, DayPasses, Begin, LoadMissing, Abort, TickLoad, TickEnd,
        TickDetects, HaltLoad, ResumeLoad
<1> QED  BY <1>1, Invariance, PTL DEF Spec, BreachNeverLaundered

\* halt(): a committed halt leaves trading halted unless a resume committed
\* between the halt's read and its commit.
THEOREM HaltSticks == Spec => HaltSticksUnlessOverlapped
<1> DEFINE Step == \A s \in Sessions : CommitHalt(s) => (row'.halted \/ s \in overlapped)
<1>1. IInv /\ [Next]_vars => [Step]_vars
  <2> SUFFICES ASSUME IInv, NEW s \in Sessions, CommitHalt(s), s \notin overlapped
               PROVE  row'.halted
    BY DEF vars
  <2>1. row'.halted = IF sess[s].seen.halted THEN row.halted ELSE TRUE
    BY DEF CommitHalt, IInv, TypeOK, Row, Session, Flush
  <2>2. sess[s].seen.halted => row.halted
    BY DEF CommitHalt, IInv, HaltingReadHolds
  <2> QED  BY <2>1, <2>2
<1> QED  BY <1>1, Invariance, PTL DEF Spec, HaltSticksUnlessOverlapped

\* get_control, halt(), resume(): only the commit of a resume that read a
\* halted row turns trading on.
THEOREM OnlyResume == Spec => OnlyResumeEnables
<1> DEFINE Step == (row.halted /\ ~row'.halted)
                     => \E s \in Sessions : sess[s].pc = "resuming" /\ sess[s].seen.halted
<1>1. IInv /\ [Next]_vars => [Step]_vars
  <2> SUFFICES ASSUME IInv, Next, row.halted, ~row'.halted
               PROVE  \E s \in Sessions : sess[s].pc = "resuming" /\ sess[s].seen.halted
    BY DEF vars
  <2>1. row \in Row /\ sess \in [Sessions -> Session]
    BY DEF IInv, TypeOK
  <2>2. ASSUME NEW s \in Sessions, CommitHalt(s) PROVE FALSE
    <3>1. row'.halted = IF sess[s].seen.halted THEN row.halted ELSE TRUE
      BY <2>1, <2>2 DEF CommitHalt, Row, Session, Flush
    <3> QED  BY <3>1
  <2>3. ASSUME NEW s \in Sessions, Create(s) PROVE FALSE
    BY <2>3 DEF Create, StartupRow, SeedRow
  <2>4. ASSUME NEW s \in Sessions, CommitResume(s)
        PROVE  sess[s].pc = "resuming" /\ sess[s].seen.halted
    <3>1. sess[s].pc = "resuming"
      BY <2>4 DEF CommitResume
    <3>2. row'.halted = IF ~sess[s].seen.halted THEN row.halted ELSE FALSE
      BY <2>1, <2>4 DEF CommitResume, Row, Session, Flush
    <3> QED  BY <3>1, <3>2
  <2> QED
    BY <2>2, <2>3, <2>4
    DEF Next, SessionStep, DayPasses, Begin, LoadMissing, Abort, TickLoad, TickEnd,
        TickDetects, HaltLoad, ResumeLoad
<1> QED  BY <1>1, Invariance, PTL DEF Spec, OnlyResumeEnables
===============================================================================
