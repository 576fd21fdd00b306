--------------------------- MODULE StrategyBreaker ---------------------------
(***************************************************************************)
(* The per-strategy circuit breaker: each live strategy's ledger of daily  *)
(* returns, its halt record, and the exposure a pulled strategy is frozen  *)
(* at, inside the tick of one portfolio.  The tick records strategy by     *)
(* strategy, each with a commit of its own, and only then plans; a resume  *)
(* or a crash may come in between.  Orders fill before the next tick, one  *)
(* share is worth one dollar, and every order of the account is the        *)
(* portfolio's: the failures of orders are ExecutionRunner's.              *)
(*                                                                         *)
(* Daily returns are -1, 0 or 1.  Over at most fifteen of them an          *)
(* annualized Sharpe of -1 or less, or a steady loss, is a negative sum.   *)
(***************************************************************************)
EXTENDS OrderPlanning, FiniteSets

CONSTANTS Strategies, Tickers,
          Signals,       \* dollar legs a strategy's signal may ask for
          Returns,       \* returns of a day
          MinDays,       \* BREAKER_MIN_DAYS_TO_JUDGE
          Lookback,      \* BREAKER_LOOKBACK_TRADING_DAYS
          HistoryLimit,  \* DAY_PNL_HISTORY_LIMIT
          LastDay,       \* bound on the calendar
          Reach          \* bound on a position's drift

ASSUME BreakerAssumption ==
  /\ IsFiniteSet(Strategies) /\ IsFiniteSet(Tickers)
  /\ Signals \subseteq Int /\ 0 \in Signals
  /\ Returns \subseteq {-1, 0, 1} /\ 0 \in Returns
  /\ MinDays \in Nat \ {0} /\ Lookback \in 1 .. 15
  /\ HistoryLimit \in Nat /\ HistoryLimit >= Lookback /\ HistoryLimit >= MinDays
  /\ LastDay \in Nat \ {0} /\ Reach \in Nat

VARIABLES
  value,       \* position per ticker
  today,
  ledger,      \* day_pnl_json of each strategy
  halted,      \* strategies with a halted_at
  frozen,      \* frozen_target_json
  pc,          \* where the tick is
  asks,        \* the legs it aggregates
  sawHalted,   \* the strategies it read as halted
  todo,        \* strategies it has still to record
  pulled       \* newly_frozen

rows == <<ledger, halted, frozen>>
tick == <<pc, asks, sawHalted, todo, pulled>>
vars == <<value, today, rows, tick>>

NoLegs == [t \in Tickers |-> 0]
Entry == [date : 1 .. LastDay, ret : Returns]

\* The last n days of a ledger.
Trailing(days, n) == {r \in days : Cardinality({x \in days : x.date > r.date}) < n}

\* Mutation: a row per tick.
AppendAlways(days, date, ret) ==
  Trailing(days \cup {[date |-> date, ret |-> ret]}, HistoryLimit)

\* Mutation: the ledger is never trimmed.
UpdateDayUntrimmed(days, date, ret) ==
  {r \in days : r.date # date} \cup {[date |-> date, ret |-> ret]}

\* Today's row is replaced, not added to.
AppendOrUpdateDay(days, date, ret) ==
  Trailing({r \in days : r.date # date} \cup {[date |-> date, ret |-> ret]}, HistoryLimit)

Breached(days) ==
  /\ Cardinality(days) >= MinDays
  /\ LET window == Trailing(days, Lookback)
     IN  SumFunction([r \in window |-> r.ret]) < 0

\* attribute_exposure: the position split by signed share of the net target,
\* truncated to whole dollars; a ticker nobody asks for is nobody's.
Exposure(s) ==
  LET net   == AggregateTargets(asks, Tickers)
      gross == [t \in Tickers |-> SumFunction([x \in Strategies |-> Abs(asks[x][t])])]
      Part(amount, whole) ==
        IF amount * whole < 0 THEN -(Abs(amount) \div Abs(whole))
                              ELSE Abs(amount) \div Abs(whole)
  IN  [t \in Tickers |->
         IF asks[s][t] = 0 THEN 0
         ELSE IF net[t] # 0 THEN Part(value[t] * asks[s][t], net[t])
         ELSE Part(value[t] * Abs(asks[s][t]), gross[t])]

TypeOK ==
  /\ value \in [Tickers -> Int]
  /\ today \in 1 .. LastDay
  /\ ledger \in [Strategies -> SUBSET Entry]
  /\ \A s \in Strategies : Cardinality(ledger[s]) <= HistoryLimit
  /\ halted \subseteq Strategies
  /\ frozen \in [Strategies -> [Tickers -> Int]]
  /\ pc \in {"idle", "record", "plan"}
  /\ asks \in [Strategies -> [Tickers -> Int]]
  /\ sawHalted \subseteq Strategies /\ todo \subseteq Strategies /\ pulled \subseteq Strategies

Init ==
  /\ value = NoLegs
  /\ today = 1
  /\ ledger = [s \in Strategies |-> {}]
  /\ halted = {}
  /\ frozen = [s \in Strategies |-> NoLegs]
  /\ pc = "idle" /\ asks = [s \in Strategies |-> NoLegs]
  /\ sawHalted = {} /\ todo = {} /\ pulled = {}

-------------------------------------------------------------------------------
(* The tick of the portfolio.                                              *)

Leave ==
  /\ pc' = "idle" /\ asks' = [s \in Strategies |-> NoLegs]
  /\ sawHalted' = {} /\ todo' = {} /\ pulled' = {}

\* A pulled strategy contributes its frozen legs, any other its signal: the
\* state its forward validation carries, which may have moved since any tick.
LoadTargets(signal) ==
  /\ pc = "idle"
  /\ asks' = [s \in Strategies |-> IF s \in halted THEN frozen[s] ELSE signal[s]]
  /\ sawHalted' = halted
  /\ todo' = Strategies
  /\ pc' = "record"
  /\ UNCHANGED <<value, today, rows, pulled>>

\* Mutation: a strategy that is pulled already is judged again.
RecordRejudged(s, ret, stale) ==
  LET days == AppendOrUpdateDay(ledger[s], today, ret)
      trips == Breached(days)
  IN  /\ pc = "record" /\ s \in todo
      /\ (\A t \in Tickers : asks[s][t] = 0 \/ value[t] = 0) => ret = 0
      /\ ledger' = [ledger EXCEPT ![s] = days]
      /\ halted' = IF trips THEN halted \cup {s} ELSE halted
      /\ frozen' = IF trips THEN [frozen EXCEPT ![s] = Exposure(s)] ELSE frozen
      /\ pulled' = IF trips THEN pulled \cup {s} ELSE pulled
      /\ todo' = todo \ {s}
      /\ UNCHANGED <<value, today, pc, asks, sawHalted>>

\* One strategy's day is recorded and judged, in one commit.  Up to the first of
\* these commits the row may be the one read at the start (stale).  Only a
\* position it asks for earns it anything, and one that is pulled already is
\* not judged again.
Record(s, ret, stale) ==
  LET days == AppendOrUpdateDay(ledger[s], today, ret)
      wasHalted == s \in (IF stale THEN sawHalted ELSE halted)
      trips == ~wasHalted /\ Breached(days)
  IN  /\ pc = "record" /\ s \in todo /\ (stale => todo = Strategies)
      /\ (\A t \in Tickers : asks[s][t] = 0 \/ value[t] = 0) => ret = 0
      /\ ledger' = [ledger EXCEPT ![s] = days]
      /\ halted' = IF trips THEN halted \cup {s} ELSE halted
      /\ frozen' = IF trips THEN [frozen EXCEPT ![s] = Exposure(s)] ELSE frozen
      /\ pulled' = IF trips THEN pulled \cup {s} ELSE pulled
      /\ todo' = todo \ {s}
      /\ UNCHANGED <<value, today, pc, asks, sawHalted>>

AllRecorded ==
  /\ pc = "record" /\ todo = {}
  /\ pc' = "plan"
  /\ UNCHANGED <<value, today, rows, asks, sawHalted, todo, pulled>>

\* Mutation: what the strategies asked for before the breaker ran.
LegsUnswapped == asks

\* A strategy pulled on this tick asks for what it holds.
Legs == [s \in Strategies |-> IF s \in pulled THEN Exposure(s) ELSE asks[s]]

\* What the orders of the tick leave, once filled.
Filled(t, capped) ==
  LET decision == PlanTicker(capped[t], value[t], value[t], FALSE, 1)
  IN  IF IsOrder(decision) THEN value[t] + Signed(decision) ELSE value[t]

Trade ==
  /\ pc = "plan"
  /\ LET capped == ApplyCaps(AggregateTargets(Legs, Tickers))
     IN  value' = [t \in Tickers |-> Filled(t, capped)]
  /\ Leave
  /\ UNCHANGED <<today, rows>>

\* The process dies, or an error ends the tick: what was committed stays.
Crash ==
  /\ pc # "idle"
  /\ Leave
  /\ UNCHANGED <<value, today, rows>>

-------------------------------------------------------------------------------
(* Around the tick.                                                        *)

\* POST /strategies/{id}/resume.
ResumeStrategy(s) ==
  /\ halted' = halted \ {s}
  /\ frozen' = [frozen EXCEPT ![s] = NoLegs]
  /\ UNCHANGED <<value, today, ledger, tick>>

\* The market moves a position between ticks, never through zero.
Drifts(t, by) ==
  /\ pc = "idle"
  /\ value[t] * (value[t] + by) > 0 /\ Abs(value[t] + by) <= Reach
  /\ value' = [value EXCEPT ![t] = @ + by]
  /\ UNCHANGED <<today, rows, tick>>

\* A tick trades inside one session of the market.
DayPasses ==
  /\ pc = "idle" /\ today < LastDay
  /\ today' = today + 1
  /\ UNCHANGED <<value, rows, tick>>

Next ==
  \/ \E signal \in [Strategies -> [Tickers -> Signals]] : LoadTargets(signal)
  \/ \E s \in Strategies, ret \in Returns, stale \in BOOLEAN : Record(s, ret, stale)
  \/ AllRecorded \/ Trade \/ Crash
  \/ \E s \in Strategies : ResumeStrategy(s)
  \/ \E t \in Tickers, by \in {-1, 1} : Drifts(t, by)
  \/ DayPasses

Spec == Init /\ [][Next]_vars

-------------------------------------------------------------------------------
\* evaluate, append_or_update_day: whatever the number of ticks, crashes and
\* resumes, no strategy is pulled before its ledger holds that many days.
TripsOnDays ==
  [][\A s \in halted' \ halted :
       Cardinality({r.date : r \in ledger'[s]}) >= MinDays]_vars

\* "never recompute it from a live signal again until a human resumes it": the
\* exposure a strategy was frozen at does not creep from tick to tick.
FrozenStays == [][\A s \in halted \cap halted' : frozen'[s] = frozen[s]]_vars

\* The tick that pulls a strategy opens nothing for it, not even where its own
\* signal has just turned round: a ticker it alone names only shrinks.
PulledOpensNothing ==
  [][Trade =>
       \A s \in pulled, t \in Tickers :
         (asks[s][t] # 0 /\ \A x \in Strategies \ {s} : asks[x][t] = 0)
           => (value'[t] * value[t] >= 0 /\ Abs(value'[t]) <= Abs(value[t]))]_vars

-------------------------------------------------------------------------------
(* What the repository says of the breaker, and the code does not keep.    *)

\* models/strategy_execution_state.py:33-35 "existing positions are held, and no
\* new orders are ever generated for it": with every strategy pulled, a tick
\* trades nothing.
HaltedNeverTrades ==
  [][(Trade /\ Strategies = pulled \cup sawHalted) => value' = value]_vars

\* targets.py:261-263 strategies on opposite sides of a ticker do not "blow the
\* split up": a share is never larger than the position and the leg it is for.
SplitStaysBounded ==
  pc = "record" =>
    \A s \in Strategies, t \in Tickers :
      Abs(Exposure(s)[t]) <= Larger(Abs(value[t]), Abs(asks[s][t]))

\* strategy_breaker.py:68-69 "a human can lift it in one click": what a resume
\* lifted, the record it was resumed with does not put back.
ResumeLasts == [][\A s \in halted' \ halted : ~Breached(ledger[s])]_vars
===============================================================================
