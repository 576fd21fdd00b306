------------------------------ MODULE WalkForward ------------------------------
(***************************************************************************)
(* The walk-forward engine: what one trading day does to a strategy's      *)
(* carried state, the step the batch backtest and the live forward         *)
(* validation share.                                                       *)
(*                                                                         *)
(* A day is its date, a positive number; what a fit on the days before it  *)
(* says is a reading, [valid, z].  Returns, equity, costs and the fit's    *)
(* parameters are products of floats that no decision here reads, and are  *)
(* left out; the number of valid fits is kept.                             *)
(***************************************************************************)
EXTENDS Integers, SequencesExt

CONSTANTS EntryZ, ExitZ,  \* thresholds of the position rule
          Rule            \* the strategy's rule: mean reversion or momentum

Rules == {"zscore", "momentum"}

ASSUME WalkForwardAssumption ==
  /\ EntryZ \in Int /\ ExitZ \in Int
  /\ Rule \in Rules

Readings == [valid : BOOLEAN, z : Int]
Positions == {-1, 0, 1}

\* WalkForwardState.  entry = 0 is open_trade is None.
CarryStates ==
  [position : Positions, valid : Nat, entry : Nat, held : Nat, direction : Positions]

FreshCarry == [position |-> 0, valid |-> 0, entry |-> 0, held |-> 0, direction |-> 0]

Trades == [entry : Nat, exit : Nat, held : Int, direction : Positions]

-------------------------------------------------------------------------------
(* The two position rules.                                                 *)

ZScoreRule(reading, position) ==
  CASE ~reading.valid -> 0
    [] reading.valid /\ position = 0 ->
         IF reading.z <= -EntryZ THEN 1 ELSE IF reading.z >= EntryZ THEN -1 ELSE 0
    [] reading.valid /\ position = 1 -> IF reading.z < -ExitZ THEN 1 ELSE 0
    [] OTHER -> IF reading.z > ExitZ THEN -1 ELSE 0

MomentumRule(reading, position) ==
  CASE ~reading.valid -> 0
    [] reading.valid /\ position = 0 ->
         IF reading.z >= EntryZ THEN 1 ELSE IF reading.z <= -EntryZ THEN -1 ELSE 0
    [] reading.valid /\ position = 1 -> IF reading.z > ExitZ THEN 1 ELSE 0
    [] OTHER -> IF reading.z < -ExitZ THEN -1 ELSE 0

\* Mutation: the size of the reading becomes the position.
DecidePositionSized(reading, position) == IF reading.valid THEN -reading.z ELSE 0

DecidePosition(reading, position) ==
  IF Rule = "momentum" THEN MomentumRule(reading, position) ELSE ZScoreRule(reading, position)

-------------------------------------------------------------------------------
(* step_one_day.                                                           *)

\* The trade open while the day is realised: the one carried, or the one that
\* begins today.  Its days are counted on the day it closes as well.
OpenedTrade(carry, day, position) ==
  IF carry.position = 0 /\ position # 0
    THEN [entry |-> day, held |-> 0, direction |-> position]
    ELSE [entry |-> carry.entry, held |-> carry.held, direction |-> carry.direction]

Closes(carry, position) == carry.entry # 0 /\ carry.position # 0 /\ position = 0

NextCarry(carry, day, reading) ==
  LET position == DecidePosition(reading, carry.position)
      trade == OpenedTrade(carry, day, position)
      none == trade.entry = 0 \/ Closes(carry, position)
  IN  [position |-> position,
       valid |-> carry.valid + (IF reading.valid THEN 1 ELSE 0),
       entry |-> IF none THEN 0 ELSE trade.entry,
       held |-> IF none THEN 0 ELSE trade.held + 1,
       direction |-> IF none THEN 0 ELSE trade.direction]

\* Mutation: the day a trade closes is counted as held.
ClosedTradeInclusive(carry, day, reading) ==
  IF Closes(carry, DecidePosition(reading, carry.position))
    THEN <<[entry |-> carry.entry, exit |-> day, held |-> carry.held + 1,
            direction |-> carry.direction]>>
    ELSE <<>>

\* The trade the day closes, as a sequence of at most one.
ClosedTrade(carry, day, reading) ==
  IF Closes(carry, DecidePosition(reading, carry.position))
    THEN <<[entry |-> carry.entry, exit |-> day, held |-> carry.held,
            direction |-> carry.direction]>>
    ELSE <<>>

\* A run through the given days: the state and the trades it closed.
StepOneDay(run, day, reading) ==
  [carry |-> NextCarry(run.carry, day, reading),
   trades |-> run.trades \o ClosedTrade(run.carry, day, reading)]

\* run_walk_forward's loop, without the fit window's slicing: from a state and
\* its trades through the days in order.
WalkThrough(run, days, readings) ==
  FoldLeft(LAMBDA r, day : StepOneDay(r, day, readings[day]), run, days)

FreshRun == [carry |-> FreshCarry, trades |-> <<>>]

\* The batch backtest over the same days, from a fresh state.
RunWalkForward(days, readings) == WalkThrough(FreshRun, days, readings)
===============================================================================
