------------------------------ MODULE OrderLoop ------------------------------
(***************************************************************************)
(* The planner in closed loop: ticks whose accepted orders have filled     *)
(* before the next tick, signals that change between ticks, a market that  *)
(* moves away from the cached closes the planner divides by, and positions *)
(* a human holds in the same account.  It says what repeating plan_orders  *)
(* achieves when nothing fails; the failures are ExecutionRunner's.        *)
(*                                                                         *)
(* A position is its signed market value.  An order fills at the market    *)
(* price the position was valued at in the same tick, while its shares are *)
(* counted at the latest cached close, however old.                        *)
(***************************************************************************)
EXTENDS OrderPlanning, FiniteSets

CONSTANTS Strategies,  \* live strategies of the one portfolio
          Tickers,
          Notionals,   \* dollar targets a strategy may ask for
          Markets,     \* market prices
          Holdings,    \* market values positions start with
          MaxMoves     \* bound on signal changes, market moves and cached closes

ASSUME LoopAssumption ==
  /\ IsFiniteSet(Strategies) /\ IsFiniteSet(Tickers)
  /\ Notionals \subseteq Int /\ Holdings \subseteq Int
  /\ Markets \subseteq Nat \ {0}
  /\ MaxMoves \in Nat

VARIABLES legs,      \* what each strategy asks for
          value,     \* signed market value of each position, at the broker
          rendered,  \* how the order text of its share count compares with it
          market,    \* market price
          price,     \* latest cached close, 0 for none
          touched,   \* tickers with any LiveOrder row, skipped ones included
          moves      \* moves made so far

vars == <<legs, value, rendered, market, price, touched, moves>>

\* The six digits an order carries of a fractional share count can be exact,
\* less than the position, or more than it.  Whole counts are exact.
Renderings == {"exact", "less", "more"}

\* What is left of a close rendered "less": under a minimum order.
Dust == 1

Net == AggregateTargets(legs, Tickers)
Capped == ApplyCaps(Net)
Named == {t \in Tickers : \E s \in Strategies : legs[s][t] # 0}

\* _managed_tickers: what it wants now, or ever recorded an order row for.
Managed == Named \cup touched

Decisions(capped) ==
  [t \in Tickers |->
     IF t \in Managed THEN PlanTicker(capped[t], value[t], value[t], FALSE, price[t])
                      ELSE NoOrder]

\* Alpaca refuses a notional order that would leave a short position.
BrokerAccepts(t, decision) ==
  decision.kind = "notional" => value[t] + Signed(decision) >= 0

\* A full close asks for the rendered share count: too few shares leave dust,
\* and more shares than are held are refused.
Closed(t) ==
  CASE rendered[t] = "exact" -> 0
    [] rendered[t] = "less"  -> Dust
    [] rendered[t] = "more"  -> value[t]

\* The value a filled order leaves.
Filled(t, decision, target) ==
  CASE decision.kind = "notional" -> value[t] + Signed(decision)
    [] decision.kind = "qty" ->
         IF EffectiveTarget(target, value[t]) = 0 THEN Closed(t)
         ELSE value[t] + Signed(decision) * market[t]
    [] OTHER -> value[t]

\* Dollars buy any fraction of a share, a share count only whole ones.
MayRender(t, decision, new) ==
  IF new = value[t] THEN {rendered[t]}
  ELSE IF decision.kind = "notional" THEN Renderings
  ELSE {"exact"}

\* A position at another price: at least a dollar, and never through zero.
Revalued(v, from, to) ==
  IF v = 0 THEN 0
  ELSE IF v > 0 THEN Larger(1, (v * to) \div from)
  ELSE -Larger(1, (-v * to) \div from)

TypeOK ==
  /\ legs \in [Strategies -> [Tickers -> Int]]
  /\ value \in [Tickers -> Int]
  /\ rendered \in [Tickers -> Renderings]
  /\ market \in [Tickers -> Markets]
  /\ price \in [Tickers -> Markets \cup {0}]
  /\ touched \subseteq Tickers
  /\ moves \in 0 .. MaxMoves
  /\ \A t \in Tickers : value[t] <= 0 => rendered[t] = "exact"

Init ==
  /\ legs = [s \in Strategies |-> [t \in Tickers |-> 0]]
  /\ value \in [Tickers -> Holdings]
  /\ rendered \in [Tickers -> Renderings]
  /\ market \in [Tickers -> Markets]
  /\ price \in [Tickers -> Markets \cup {0}]
  /\ \A t \in Tickers : value[t] <= 0 => rendered[t] = "exact" /\ -value[t] % market[t] = 0
  /\ touched = {}
  /\ moves = 0

-------------------------------------------------------------------------------
Tick ==
  \E capped \in {Capped} : \E decisions \in {Decisions(capped)} :
    /\ value' = [t \in Tickers |->
                    IF BrokerAccepts(t, decisions[t])
                    THEN Filled(t, decisions[t], capped[t]) ELSE value[t]]
    /\ rendered' \in [Tickers -> Renderings]
    /\ \A t \in Tickers : rendered'[t] \in MayRender(t, decisions[t], value'[t])
    /\ touched' = touched \cup {t \in Tickers : decisions[t].kind # "none"}
    /\ UNCHANGED <<legs, market, price, moves>>

\* A forward-validation step changes what a strategy asks for.
SignalMoves(s, t, notional) ==
  /\ moves < MaxMoves
  /\ legs' = [legs EXCEPT ![s][t] = notional]
  /\ moves' = moves + 1
  /\ UNCHANGED <<value, rendered, market, price, touched>>

\* The market moves, and the value of the position with it.
MarketMoves(t, to) ==
  /\ moves < MaxMoves
  /\ to # market[t]
  /\ market' = [market EXCEPT ![t] = to]
  /\ value' = [value EXCEPT ![t] = Revalued(@, market[t], to)]
  /\ moves' = moves + 1
  /\ UNCHANGED <<legs, rendered, price, touched>>

\* A refresh caches the market's close.
ClosesCached(t) ==
  /\ moves < MaxMoves
  /\ price[t] # market[t]
  /\ price' = [price EXCEPT ![t] = market[t]]
  /\ moves' = moves + 1
  /\ UNCHANGED <<legs, value, rendered, market, touched>>

Next ==
  \/ Tick
  \/ \E s \in Strategies, t \in Tickers, n \in Notionals : SignalMoves(s, t, n)
  \/ \E t \in Tickers, to \in Markets : MarketMoves(t, to)
  \/ \E t \in Tickers : ClosesCached(t)

Spec == Init /\ [][Next]_vars /\ WF_vars(Tick)

-------------------------------------------------------------------------------
\* apply_caps: whatever the strategies ask for together, the capped targets
\* respect both ceilings and none changes sign.
CapsHold ==
  LET net    == Net
      capped == ApplyCaps(net)
  IN  /\ Gross(capped) <= MaxTotal
      /\ \A t \in Tickers : Abs(capped[t]) <= MaxPosition /\ capped[t] * net[t] >= 0

\* plan_orders routing: the broker accepts the shape of every order planned,
\* so no leg of a pair is refused while the other fills.
ShapesAccepted ==
  \E decisions \in {Decisions(Capped)} : \A t \in Tickers : BrokerAccepts(t, decisions[t])

\* plan_orders' no-flip rule, as far as it reaches: no step takes a long
\* short, and a short goes long only when shares counted at a cached close
\* below the market buy it back.
FlipsOnlyOnStaleClose ==
  [][\A t \in Tickers :
       value[t] * value'[t] < 0 => value[t] < 0 /\ price[t] < market[t]]_vars

\* How far a tick moves a position: toward the target the no-flip rule leaves
\* it, and past it only on the short side of a market above the cached close,
\* then in the ratio of the two at most.
OvershootsByRatioOnly ==
  [][moves' = moves =>
       \E capped \in {Capped} : \A t \in Tickers :
             LET effective == EffectiveTarget(capped[t], value[t])
                 gap       == effective - value[t]
                 moved     == value'[t] - value[t]
             IN  /\ moved * gap >= 0
                 /\ \/ Abs(moved) <= Abs(gap)
                    \/ /\ effective < 0 /\ price[t] < market[t]
                       /\ Abs(moved) * price[t] <= Abs(gap) * market[t]]_vars

\* A ticker the planner is done with, or can do nothing for: unmanaged, within
\* one minimum order or one share of the target it is heading for, on the short
\* side with a close of at most half the market's (or none), or with a close
\* the broker refuses.
Settled(t, target) ==
  LET effective == EffectiveTarget(target, value[t])
  IN  \/ t \notin Managed
      \/ Abs(effective - value[t]) < Larger(MinOrder, price[t])
      \/ market[t] >= 2 * price[t] /\ (target < 0 \/ value[t] < 0)
      \/ effective = 0 /\ rendered[t] = "more"

\* Once signals, market and cached closes rest, every managed position comes to
\* rest where Settled says, also from the far side of its target.
Settles ==
  <>[](\E capped \in {Capped} : \A t \in Tickers : Settled(t, capped[t]))

\* A position the human opened is left alone as long as no strategy has named
\* the ticker.
HandHeldUntouched ==
  [][\A t \in Tickers :
       (t \notin Named /\ t \notin touched /\ moves' = moves) => value'[t] = value[t]]_vars

-------------------------------------------------------------------------------
(* Statements of the repository that the code does not keep.                *)

\* targets.py, plan_orders: never flip a long straight into a short (or back)
\* in one order.
NeverFlips == [][\A t \in Tickers : value[t] * value'[t] >= 0]_vars

\* targets.py, apply_caps: the ceilings are hard and in fixed dollars: no order
\* takes a position from within the ceiling to beyond it.
OrdersKeepCeiling ==
  [][\A t \in Tickers :
       (moves' = moves /\ Abs(value[t]) <= MaxPosition) => Abs(value'[t]) <= MaxPosition]_vars

\* targets.py, plan_orders: a close asks for the exact share count, so it
\* leaves no dust and is never refused.
ClosesAreExact ==
  [][moves' = moves =>
       \E capped \in {Capped} : \E decisions \in {Decisions(capped)} :
         \A t \in Tickers :
           (decisions[t].kind = "qty" /\ EffectiveTarget(capped[t], value[t]) = 0)
             => value'[t] = 0]_vars

\* targets.py, plan_orders: its orders close the gap; a signal that turned has
\* its position flattened and then opened on the other side.
GapsClose ==
  <>[](\E capped \in {Capped} : \A t \in Tickers :
             \/ t \notin Managed \/ price[t] = 0
             \/ Abs(capped[t] - value[t]) < Larger(MinOrder, price[t]) + Dust)
===============================================================================
