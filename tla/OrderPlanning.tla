---------------------------- MODULE OrderPlanning ----------------------------
(***************************************************************************)
(* The pure arithmetic of one execution tick (targets.py): net the         *)
(* strategies' legs, apply the two dollar ceilings, and diff one ticker's  *)
(* capped target against the broker's position.                            *)
(*                                                                         *)
(* Dollars and shares are integers.  The scale factor of the total cap is  *)
(* truncated toward zero to whole dollars where the code keeps a float.    *)
(* A price of 0 stands for "no cached close" (or a non-positive one).      *)
(***************************************************************************)
EXTENDS Integers, Functions

CONSTANTS MaxPosition,  \* execution_max_position_notional
          MaxTotal,     \* execution_max_total_notional
          MinOrder      \* execution_min_order_notional

ASSUME PlanningAssumption ==
  /\ MaxPosition \in Nat \ {0}
  /\ MaxTotal \in Nat \ {0}
  /\ MinOrder \in Nat \ {0}

Abs(x) == IF x < 0 THEN -x ELSE x
Larger(x, y) == IF x < y THEN y ELSE x
Smaller(x, y) == IF x < y THEN x ELSE y

-------------------------------------------------------------------------------
(* Targets.                                                                *)

\* legs[s][t]: the signed dollars strategy s wants in ticker t.
AggregateTargets(legs, Tickers) ==
  [t \in Tickers |-> SumFunction([s \in DOMAIN legs |-> legs[s][t]])]

Clamp(notional) == Larger(-MaxPosition, Smaller(MaxPosition, notional))

Gross(net) == SumFunction([t \in DOMAIN net |-> Abs(net[t])])

\* notional * MaxTotal / gross, truncated toward zero.
Scale(notional, gross) ==
  IF notional < 0 THEN -((-notional * MaxTotal) \div gross)
                  ELSE (notional * MaxTotal) \div gross

\* Mutation: the per-ticker ceiling alone.
ClampOnly(net) == [t \in DOMAIN net |-> Clamp(net[t])]

ApplyCaps(net) ==
  LET clamped == [t \in DOMAIN net |-> Clamp(net[t])]
  IN  IF Gross(clamped) > MaxTotal
      THEN [t \in DOMAIN net |-> Scale(clamped[t], Gross(clamped))]
      ELSE clamped

-------------------------------------------------------------------------------
(* One ticker of plan_orders.                                              *)

\* Mutation: straight through zero.
EffectiveTargetFlipping(target, value) == target

\* Never flip a long straight into a short, or back: flatten first.
EffectiveTarget(target, value) ==
  IF value # 0 /\ target * value < 0 THEN 0 ELSE target

Side(amount) == IF amount > 0 THEN "buy" ELSE "sell"

NoOrder == [kind |-> "none"]
Skip(reason) == [kind |-> "skip", reason |-> reason]
QtyOrder(side, shares) == [kind |-> "qty", side |-> side, amount |-> shares]
NotionalOrder(side, dollars) == [kind |-> "notional", side |-> side, amount |-> dollars]

\* Mutation: the minimum order is compared with the target, not with the gap.
PlanTickerSmallTargets(target, value, qty, pending, price) ==
  LET effective == EffectiveTarget(target, value)
      delta     == effective - value
      shares    == Abs(delta) \div price
  IN  IF Abs(effective) < MinOrder THEN NoOrder
      ELSE IF pending THEN Skip("open_order_pending")
      ELSE IF effective = 0 /\ qty # 0 THEN QtyOrder(Side(-qty), Abs(qty))
      ELSE IF effective > 0 /\ value >= 0 THEN NotionalOrder(Side(delta), Abs(delta))
      ELSE IF price <= 0 THEN Skip("no_reference_price")
      ELSE IF shares < 1 THEN Skip("below_one_share")
      ELSE QtyOrder(Side(delta), shares)

\* Mutation: shares are rounded up.
PlanTickerRoundingUp(target, value, qty, pending, price) ==
  LET effective == EffectiveTarget(target, value)
      delta     == effective - value
      shares    == (Abs(delta) + price - 1) \div price
  IN  IF Abs(delta) < MinOrder THEN NoOrder
      ELSE IF pending THEN Skip("open_order_pending")
      ELSE IF effective = 0 /\ qty # 0 THEN QtyOrder(Side(-qty), Abs(qty))
      ELSE IF effective > 0 /\ value >= 0 THEN NotionalOrder(Side(delta), Abs(delta))
      ELSE IF price <= 0 THEN Skip("no_reference_price")
      ELSE IF shares < 1 THEN Skip("below_one_share")
      ELSE QtyOrder(Side(delta), shares)

\* Mutation: any position that is not short is handled in dollars.
PlanTickerNoShortRoute(target, value, qty, pending, price) ==
  LET effective == EffectiveTarget(target, value)
      delta     == effective - value
      shares    == Abs(delta) \div price
  IN  IF Abs(delta) < MinOrder THEN NoOrder
      ELSE IF pending THEN Skip("open_order_pending")
      ELSE IF effective = 0 /\ qty # 0 THEN QtyOrder(Side(-qty), Abs(qty))
      ELSE IF value >= 0 THEN NotionalOrder(Side(delta), Abs(delta))
      ELSE IF price <= 0 THEN Skip("no_reference_price")
      ELSE IF shares < 1 THEN Skip("below_one_share")
      ELSE QtyOrder(Side(delta), shares)

\* What plan_orders decides about a managed ticker: its position is worth
\* value dollars in qty shares, pending says an order of it is open.
PlanTicker(target, value, qty, pending, price) ==
  LET effective == EffectiveTarget(target, value)
      delta     == effective - value
      shares    == Abs(delta) \div price
  IN  IF Abs(delta) < MinOrder THEN NoOrder
      ELSE IF pending THEN Skip("open_order_pending")
      ELSE IF effective = 0 /\ qty # 0 THEN QtyOrder(Side(-qty), Abs(qty))
      ELSE IF effective > 0 /\ value >= 0 THEN NotionalOrder(Side(delta), Abs(delta))
      ELSE IF price <= 0 THEN Skip("no_reference_price")
      ELSE IF shares < 1 THEN Skip("below_one_share")
      ELSE QtyOrder(Side(delta), shares)

IsOrder(decision) == decision.kind \in {"qty", "notional"}

\* Orders carry an unsigned amount; the side gives its sign.
Signed(order) == IF order.side = "buy" THEN order.amount ELSE -order.amount
===============================================================================
