------------------------ MODULE ExecutionRunner_proofs ------------------------
(***************************************************************************)
(* Proofs about the execution runner for any number of portfolios, tickers *)
(* and orders, any targets and any initial account.                        *)
(*                                                                         *)
(* Part one holds whatever the number of live portfolios.  Part two is the *)
(* argument against double orders; it needs a single live portfolio, and   *)
(* the run runner_owners shows that it fails with two.                     *)
(***************************************************************************)
EXTENDS ExecutionRunner, TLAPS

(* The planner, at the one dollar a share this module assumes.            *)

LEMMA EffectiveChoice ==
  ASSUME NEW aim \in Int, NEW value \in Int
  PROVE  EffectiveTarget(aim, value) \in {0, aim}
BY DEF EffectiveTarget

\* An order is signed, never empty, and never planned over an open one.
LEMMA Decided ==
  ASSUME NEW aim \in Int, NEW value \in Int, NEW pending \in BOOLEAN,
         NEW price \in {0, 1},
         IsOrder(PlanTicker(aim, value, value, pending, price))
  PROVE  LET amount == Signed(PlanTicker(aim, value, value, pending, price))
         IN  /\ ~pending
             /\ amount \in Int \ {0}
             /\ value + amount = EffectiveTarget(aim, value)
<1> DEFINE eff == EffectiveTarget(aim, value)
           delta == eff - value
           d == PlanTicker(aim, value, value, pending, price)
<1>1. eff \in Int BY EffectiveChoice
<1>0. Abs(delta) \in Int BY <1>1 DEF Abs
<1>2. ~(Abs(delta) < MinOrder) /\ ~pending
  <2>1. CASE Abs(delta) < MinOrder
    <3>1. d = NoOrder BY <2>1 DEF PlanTicker
    <3> QED BY <3>1 DEF IsOrder, NoOrder
  <2>2. CASE ~(Abs(delta) < MinOrder) /\ pending
    <3>1. d = Skip("open_order_pending") BY <2>2 DEF PlanTicker
    <3> QED BY <3>1 DEF IsOrder, Skip
  <2>3. QED BY <2>1, <2>2
<1>3. d = IF eff = 0 /\ value # 0 THEN QtyOrder(Side(-value), Abs(value))
          ELSE IF eff > 0 /\ value >= 0 THEN NotionalOrder(Side(delta), Abs(delta))
          ELSE IF price <= 0 THEN Skip("no_reference_price")
          ELSE IF Abs(delta) \div price < 1 THEN Skip("below_one_share")
          ELSE QtyOrder(Side(delta), Abs(delta) \div price)
  BY <1>2 DEF PlanTicker
<1> HIDE DEF d
<1>4. CASE eff = 0 /\ value # 0
  BY <1>1, <1>2, <1>3, <1>4 DEF d, QtyOrder, Signed, Side, Abs
<1>5. CASE ~(eff = 0 /\ value # 0) /\ eff > 0 /\ value >= 0
  <2>1. d = NotionalOrder(Side(delta), Abs(delta)) BY <1>3, <1>5
  <2>2. delta # 0 BY <1>0, <1>1, <1>2, PlanningAssumption DEF Abs, PlanningAssumption
  <2>3. Signed(d) = delta BY <1>1, <2>1, <2>2 DEF NotionalOrder, Signed, Side, Abs
  <2> QED BY <1>1, <1>2, <2>2, <2>3 DEF d
<1>6. CASE ~(eff = 0 /\ value # 0) /\ ~(eff > 0 /\ value >= 0)
  <2>1. IsOrder(d) BY DEF d
  <2>2. price = 1
    BY <1>3, <1>6, <2>1 DEF IsOrder, Skip
  <2>3. Abs(delta) \in Int /\ Abs(delta) \div price = Abs(delta)
    BY <1>1, <2>2 DEF Abs
  <2>4. d = QtyOrder(Side(delta), Abs(delta))
    BY <1>3, <1>6, <2>1, <2>2, <2>3 DEF IsOrder, Skip
  <2>5. delta # 0 BY <1>0, <1>1, <1>2, PlanningAssumption DEF Abs, PlanningAssumption
  <2>6. Signed(d) = delta BY <1>1, <2>4, <2>5 DEF QtyOrder, Signed, Side, Abs
  <2> QED BY <1>1, <1>2, <2>5, <2>6 DEF d
<1>7. QED BY <1>4, <1>5, <1>6

\* plan_orders at one dollar a share: no order is stacked on an open one, and
\* an order leads from the position to the target or to zero, so it neither
\* overshoots nor turns a long into a short.
THEOREM OrdersReachTheirTarget ==
  ASSUME NEW aim \in Int, NEW value \in Int, NEW pending \in BOOLEAN,
         NEW price \in {0, 1},
         IsOrder(PlanTicker(aim, value, value, pending, price))
  PROVE  LET amount == Signed(PlanTicker(aim, value, value, pending, price))
         IN  /\ ~pending
             /\ amount \in Int \ {0}
             /\ value + amount \in {0, aim}
BY Decided, EffectiveChoice

-------------------------------------------------------------------------------
(* The runner.                                                             *)

\* What planning one ticker may decide.
LEMMA DecisionSound ==
  ASSUME TypeOK, NEW p \in Portfolios, NEW t \in Tickers, NEW priced \in SUBSET Tickers
  PROVE  /\ Decision(p, t, priced) # NoOrder => t \in Managed(p)
         /\ IsOrder(Decision(p, t, priced)) =>
              /\ t \notin seenOpen
              /\ Signed(Decision(p, t, priced)) \in Int \ {0}
              /\ seenPos[t] + Signed(Decision(p, t, priced)) \in {0, target[p][t]}
<1> DEFINE price == IF t \in priced THEN 1 ELSE 0
           pending == t \in seenOpen
<1>1. target[p][t] \in Int /\ seenPos[t] \in Int
  <2>1. target[p] \in [Tickers -> Wants] /\ seenPos \in [Tickers -> Int]
    BY DEF TypeOK
  <2> QED BY <2>1, RunnerAssumption DEF RunnerAssumption
<1>2. price \in {0, 1} /\ pending \in BOOLEAN
  OBVIOUS
<1>3. CASE t \notin Managed(p)
  BY <1>3 DEF Decision, IsOrder, NoOrder
<1>4. CASE t \in Managed(p)
  <2>1. Decision(p, t, priced) = PlanTicker(target[p][t], seenPos[t], seenPos[t], pending, price)
    BY <1>4 DEF Decision
  <2> HIDE DEF price, pending
  <2>2. IsOrder(Decision(p, t, priced)) =>
          /\ ~pending
          /\ Signed(Decision(p, t, priced)) \in Int \ {0}
          /\ seenPos[t] + Signed(Decision(p, t, priced)) \in {0, target[p][t]}
    BY <1>1, <1>2, <2>1, OrdersReachTheirTarget
  <2> QED BY <1>4, <2>2 DEF pending
<1> QED BY <1>3, <1>4

-------------------------------------------------------------------------------
(* Part one.                                                               *)

RowsShaped ==
  \A i \in Ids :
    /\ status[i] = "none" =>
         broker[i] = "none" /\ i \notin known /\ ticker[i] = None /\ owner[i] = None
    /\ status[i] # "none" => ticker[i] \in Tickers /\ owner[i] \in Portfolios
    /\ i \in known => broker[i] \in {"open", "filled", "canceled"}

TickShaped ==
  /\ pc \in {"submit", "post", "await"} => cur \in Portfolios /\ cur \notin todo
  /\ pc \in {"post", "await"} =>
       row \in Ids /\ status[row] = "submitted" /\ owner[row] = cur /\ ticker[row] \in Tickers
  /\ pc = "post" => broker[row] = "none" /\ plan[ticker[row]] # 0
  /\ pc = "await" => broker[row] # "none" /\ row \notin known
  /\ pc \notin {"submit", "post", "await"} => plan = NoPlan

\* Every pair the tick may still order has been wanted.
PlansWanted ==
  /\ \A p \in Portfolios, t \in Tickers : target[p][t] # 0 => <<p, t>> \in wanted
  /\ skipped \subseteq wanted
  /\ \A t \in Tickers : plan[t] # 0 => <<cur, t>> \in wanted

\* What the tick has submitted under a halt, it will not submit again.
LateShaped ==
  /\ late # {} => halted
  /\ pc \in {"reconcile", "account", "clock", "positions", "orders"} => late = {}
  /\ pc \in {"portfolios", "submit", "post", "await"} =>
       \A p \in Portfolios, t \in Tickers :
         <<p, t>> \in late => p \notin todo /\ (p = cur => plan[t] = 0)

IInv ==
  /\ TypeOK
  /\ RowsShaped
  /\ TickShaped
  /\ FinalRowsAgree
  /\ HandHeldUntouched
  /\ PlansWanted
  /\ LateShaped

LEMMA InitIInv == Init => IInv
<1> SUFFICES ASSUME Init PROVE IInv
  OBVIOUS
<1>1. TypeOK
  BY RunnerAssumption, PlanningAssumption
  DEF Init, TypeOK, RunnerAssumption, NoPlan, Statuses, BrokerStates, Steps, Smaller, Larger
<1> QED
  BY <1>1 DEF Init, IInv, RowsShaped, TickShaped, FinalRowsAgree, HandHeldUntouched,
              PlansWanted, LateShaped, NoPlan, Terminal

\* The tick's part of TypeOK.
TickTyped ==
  /\ pc \in Steps
  /\ seenPos \in [Tickers -> Int]
  /\ seenOpen \subseteq Tickers
  /\ todo \subseteq Portfolios
  /\ cur \in Portfolios \cup {None}
  /\ plan \in [Tickers -> Int]
  /\ row \in Ids \cup {0}

LEMMA LeaveTyped == Leave => TickTyped'
<1>1. NoPlan \in [Tickers -> Int]
  BY DEF NoPlan
<1> QED BY <1>1 DEF Leave, TickTyped, Steps

LEMMA GotoTyped == ASSUME TypeOK, NEW step \in Steps, Goto(step) PROVE TickTyped'
BY DEF Goto, TypeOK, TickTyped

\* Steps that leave the log, the broker, the account and the plan alone.
LEMMA Quiet ==
  ASSUME \/ TickStart \/ ReadFails \/ ReadAccount \/ SendBreachMail \/ ReadClock
         \/ ReadPositions \/ TickDone \/ IntentsDone \/ Crash \/ Halt
         \/ \E why \in {"breach", "unusable"} : HaltOnAccount(why)
         \/ UNCHANGED vars
  PROVE  UNCHANGED <<target, log, acct, ghost>>
BY DEF TickStart, ReadFails, ReadAccount, SendBreachMail, ReadClock, ReadPositions, TickDone,
       IntentsDone, Crash, Halt, HaltOnAccount, vars, db, log, acct, ghost

LEMMA TypeNext ==
  ASSUME TypeOK, RowsShaped, TickShaped, [Next]_vars
  PROVE  TypeOK'
<1> USE DEF db, log, acct, tick, ghost
<1>1. ASSUME NEW unread \in SUBSET Batch, Reconcile(unread) PROVE TypeOK'
  <2>1. \A i \in Batch : broker[i] \in Statuses
    BY DEF Batch, Pending, RowsShaped, Statuses
  <2>2. status' \in [Ids -> Statuses]
    BY <1>1, <2>1 DEF Reconcile, TypeOK
  <2> QED BY <1>1, <2>2 DEF Reconcile, Goto, TypeOK, Steps
<1>2. CASE \/ CancelOnHalt \/ HaltCancels
  <2>1. broker' \in [Ids -> BrokerStates]
    BY <1>2 DEF CancelOnHalt, HaltCancels, AllCancelled, TypeOK, BrokerStates
  <2> QED
    <3>1. TickTyped'
      <4>1. "mail" \in Steps BY DEF Steps
      <4>2. CASE CancelOnHalt BY <4>1, <4>2, LeaveTyped, GotoTyped DEF CancelOnHalt
      <4>3. CASE HaltCancels BY <4>3 DEF HaltCancels, TypeOK, TickTyped
      <4> QED BY <1>2, <4>2, <4>3
    <3> QED BY <1>2, <2>1, <3>1 DEF CancelOnHalt, HaltCancels, TypeOK, TickTyped
<1>3. CASE ReadOpenOrders
  <2>1. seenOpen' \subseteq Tickers
    BY <1>3 DEF ReadOpenOrders, TypeOK, RowsShaped
  <2>2. torn' \subseteq Tickers /\ adrift' \subseteq Tickers
    BY <1>3 DEF ReadOpenOrders, TypeOK, RowsShaped
  <2> QED BY <1>3, <2>1, <2>2 DEF ReadOpenOrders, TypeOK, Steps
<1>4. ASSUME NEW p \in Portfolios, NEW priced \in SUBSET Tickers, PlanPortfolio(p, priced)
      PROVE  TypeOK'
  <2>1. plan' \in [Tickers -> Int]
    BY <1>4, DecisionSound DEF PlanPortfolio, Ordered
  <2>2. skipped' \subseteq Portfolios \X Tickers
    BY <1>4 DEF PlanPortfolio, TypeOK
  <2> QED BY <1>4, <2>1, <2>2 DEF PlanPortfolio, TypeOK, Steps
<1>5. ASSUME NEW t \in Tickers, NEW i \in Ids, LogIntent(t, i) PROVE TypeOK'
  BY <1>5 DEF LogIntent, TypeOK, Statuses, Steps
<1>6. CASE Post
  BY <1>6 DEF Post, TypeOK, TickShaped, BrokerStates, Steps
<1>7. CASE \/ Accepted \/ PostFails
  BY <1>7 DEF Accepted, PostFails, NextIntent, TypeOK, TickShaped, Statuses, Steps
<1>8. ASSUME NEW i \in Ids, Deliver(i) \/ Expire(i) PROVE TypeOK'
  BY <1>8 DEF Deliver, Expire, TypeOK, BrokerStates
<1>9. ASSUME NEW i \in Ids, Fill(i) PROVE TypeOK'
  BY <1>9 DEF Fill, Unit, TypeOK, RowsShaped, BrokerStates
<1>10. CASE Resume
  BY <1>10 DEF Resume, TypeOK
<1>11. ASSUME NEW p \in Portfolios, NEW t \in Tickers, NEW want \in Wants, Retarget(p, t, want)
       PROVE  TypeOK'
  BY <1>11, RunnerAssumption DEF Retarget, TypeOK, RunnerAssumption, Smaller, Larger
<1>12. CASE \/ TickStart \/ ReadFails \/ ReadAccount \/ SendBreachMail \/ ReadClock
            \/ ReadPositions \/ TickDone \/ IntentsDone \/ Crash \/ Halt
            \/ \E why \in {"breach", "unusable"} : HaltOnAccount(why)
            \/ UNCHANGED vars
  <2>1. TickTyped'
    <3>1. CASE ReadFails \/ TickDone \/ Crash \/ SendBreachMail
      BY <3>1, LeaveTyped DEF ReadFails, TickDone, Crash, SendBreachMail
    <3>2. CASE \/ TickStart \/ ReadAccount \/ ReadClock
               \/ \E why \in {"breach", "unusable"} : HaltOnAccount(why)
      BY <3>2, GotoTyped DEF TickStart, ReadAccount, ReadClock, HaltOnAccount, Steps
    <3>3. CASE ReadPositions \/ IntentsDone \/ Halt \/ UNCHANGED vars
      BY <3>3 DEF ReadPositions, IntentsDone, Halt, vars, TypeOK, TickTyped, Steps
    <3> QED BY <1>12, <3>1, <3>2, <3>3
  <2>2. halted' \in BOOLEAN /\ cancelling' \in BOOLEAN
    BY <1>12 DEF TickStart, ReadFails, ReadAccount, SendBreachMail, ReadClock, ReadPositions,
         TickDone, IntentsDone, Crash, Halt, HaltOnAccount, TypeOK, vars
  <2> QED BY <1>12, <2>1, <2>2, Quiet DEF TypeOK, TickTyped
<1> QED
  BY <1>1, <1>2, <1>3, <1>4, <1>5, <1>6, <1>7, <1>8, <1>9, <1>10, <1>11, <1>12
  DEF Next, TickStep, Reconciliation

LEMMA RowsNext ==
  ASSUME TypeOK, RowsShaped, TickShaped, [Next]_vars
  PROVE  RowsShaped'
<1> USE DEF db, log, acct, tick, ghost
<1>1. ASSUME NEW unread \in SUBSET Batch, Reconcile(unread) PROVE RowsShaped'
  <2>1. \A i \in Batch : i \in known
    BY DEF Batch, Pending
  <2>2. \A i \in Ids : status'[i] = status[i] \/ (i \in known /\ status'[i] # "none" /\ status[i] # "none")
    BY <1>1, <2>1 DEF Reconcile, RowsShaped
  <2> QED BY <1>1, <2>2 DEF Reconcile, RowsShaped
<1>2. CASE \/ CancelOnHalt \/ HaltCancels
  BY <1>2 DEF CancelOnHalt, HaltCancels, AllCancelled, RowsShaped, TypeOK
<1>3. ASSUME NEW t \in Tickers, NEW i \in Ids, LogIntent(t, i) PROVE RowsShaped'
  BY <1>3 DEF LogIntent, RowsShaped, TickShaped, TypeOK
<1>4. CASE \/ Post \/ Accepted \/ PostFails
  BY <1>4 DEF Post, Accepted, PostFails, NextIntent, RowsShaped, TickShaped, TypeOK, BrokerStates
<1>5. ASSUME NEW i \in Ids, Deliver(i) \/ Fill(i) \/ Expire(i) PROVE RowsShaped'
  BY <1>5 DEF Deliver, Fill, Expire, RowsShaped, TypeOK
<1>6. CASE UNCHANGED <<status, known, ticker, owner, broker>>
  BY <1>6 DEF RowsShaped
<1> QED
  BY <1>1, <1>2, <1>3, <1>4, <1>5, <1>6, Quiet
  DEF Next, TickStep, Reconciliation, ReadOpenOrders, PlanPortfolio, Resume, Retarget

LEMMA TickNext ==
  ASSUME TypeOK, RowsShaped, TickShaped, [Next]_vars
  PROVE  TickShaped'
<1> USE DEF db, log, acct, tick, ghost
<1>1. ASSUME NEW unread \in SUBSET Batch, Reconcile(unread) PROVE TickShaped'
  BY <1>1 DEF Reconcile, Goto, TickShaped
<1>2. CASE \/ CancelOnHalt \/ HaltCancels
  <2>1. \A i \in Ids : broker'[i] = "none" <=> broker[i] = "none"
    BY <1>2 DEF CancelOnHalt, HaltCancels, AllCancelled, TypeOK
  <2>2. CASE CancelOnHalt
    BY <2>2 DEF CancelOnHalt, Goto, Leave, TickShaped
  <2>3. CASE HaltCancels
    BY <2>1, <2>3 DEF HaltCancels, TickShaped
  <2> QED BY <1>2, <2>2, <2>3
<1>3. ASSUME NEW p \in Portfolios, NEW priced \in SUBSET Tickers, PlanPortfolio(p, priced)
      PROVE  TickShaped'
  BY <1>3 DEF PlanPortfolio, TickShaped
<1>4. ASSUME NEW t \in Tickers, NEW i \in Ids, LogIntent(t, i) PROVE TickShaped'
  BY <1>4 DEF LogIntent, TickShaped, RowsShaped, TypeOK
<1>5. CASE \/ Post \/ Accepted \/ PostFails
  BY <1>5 DEF Post, Accepted, PostFails, NextIntent, TickShaped, RowsShaped, TypeOK
<1>6. ASSUME NEW i \in Ids, Deliver(i) \/ Fill(i) \/ Expire(i) PROVE TickShaped'
  BY <1>6 DEF Deliver, Fill, Expire, TickShaped, TypeOK
<1>7. CASE \/ TickStart \/ ReadFails \/ ReadAccount \/ SendBreachMail \/ ReadClock
           \/ ReadPositions \/ ReadOpenOrders \/ TickDone \/ IntentsDone \/ Crash
  BY <1>7 DEF TickStart, ReadFails, ReadAccount, SendBreachMail, ReadClock, ReadPositions,
       ReadOpenOrders, TickDone, IntentsDone, Crash, Goto, Leave, TickShaped
<1>8. ASSUME NEW why \in {"breach", "unusable"}, HaltOnAccount(why) PROVE TickShaped'
  BY <1>8 DEF HaltOnAccount, Goto, TickShaped
<1>9. CASE UNCHANGED <<log, acct, tick>>
  BY <1>9 DEF TickShaped
<1> QED
  BY <1>1, <1>2, <1>3, <1>4, <1>5, <1>6, <1>7, <1>8, <1>9
  DEF Next, TickStep, Reconciliation, Halt, Resume, Retarget, vars

\* A final row stays final because its order does.
LEMMA FinalNext ==
  ASSUME TypeOK, RowsShaped, TickShaped, FinalRowsAgree, [Next]_vars
  PROVE  FinalRowsAgree'
<1> USE DEF db, log, acct, tick, ghost
<1>1. ASSUME NEW unread \in SUBSET Batch, Reconcile(unread) PROVE FinalRowsAgree'
  <2>1. \A i \in Batch : i \in known
    BY DEF Batch, Pending
  <2>2. \A i \in Ids : status'[i] = status[i] \/ (i \in known /\ status'[i] = broker[i])
    BY <1>1, <2>1 DEF Reconcile
  <2> QED BY <1>1, <2>2 DEF Reconcile, FinalRowsAgree
<1>2. CASE \/ CancelOnHalt \/ HaltCancels
  BY <1>2 DEF CancelOnHalt, HaltCancels, AllCancelled, FinalRowsAgree, TypeOK, Terminal
<1>3. ASSUME NEW t \in Tickers, NEW i \in Ids, LogIntent(t, i) PROVE FinalRowsAgree'
  BY <1>3 DEF LogIntent, FinalRowsAgree, TypeOK, Terminal
<1>4. CASE \/ Post \/ Accepted \/ PostFails
  BY <1>4 DEF Post, Accepted, PostFails, FinalRowsAgree, TickShaped, TypeOK, Terminal
<1>5. ASSUME NEW i \in Ids, Deliver(i) \/ Fill(i) \/ Expire(i) PROVE FinalRowsAgree'
  BY <1>5 DEF Deliver, Fill, Expire, FinalRowsAgree, TypeOK, Terminal
<1>6. CASE UNCHANGED <<status, known, broker>>
  BY <1>6 DEF FinalRowsAgree
<1> QED
  BY <1>1, <1>2, <1>3, <1>4, <1>5, <1>6, Quiet
  DEF Next, TickStep, Reconciliation, ReadOpenOrders, PlanPortfolio, Resume, Retarget

LEMMA WantedNext ==
  ASSUME TypeOK, RowsShaped, TickShaped, PlansWanted, HandHeldUntouched, [Next]_vars
  PROVE  PlansWanted' /\ HandHeldUntouched'
<1> USE DEF db, log, acct, tick, ghost
<1>1. ASSUME NEW unread \in SUBSET Batch, Reconcile(unread)
      PROVE  PlansWanted' /\ HandHeldUntouched'
  <2>1. \A i \in Ids : status'[i] # "none" => status[i] # "none"
    BY <1>1 DEF Reconcile, Batch, Pending, RowsShaped
  <2> QED BY <1>1, <2>1 DEF Reconcile, Goto, PlansWanted, HandHeldUntouched
<1>2. ASSUME NEW p \in Portfolios, NEW priced \in SUBSET Tickers, PlanPortfolio(p, priced)
      PROVE  PlansWanted' /\ HandHeldUntouched'
  <2>1. \A t \in Managed(p) : <<p, t>> \in wanted
    <3>1. \A i \in Ids : owner[i] = p => status[i] # "none"
      BY RunnerAssumption DEF RowsShaped, RunnerAssumption
    <3> QED BY <3>1 DEF Managed, PlansWanted, HandHeldUntouched
  <2>2. \A t \in Tickers : plan'[t] # 0 => <<p, t>> \in wanted
    BY <1>2, <2>1, DecisionSound DEF PlanPortfolio, Ordered, IsOrder, NoOrder
  <2>3. \A t \in Tickers : Decision(p, t, priced) = Skip("no_reference_price") => t \in Managed(p)
    BY DecisionSound DEF Skip, NoOrder
  <2>4. skipped' \subseteq wanted
    BY <1>2, <2>1, <2>3 DEF PlanPortfolio, PlansWanted
  <2> QED BY <1>2, <2>2, <2>4 DEF PlanPortfolio, PlansWanted, HandHeldUntouched
<1>3. ASSUME NEW t \in Tickers, NEW i \in Ids, LogIntent(t, i)
      PROVE  PlansWanted' /\ HandHeldUntouched'
  BY <1>3 DEF LogIntent, PlansWanted, HandHeldUntouched, TypeOK
<1>4. CASE \/ Post \/ Accepted \/ PostFails
  BY <1>4 DEF Post, Accepted, PostFails, NextIntent, PlansWanted, HandHeldUntouched, TickShaped, TypeOK
<1>5. ASSUME NEW p \in Portfolios, NEW t \in Tickers, NEW want \in Wants, Retarget(p, t, want)
      PROVE  PlansWanted' /\ HandHeldUntouched'
  BY <1>5 DEF Retarget, PlansWanted, HandHeldUntouched, TypeOK
<1>6. CASE \/ UNCHANGED <<target, log, tick, wanted>>
           \/ Leave /\ UNCHANGED <<target, log, wanted>>
           \/ (\E step \in Steps : Goto(step)) /\ UNCHANGED <<target, log, wanted>>
           \/ UNCHANGED <<target, log, plan, cur, wanted>>
           \/ IntentsDone
  BY <1>6 DEF Leave, Goto, IntentsDone, NoPlan, PlansWanted, HandHeldUntouched
<1>7. CASE \/ TickStart \/ ReadFails \/ ReadAccount \/ CancelOnHalt \/ SendBreachMail
           \/ ReadClock \/ ReadPositions \/ ReadOpenOrders \/ TickDone \/ Crash
           \/ \E why \in {"breach", "unusable"} : HaltOnAccount(why)
  BY <1>6, <1>7 DEF TickStart, ReadFails, ReadAccount, CancelOnHalt, SendBreachMail, ReadClock,
       ReadPositions, ReadOpenOrders, TickDone, Crash, HaltOnAccount, Steps
<1> QED
  BY <1>1, <1>2, <1>3, <1>4, <1>5, <1>6, <1>7
  DEF Next, TickStep, Reconciliation, Halt, HaltCancels, Resume, Deliver, Fill, Expire, vars

LEMMA LateNext ==
  ASSUME TypeOK, TickShaped, LateShaped, [Next]_vars
  PROVE  LateShaped'
<1> USE DEF db, log, acct, tick, ghost
<1>1. CASE TickStart
  BY <1>1 DEF TickStart, Goto, LateShaped
<1>2. ASSUME NEW unread \in SUBSET Batch, Reconcile(unread) PROVE LateShaped'
  BY <1>2 DEF Reconcile, Goto, LateShaped
<1>3. CASE ReadFails \/ TickDone \/ Crash
  BY <1>3 DEF ReadFails, TickDone, Crash, Leave, LateShaped
<1>4. CASE ReadAccount \/ ReadClock \/ ReadPositions \/ ReadOpenOrders
  BY <1>4 DEF ReadAccount, ReadClock, ReadPositions, ReadOpenOrders, Goto, LateShaped
<1>5. ASSUME NEW why \in {"breach", "unusable"}, HaltOnAccount(why) PROVE LateShaped'
  BY <1>5 DEF HaltOnAccount, Goto, LateShaped
<1>6. CASE CancelOnHalt \/ SendBreachMail
  BY <1>6 DEF CancelOnHalt, SendBreachMail, Goto, Leave, LateShaped
<1>7. ASSUME NEW p \in Portfolios, NEW priced \in SUBSET Tickers, PlanPortfolio(p, priced)
      PROVE  LateShaped'
  BY <1>7 DEF PlanPortfolio, LateShaped
<1>8. ASSUME NEW t \in Tickers, NEW i \in Ids, LogIntent(t, i) PROVE LateShaped'
  BY <1>8 DEF LogIntent, LateShaped
<1>9. CASE Post
  BY <1>9 DEF Post, LateShaped, TickShaped, TypeOK
<1>10. CASE \/ Accepted \/ PostFails \/ IntentsDone
  <2>1. CASE Accepted \/ PostFails
    BY <2>1 DEF Accepted, PostFails, NextIntent, LateShaped
  <2>2. CASE IntentsDone
    <3>1. \A p \in Portfolios : p # cur'
      BY <2>2, RunnerAssumption DEF IntentsDone, RunnerAssumption
    <3> QED BY <2>2, <3>1 DEF IntentsDone, LateShaped
  <2> QED BY <1>10, <2>1, <2>2
<1>11. CASE Halt \/ Resume
  BY <1>11 DEF Halt, Resume, LateShaped
<1>12. CASE UNCHANGED <<halted, late, tick>>
  BY <1>12 DEF LateShaped
<1> QED
  BY <1>1, <1>2, <1>3, <1>4, <1>5, <1>6, <1>7, <1>8, <1>9, <1>10, <1>11, <1>12
  DEF Next, TickStep, Reconciliation, HaltCancels, Retarget, Deliver, Fill, Expire, vars

LEMMA Invariance == Spec => []IInv
<1>1. IInv /\ [Next]_vars => IInv'
  BY TypeNext, RowsNext, TickNext, FinalNext, WantedNext, LateNext DEF IInv
<1> QED BY InitIInv, <1>1, PTL DEF Spec

\* Every variable keeps its type, in particular an order never has a status or
\* a place the code does not know.
THEOREM TypeCorrect == Spec => []TypeOK
<1>1. IInv => TypeOK
  BY DEF IInv
<1> QED BY Invariance, <1>1, PTL

\* The audit row is committed before the POST, for every order ever sent.
THEOREM LogWrittenAhead == Spec => []WriteAhead
<1>1. IInv => WriteAhead
  BY DEF IInv, WriteAhead, RowsShaped
<1> QED BY Invariance, <1>1, PTL

\* A row that says filled or canceled tells the truth for ever.
THEOREM FinalRowsTrue == Spec => []FinalRowsAgree
<1>1. IInv => FinalRowsAgree
  BY DEF IInv
<1> QED BY Invariance, <1>1, PTL

\* No owner's runner trades a ticker no target of that owner ever named.
THEOREM HandHeldSafe == Spec => []HandHeldUntouched
<1>1. IInv => HandHeldUntouched
  BY DEF IInv
<1> QED BY Invariance, <1>1, PTL

\* After a halt a ticker is submitted for at most once more per owner.
THEOREM HaltEndsOrders == Spec => HaltOutlivesOneTick
<1>1. IInv /\ [Next]_vars =>
        [(Post /\ halted) => <<cur, ticker[row]>> \notin late]_vars
  BY DEF IInv, Post, TickShaped, LateShaped
<1> QED BY Invariance, <1>1, PTL DEF Spec, HaltOutlivesOneTick

-------------------------------------------------------------------------------
(* Part two: one live portfolio.                                           *)

\* Targets stay between the extremes they define.
Bounded ==
  \A t \in Tickers :
    /\ lo[t] <= 0 /\ 0 <= hi[t]
    /\ \A p \in Portfolios : lo[t] <= target[p][t] /\ target[p][t] <= hi[t]

Working(t) == \E i \in Ids : ticker[i] = t /\ Live(i)

\* A snapshot both of whose reads agree is still true of every ticker without
\* an open order when the portfolio is planned, and so is the plan until each
\* of its intents has been posted.
Fresh ==
  /\ pc \in {"submit", "post", "await"} => todo = {}
  /\ (pc = "portfolios" /\ todo # {}) =>
       \A t \in Tickers \ (seenOpen \cup adrift) :
         ~Working(t) /\ (t \notin torn => pos[t] = seenPos[t])
  /\ \A t \in Tickers \ adrift : plan[t] # 0 =>
       ~Working(t) /\ (t \notin torn => lo[t] <= pos[t] + plan[t] /\ pos[t] + plan[t] <= hi[t])

JInv == IInv /\ Bounded /\ Fresh /\ OneWorkingOrder /\ ExposureWithinTargets

LEMMA InitJInv == Init => JInv
<1> SUFFICES ASSUME Init PROVE JInv
  OBVIOUS
<1>1. IInv
  BY InitIInv
<1>2. \A t \in Tickers : pos[t] \in Int
  BY <1>1 DEF IInv, TypeOK
<1>3. \A i \in Ids : ~Live(i)
  BY DEF Init, Live
<1>4. Bounded
  BY <1>2 DEF Init, Bounded, NoPlan, Smaller, Larger
<1>5. ExposureWithinTargets
  BY <1>2, <1>3 DEF Init, ExposureWithinTargets, Smaller, Larger
<1> QED
  BY <1>1, <1>3, <1>4, <1>5 DEF Init, JInv, Fresh, OneWorkingOrder, NoPlan

LEMMA BoundedNext ==
  ASSUME TypeOK, Bounded, [Next]_vars
  PROVE  Bounded'
<1>1. ASSUME NEW p \in Portfolios, NEW t \in Tickers, NEW want \in Wants, Retarget(p, t, want)
      PROVE  Bounded'
  <2>1. want \in Int /\ \A q \in Portfolios, u \in Tickers : target[q][u] \in Int
    <3>1. \A q \in Portfolios : target[q] \in [Tickers -> Wants]
      BY DEF TypeOK
    <3> QED BY <3>1, RunnerAssumption DEF RunnerAssumption
  <2>2. \A u \in Tickers : /\ lo[u] \in Int /\ hi[u] \in Int
                           /\ lo'[u] = IF u = t THEN Smaller(lo[u], want) ELSE lo[u]
                           /\ hi'[u] = IF u = t THEN Larger(hi[u], want) ELSE hi[u]
    BY <1>1 DEF Retarget, TypeOK
  <2>3. \A q \in Portfolios, u \in Tickers :
          target'[q][u] = IF q = p /\ u = t THEN want ELSE target[q][u]
    BY <1>1 DEF Retarget, TypeOK
  <2> QED BY <2>1, <2>2, <2>3 DEF Bounded, Smaller, Larger
<1>2. CASE UNCHANGED <<target, lo, hi>>
  BY <1>2 DEF Bounded
<1> QED
  BY <1>1, <1>2, Quiet
  DEF Next, TickStep, Reconciliation, Reconcile, CancelOnHalt, ReadOpenOrders, PlanPortfolio, LogIntent, Post,
      Accepted, PostFails, Deliver, Fill, Expire, HaltCancels, Resume, db, log, acct, tick, ghost

\* Orders only come to life by a POST, and a ticker with one is never planned.
LEMMA OneNext ==
  ASSUME TypeOK, RowsShaped, TickShaped, Fresh, OneWorkingOrder, [Next]_vars
  PROVE  OneWorkingOrder'
<1> USE DEF db, log, acct, tick, ghost
<1>1. ASSUME NEW t \in Tickers, NEW i \in Ids, LogIntent(t, i) PROVE OneWorkingOrder'
  <2>1. ~Live(i) /\ \A j \in Ids : j # i => ticker'[j] = ticker[j]
    BY <1>1 DEF LogIntent, RowsShaped, Live, TypeOK
  <2> QED BY <1>1, <2>1 DEF LogIntent, OneWorkingOrder, Live
<1>2. CASE Post
  <2>1. row \in Ids /\ ticker[row] \in Tickers /\ (ticker[row] \notin adrift => ~Working(ticker[row]))
    BY <1>2 DEF Post, TickShaped, Fresh
  <2>2. \A j \in Ids : j # row => broker'[j] = broker[j]
    BY <1>2, <2>1 DEF Post, TypeOK
  <2> QED BY <1>2, <2>1, <2>2 DEF Post, OneWorkingOrder, Live, Working
<1>3. CASE UNCHANGED <<ticker, adrift>> /\ \A i \in Ids : Live(i)' => Live(i)
  BY <1>3 DEF OneWorkingOrder
<1>4. ASSUME NEW i \in Ids, Deliver(i) \/ Fill(i) \/ Expire(i) PROVE OneWorkingOrder'
  <2>1. \A j \in Ids : Live(j)' => Live(j)
    BY <1>4 DEF Deliver, Fill, Expire, Live, TypeOK
  <2> QED BY <1>3, <1>4, <2>1 DEF Deliver, Fill, Expire
<1>5. CASE CancelOnHalt \/ HaltCancels
  <2>1. \A j \in Ids : Live(j)' => Live(j)
    BY <1>5 DEF CancelOnHalt, HaltCancels, AllCancelled, Live, TypeOK
  <2> QED BY <1>3, <1>5, <2>1 DEF CancelOnHalt, HaltCancels
<1>6. CASE ReadOpenOrders
  BY <1>6 DEF ReadOpenOrders, OneWorkingOrder, Live
<1>7. CASE UNCHANGED <<ticker, adrift, broker>>
  BY <1>3, <1>7 DEF Live
<1> QED
  BY <1>1, <1>2, <1>4, <1>5, <1>6, <1>7, Quiet
  DEF Next, TickStep, Reconciliation, Reconcile, PlanPortfolio, Accepted, PostFails, Resume, Retarget

\* Extremes only widen.
LEMMA Widen ==
  ASSUME TypeOK, NEW p \in Portfolios, NEW t \in Tickers, NEW want \in Wants,
         Retarget(p, t, want), NEW u \in Tickers
  PROVE  /\ lo[u] \in Int /\ hi[u] \in Int /\ lo'[u] \in Int /\ hi'[u] \in Int
         /\ lo'[u] <= lo[u] /\ hi[u] <= hi'[u]
<1>1. want \in Int
  BY RunnerAssumption DEF RunnerAssumption
<1>2. /\ lo[u] \in Int /\ hi[u] \in Int
      /\ lo'[u] = IF u = t THEN Smaller(lo[u], want) ELSE lo[u]
      /\ hi'[u] = IF u = t THEN Larger(hi[u], want) ELSE hi[u]
  BY DEF Retarget, TypeOK
<1> QED BY <1>1, <1>2 DEF Smaller, Larger

LEMMA FreshNext ==
  ASSUME TypeOK, RowsShaped, TickShaped, Bounded, Fresh, [Next]_vars,
         \A p, q \in Portfolios : p = q
  PROVE  Fresh'
<1> USE DEF db, log, acct, tick, ghost
\* Orders end, positions move only where an order works, nothing else changes.
<1>1. CASE /\ UNCHANGED <<tick, ghost>>
           /\ \A t \in Tickers : Working(t)' => Working(t)
           /\ \A t \in Tickers : Working(t) \/ pos'[t] = pos[t]
  BY <1>1 DEF Fresh
<1>2. ASSUME NEW i \in Ids, Deliver(i) \/ Fill(i) \/ Expire(i) PROVE Fresh'
  <2>1. \A j \in Ids : Live(j)' => Live(j)
    BY <1>2 DEF Deliver, Fill, Expire, Live, TypeOK
  <2>2. \A t \in Tickers : Working(t)' => Working(t)
    BY <1>2, <2>1 DEF Deliver, Fill, Expire, Working
  <2>3. Live(i)
    BY <1>2 DEF Deliver, Fill, Expire, Live
  <2>4. \A t \in Tickers : Working(t) \/ pos'[t] = pos[t]
    BY <1>2, <2>3 DEF Deliver, Fill, Expire, Working, TypeOK
  <2> QED BY <1>1, <1>2, <2>2, <2>4 DEF Deliver, Fill, Expire
<1>3. CASE HaltCancels
  <2>1. \A j \in Ids : Live(j)' => Live(j)
    BY <1>3 DEF HaltCancels, AllCancelled, Live, TypeOK
  <2> QED BY <1>1, <1>3, <2>1 DEF HaltCancels, Working
<1>4. CASE plan' = NoPlan /\ pc' \notin {"portfolios", "submit", "post", "await"}
  BY <1>4 DEF Fresh, NoPlan
<1>5. CASE \/ TickStart \/ ReadFails \/ ReadAccount \/ SendBreachMail \/ ReadClock
           \/ ReadPositions \/ TickDone \/ Crash \/ CancelOnHalt
           \/ \E why \in {"breach", "unusable"} : HaltOnAccount(why)
           \/ \E unread \in SUBSET Batch : Reconcile(unread)
  BY <1>4, <1>5 DEF TickStart, ReadFails, ReadAccount, SendBreachMail, ReadClock, ReadPositions,
       TickDone, Crash, CancelOnHalt, HaltOnAccount, Reconcile, Goto, Leave, TickShaped
<1>6. CASE ReadOpenOrders
  <2>1. plan' = NoPlan
    BY <1>6 DEF ReadOpenOrders, TickShaped
  <2>2. ASSUME NEW t \in Tickers \ (seenOpen' \cup adrift')
        PROVE  ~Working(t)' /\ (t \notin torn' => pos'[t] = seenPos'[t])
    BY <1>6, <2>2 DEF ReadOpenOrders, Working, Live
  <2> QED BY <1>6, <2>1, <2>2 DEF ReadOpenOrders, Fresh, NoPlan
<1>7. ASSUME NEW p \in Portfolios, NEW priced \in SUBSET Tickers, PlanPortfolio(p, priced)
      PROVE  Fresh'
  <2>1. todo' = {}
    BY <1>7 DEF PlanPortfolio, TypeOK
  <2>2. ASSUME NEW t \in Tickers \ adrift', plan'[t] # 0
        PROVE  /\ ~Working(t)'
               /\ t \notin torn' => lo'[t] <= pos'[t] + plan'[t] /\ pos'[t] + plan'[t] <= hi'[t]
    <3>1. /\ IsOrder(Decision(p, t, priced))
          /\ plan'[t] = Signed(Decision(p, t, priced))
      BY <1>7, <2>2 DEF PlanPortfolio, Ordered
    <3>2. t \notin seenOpen /\ seenPos[t] + plan'[t] \in {0, target[p][t]}
      BY <3>1, DecisionSound
    <3>3. ~Working(t) /\ (t \notin torn => pos[t] = seenPos[t])
      BY <1>7, <2>2, <3>2 DEF PlanPortfolio, Fresh
    <3>4. ~Working(t)'
      BY <1>7, <3>3 DEF PlanPortfolio, Working, Live
    <3>5. lo[t] <= seenPos[t] + plan'[t] /\ seenPos[t] + plan'[t] <= hi[t]
      BY <3>2 DEF Bounded
    <3> QED BY <1>7, <3>3, <3>4, <3>5 DEF PlanPortfolio
  <2> QED BY <1>7, <2>1, <2>2 DEF PlanPortfolio, Fresh
<1>8. ASSUME NEW t \in Tickers, NEW i \in Ids, LogIntent(t, i) PROVE Fresh'
  <2>1. ~Live(i) /\ \A j \in Ids : j # i => ticker'[j] = ticker[j]
    BY <1>8 DEF LogIntent, RowsShaped, Live, TypeOK
  <2>2. \A u \in Tickers : Working(u)' => Working(u)
    BY <1>8, <2>1 DEF LogIntent, Working, Live
  <2> QED BY <1>8, <2>2 DEF LogIntent, Fresh
<1>9. CASE Post
  <2>1. row \in Ids /\ \A j \in Ids : j # row => broker'[j] = broker[j]
    BY <1>9 DEF Post, TickShaped, TypeOK
  <2>2. \A u \in Tickers : Working(u)' => Working(u) \/ u = ticker[row]
    BY <1>9, <2>1 DEF Post, Working, Live
  <2>3. \A u \in Tickers : plan'[u] = IF u = ticker[row] THEN 0 ELSE plan[u]
    BY <1>9 DEF Post, TypeOK
  <2> QED BY <1>9, <2>2, <2>3 DEF Post, Fresh
<1>10. CASE Accepted \/ PostFails \/ IntentsDone
  <2>1. \A u \in Tickers : Working(u)' = Working(u)
    BY <1>10 DEF Accepted, PostFails, IntentsDone, Working, Live
  <2> QED BY <1>10, <2>1 DEF Accepted, PostFails, IntentsDone, NextIntent, Fresh
<1>11. ASSUME NEW p \in Portfolios, NEW t \in Tickers, NEW want \in Wants, Retarget(p, t, want)
       PROVE  Fresh'
  <2>1. \A u \in Tickers : Working(u)' = Working(u)
    BY <1>11 DEF Retarget, Working, Live
  <2>2. \A u \in Tickers : pos[u] + plan[u] \in Int
    BY DEF TypeOK
  <2>3. \A u \in Tickers : lo[u] \in Int /\ hi[u] \in Int /\ lo'[u] \in Int /\ hi'[u] \in Int
                           /\ lo'[u] <= lo[u] /\ hi[u] <= hi'[u]
    BY <1>11, Widen
  <2>4. ASSUME NEW u \in Tickers \ adrift', plan'[u] # 0
        PROVE  /\ ~Working(u)'
               /\ u \notin torn' => lo'[u] <= pos'[u] + plan'[u] /\ pos'[u] + plan'[u] <= hi'[u]
    <3>1. UNCHANGED <<plan, pos, torn, adrift>>
      BY <1>11 DEF Retarget
    <3> QED BY <2>1, <2>2, <2>3, <2>4, <3>1 DEF Fresh
  <2>5. UNCHANGED <<pc, todo, seenOpen, seenPos, pos, torn, adrift>>
    BY <1>11 DEF Retarget
  <2> QED BY <2>1, <2>4, <2>5 DEF Fresh
<1>12. CASE Halt \/ Resume \/ UNCHANGED vars
  <2>1. \A u \in Tickers : Working(u)' = Working(u)
    BY <1>12 DEF Halt, Resume, vars, Working, Live
  <2> QED BY <1>12, <2>1 DEF Halt, Resume, vars, Fresh
<1> QED
  BY <1>2, <1>3, <1>5, <1>6, <1>7, <1>8, <1>9, <1>10, <1>11, <1>12 DEF Next, TickStep, Reconciliation

LEMMA ExposureNext ==
  ASSUME TypeOK, RowsShaped, TickShaped, Fresh, OneWorkingOrder, ExposureWithinTargets,
         [Next]_vars
  PROVE  ExposureWithinTargets'
<1> USE DEF db, log, acct, tick, ghost
<1>1. CASE /\ UNCHANGED <<ticker, pos, left, lo, hi>>
           /\ torn \subseteq torn' /\ adrift \subseteq adrift'
           /\ \A i \in Ids : Live(i)' => Live(i)
  BY <1>1 DEF ExposureWithinTargets
<1>2. ASSUME NEW i \in Ids, Deliver(i) \/ Expire(i) PROVE ExposureWithinTargets'
  <2>1. \A j \in Ids : Live(j)' => Live(j)
    BY <1>2 DEF Deliver, Expire, Live, TypeOK
  <2> QED BY <1>1, <1>2, <2>1 DEF Deliver, Expire
<1>3. ASSUME NEW i \in Ids, Fill(i) PROVE ExposureWithinTargets'
  <2> DEFINE u == Unit(left[i])
             k == ticker[i]
  <2>1. k \in Tickers /\ Live(i)
    BY <1>3 DEF Fill, RowsShaped, Live
  <2>2. /\ left[i] \in Int /\ left[i] # 0
        /\ \A t \in Tickers : pos[t] \in Int /\ lo[t] \in Int /\ hi[t] \in Int
    BY <1>3 DEF Fill, TypeOK
  <2>3. /\ \A t \in Tickers : pos'[t] = IF t = k THEN pos[t] + u ELSE pos[t]
        /\ \A j \in Ids : left'[j] = IF j = i THEN left[j] - u ELSE left[j]
    BY <1>3 DEF Fill, TypeOK
  <2>4. /\ \A j \in Ids : Live(j)' => Live(j)
        /\ UNCHANGED <<ticker, lo, hi, torn, adrift>>
    BY <1>3 DEF Fill, Live, TypeOK
  <2>5. ASSUME NEW t \in Tickers \ (torn \cup adrift)
        PROVE  /\ lo[t] <= pos'[t] /\ pos'[t] <= hi[t]
               /\ \A j \in Ids : Live(j)' /\ ticker[j] = t =>
                    lo[t] <= pos'[t] + left'[j] /\ pos'[t] + left'[j] <= hi[t]
    <3>1. CASE t # k
      BY <2>3, <2>4, <3>1 DEF ExposureWithinTargets
    <3>2. CASE t = k
      <4>1. /\ lo[t] <= pos[t] /\ pos[t] <= hi[t]
            /\ lo[t] <= pos[t] + left[i] /\ pos[t] + left[i] <= hi[t]
        BY <2>1, <2>5, <3>2 DEF ExposureWithinTargets
      <4>2. lo[t] <= pos[t] + u /\ pos[t] + u <= hi[t]
        BY <2>2, <4>1 DEF Unit
      <4>3. \A j \in Ids : Live(j) /\ ticker[j] = t => j = i
        BY <2>1, <2>5, <3>2 DEF OneWorkingOrder
      <4>4. pos[t] + u + (left[i] - u) = pos[t] + left[i]
        BY <2>2 DEF Unit
      <4> QED BY <2>3, <2>4, <3>2, <4>1, <4>2, <4>3, <4>4
    <3> QED BY <3>1, <3>2
  <2> QED BY <2>4, <2>5 DEF ExposureWithinTargets
<1>4. CASE Post
  <2> DEFINE k == ticker[row]
  <2>1. /\ row \in Ids /\ k \in Tickers /\ plan[k] # 0
        /\ \A j \in Ids : j # row => broker'[j] = broker[j] /\ left'[j] = left[j]
        /\ left'[row] = plan[k]
    BY <1>4 DEF Post, TickShaped, TypeOK
  <2>2. k \notin torn \cup adrift => lo[k] <= pos[k] + plan[k] /\ pos[k] + plan[k] <= hi[k]
    BY <2>1 DEF Fresh
  <2>3. UNCHANGED <<ticker, pos, lo, hi, torn, adrift>>
    BY <1>4 DEF Post
  <2> QED BY <2>1, <2>2, <2>3 DEF ExposureWithinTargets, Live
<1>5. ASSUME NEW t \in Tickers, NEW i \in Ids, LogIntent(t, i) PROVE ExposureWithinTargets'
  <2>1. ~Live(i) /\ \A j \in Ids : j # i => ticker'[j] = ticker[j]
    BY <1>5 DEF LogIntent, RowsShaped, Live, TypeOK
  <2> QED BY <1>5, <2>1 DEF LogIntent, ExposureWithinTargets, Live
<1>6. CASE CancelOnHalt \/ HaltCancels
  <2>1. \A j \in Ids : Live(j)' => Live(j)
    BY <1>6 DEF CancelOnHalt, HaltCancels, AllCancelled, Live, TypeOK
  <2> QED BY <1>1, <1>6, <2>1 DEF CancelOnHalt, HaltCancels
<1>7. ASSUME NEW p \in Portfolios, NEW t \in Tickers, NEW want \in Wants, Retarget(p, t, want)
      PROVE  ExposureWithinTargets'
  <2>1. UNCHANGED <<ticker, broker, pos, left, torn, adrift>>
    BY <1>7 DEF Retarget
  <2>2. /\ \A u \in Tickers : /\ pos[u] \in Int /\ lo[u] \in Int /\ hi[u] \in Int
                              /\ lo'[u] \in Int /\ hi'[u] \in Int
                              /\ lo'[u] <= lo[u] /\ hi[u] <= hi'[u]
        /\ \A i \in Ids : left[i] \in Int
    BY <1>7, Widen DEF TypeOK
  <2> QED BY <2>1, <2>2 DEF ExposureWithinTargets, Live
<1>8. CASE ReadOpenOrders
  BY <1>1, <1>8 DEF ReadOpenOrders, Live
<1>9. CASE UNCHANGED <<ticker, broker, pos, left, lo, hi, torn, adrift>>
  BY <1>1, <1>9 DEF Live
<1> QED
  BY <1>2, <1>3, <1>4, <1>5, <1>6, <1>7, <1>8, <1>9, Quiet
  DEF Next, TickStep, Reconciliation, Reconcile, PlanPortfolio, Accepted, PostFails, Resume

LEMMA SingleInvariance ==
  ASSUME \A p, q \in Portfolios : p = q
  PROVE  Spec => []JInv
<1>1. JInv /\ [Next]_vars => JInv'
  <2> SUFFICES ASSUME JInv, [Next]_vars PROVE JInv'
    OBVIOUS
  <2>1. IInv'
    BY TypeNext, RowsNext, TickNext, FinalNext, WantedNext, LateNext DEF IInv, JInv
  <2>2. Bounded' /\ OneWorkingOrder'
    BY BoundedNext, OneNext DEF IInv, JInv
  <2>3. Fresh'
    BY FreshNext DEF IInv, JInv
  <2>4. ExposureWithinTargets'
    BY ExposureNext DEF IInv, JInv
  <2> QED BY <2>1, <2>2, <2>3, <2>4 DEF JInv
<1> QED BY InitJInv, <1>1, PTL DEF Spec

\* With one live portfolio no ticker ever has two orders working, but for the
\* tickers planned while a POST of theirs was still on the wire.
THEOREM NoDoubleOrder ==
  ASSUME \A p, q \in Portfolios : p = q
  PROVE  Spec => []OneWorkingOrder
<1>1. JInv => OneWorkingOrder
  BY DEF JInv
<1> QED BY SingleInvariance, <1>1, PTL

\* With one live portfolio every position, and every order on top of it, stays
\* between the extremes of the targets asked for, but for those tickers and
\* the ones whose position moved between the two reads of a snapshot.
THEOREM ExposureStaysWithin ==
  ASSUME \A p, q \in Portfolios : p = q
  PROVE  Spec => []ExposureWithinTargets
<1>1. JInv => ExposureWithinTargets
  BY DEF JInv
<1> QED BY SingleInvariance, <1>1, PTL
===============================================================================
