--------------------------- MODULE ExecutionRunner ---------------------------
(***************************************************************************)
(* The execution runner (execution_runner.py), the broker account it       *)
(* trades, its audit log (live_orders) and the operator's kill switch.     *)
(*                                                                         *)
(* A tick is a sequential program over two databases it does not control:  *)
(* it reads the kill switch, reconciles the log, reads account, clock,     *)
(* positions and open orders one call after another, plans every live      *)
(* portfolio from that one snapshot, and submits intent by intent.  The    *)
(* broker fills, cancels and accepts orders between any two of its steps,  *)
(* the operator halts and resumes, signals move, and the process may die.  *)
(*                                                                         *)
(* One share is worth one dollar, so a position is its value and its       *)
(* share count; an order is its signed unfilled amount.                    *)
(***************************************************************************)
EXTENDS OrderPlanning, FiniteSets

CONSTANTS Portfolios,    \* live strategy portfolios, each of another user
          Tickers,
          None,          \* no ticker, no portfolio
          Wants,         \* capped targets a portfolio may come to
          Held,          \* positions found in the account at the start
          MaxOrders,     \* bound: audit rows of submitted orders
          BatchSize,     \* RECONCILE_BATCH_SIZE
          Unreadable,    \* rows whose order the broker never answers for
          PostTimeouts   \* whether a POST may time out at the client

ASSUME RunnerAssumption ==
  /\ None \notin Portfolios \cup Tickers
  /\ Wants \subseteq Int /\ 0 \in Wants /\ Held \subseteq Int
  /\ MaxOrders \in Nat /\ BatchSize \in Nat \ {0}
  /\ Unreadable \subseteq Nat
  /\ PostTimeouts \in BOOLEAN

Ids == 1 .. MaxOrders

VARIABLES
  \* The database, as committed.
  halted,      \* ExecutionControl.trading_halted
  target,      \* what each portfolio's allocations ask for, capped
  status,      \* per LiveOrder row: its status, "none" before it exists
  known,       \* rows with a broker_order_id
  ticker, owner,   \* per row
  skipped,     \* (portfolio, ticker) pairs with a row of status "skipped"
  \* The broker and the network to it.
  broker,      \* per client_order_id: where that order is
  left,        \* per client_order_id: signed amount not yet filled
  pos,         \* signed position per ticker
  \* The tick in progress.
  pc, seenPos, seenOpen, todo, cur, plan, row,
  \* The /halt request in progress, after its commit.
  cancelling,
  \* History, read by the properties only.
  torn,        \* tickers whose position moved between the two snapshot reads
  adrift,      \* tickers planned while an order of theirs was on the wire
  lo, hi,      \* extremes of a ticker's position, targets and zero
  wanted,      \* (portfolio, ticker) pairs ever given a non-zero target
  late         \* (portfolio, ticker) pairs submitted for while halted

db    == <<halted, target>>
log   == <<status, known, ticker, owner, skipped>>
acct  == <<broker, left, pos>>
tick  == <<pc, seenPos, seenOpen, todo, cur, plan, row>>
ghost == <<torn, adrift, lo, hi, wanted, late>>
vars  == <<db, log, acct, tick, cancelling, ghost>>

Statuses == {"none", "submitted", "error", "open", "filled", "canceled"}
BrokerStates == {"none", "wire", "open", "filled", "canceled", "refused"}

\* TERMINAL_ORDER_STATUSES, of those the broker model has.
Terminal == {"filled", "canceled"}

Steps == {"idle", "reconcile", "account", "breach", "unusable", "mail", "clock",
          "positions", "orders", "portfolios", "submit", "post", "await"}

NoPlan == [t \in Tickers |-> 0]

\* Orders that may still change a position.
Live(i) == broker[i] \in {"wire", "open"}

Unit(n) == IF n > 0 THEN 1 ELSE -1

TypeOK ==
  /\ halted \in BOOLEAN
  /\ target \in [Portfolios -> [Tickers -> Wants]]
  /\ status \in [Ids -> Statuses]
  /\ known \subseteq Ids
  /\ ticker \in [Ids -> Tickers \cup {None}]
  /\ owner \in [Ids -> Portfolios \cup {None}]
  /\ skipped \subseteq Portfolios \X Tickers
  /\ broker \in [Ids -> BrokerStates]
  /\ left \in [Ids -> Int]
  /\ pos \in [Tickers -> Int]
  /\ pc \in Steps
  /\ seenPos \in [Tickers -> Int]
  /\ seenOpen \subseteq Tickers
  /\ todo \subseteq Portfolios
  /\ cur \in Portfolios \cup {None}
  /\ plan \in [Tickers -> Int]
  /\ row \in Ids \cup {0}
  /\ cancelling \in BOOLEAN
  /\ torn \subseteq Tickers /\ adrift \subseteq Tickers
  /\ lo \in [Tickers -> Int] /\ hi \in [Tickers -> Int]
  /\ wanted \subseteq Portfolios \X Tickers
  /\ late \subseteq Portfolios \X Tickers

Init ==
  /\ halted = FALSE
  /\ target = [p \in Portfolios |-> NoPlan]
  /\ status = [i \in Ids |-> "none"]
  /\ known = {}
  /\ ticker = [i \in Ids |-> None]
  /\ owner = [i \in Ids |-> None]
  /\ skipped = {}
  /\ broker = [i \in Ids |-> "none"]
  /\ left = [i \in Ids |-> 0]
  /\ pos \in [Tickers -> Held]
  /\ pc = "idle" /\ seenPos = NoPlan /\ seenOpen = {} /\ todo = {}
  /\ cur = None /\ plan = NoPlan /\ row = 0
  /\ cancelling = FALSE
  /\ torn = {} /\ adrift = {}
  /\ lo = [t \in Tickers |-> Smaller(0, pos[t])]
  /\ hi = [t \in Tickers |-> Larger(0, pos[t])]
  /\ wanted = {} /\ late = {}

-------------------------------------------------------------------------------
(* One tick.                                                               *)

\* Leaving a tick drops its locals.
Leave ==
  /\ pc' = "idle" /\ seenPos' = NoPlan /\ seenOpen' = {} /\ todo' = {}
  /\ cur' = None /\ plan' = NoPlan /\ row' = 0

Goto(step) == pc' = step /\ UNCHANGED <<seenPos, seenOpen, todo, cur, plan, row>>

\* Mutation: the kill switch is not read.
TickStartUnchecked ==
  /\ pc = "idle"
  /\ Goto("reconcile")
  /\ UNCHANGED <<db, log, acct, cancelling, ghost>>

\* A tick that finds trading halted returns before a single broker call.
TickStart ==
  /\ pc = "idle" /\ ~halted
  /\ Goto("reconcile")
  /\ UNCHANGED <<db, log, acct, cancelling, ghost>>

Pending == {i \in Ids : i \in known /\ status[i] \notin Terminal}

\* order_by(id).limit(RECONCILE_BATCH_SIZE)
Batch == {i \in Pending : Cardinality({j \in Pending : j < i}) < BatchSize}

\* Mutation: the first row that cannot be read ends the pass.
ReconcileStopping(unread) ==
  /\ pc = "reconcile"
  /\ Batch \cap Unreadable \subseteq unread
  /\ status' = [i \in Ids |-> IF i \in Batch /\ \A j \in unread : i < j
                              THEN broker[i] ELSE status[i]]
  /\ Goto("account")
  /\ UNCHANGED <<db, known, ticker, owner, skipped, acct, cancelling, ghost>>

\* get_order fails for the rows in unread; one commit for the others.
Reconcile(unread) ==
  /\ pc = "reconcile"
  /\ Batch \cap Unreadable \subseteq unread
  /\ status' = [i \in Ids |-> IF i \in Batch \ unread THEN broker[i] ELSE status[i]]
  /\ Goto("account")
  /\ UNCHANGED <<db, known, ticker, owner, skipped, acct, cancelling, ghost>>

Reconciliation == \E unread \in SUBSET Batch : Reconcile(unread)

\* A pass of it that gets an answer for row i.
Reads(i) == \E unread \in SUBSET Batch : i \in Batch \ unread /\ Reconcile(unread)

\* A read that still fails after its retries, or a closed market.
ReadFails ==
  /\ pc \in {"account", "clock", "positions", "orders"}
  /\ Leave
  /\ UNCHANGED <<db, log, acct, cancelling, ghost>>

ReadAccount ==
  /\ pc = "account"
  /\ Goto("clock")
  /\ UNCHANGED <<db, log, acct, cancelling, ghost>>

\* halt(): the daily-loss breach, or unreadable equity, or a blocked account.
HaltOnAccount(why) ==
  /\ pc = "account"
  /\ halted' = TRUE
  /\ Goto(why)
  /\ UNCHANGED <<target, log, acct, cancelling, ghost>>

AllCancelled == [i \in Ids |-> IF broker[i] = "open" THEN "canceled" ELSE broker[i]]

\* _cancel_all_safely: a failed cancel is logged, and the breach goes on to
\* its mail all the same.
CancelOnHalt ==
  /\ pc \in {"breach", "unusable"}
  /\ broker' \in {broker, AllCancelled}
  /\ IF pc = "breach" THEN Goto("mail") ELSE Leave
  /\ UNCHANGED <<db, log, left, pos, cancelling, ghost>>

SendBreachMail ==
  /\ pc = "mail"
  /\ Leave
  /\ UNCHANGED <<db, log, acct, cancelling, ghost>>

ReadClock ==
  /\ pc = "clock"
  /\ Goto("positions")
  /\ UNCHANGED <<db, log, acct, cancelling, ghost>>

ReadPositions ==
  /\ pc = "positions"
  /\ pc' = "orders" /\ seenPos' = pos
  /\ UNCHANGED <<seenOpen, todo, cur, plan, row>>
  /\ UNCHANGED <<db, log, acct, cancelling, ghost>>

\* Mutation: the open orders are those the log knows of.
ReadOpenOrdersFromLog ==
  /\ pc = "orders"
  /\ seenOpen' = {ticker[i] : i \in {j \in known : status[j] = "open"}}
  /\ todo' \in SUBSET Portfolios
  /\ pc' = "portfolios"
  /\ torn' = torn \cup {t \in Tickers \ seenOpen' : pos[t] # seenPos[t]}
  /\ adrift' = adrift \cup {ticker[i] : i \in {j \in Ids : broker[j] = "wire"}}
  /\ UNCHANGED <<seenPos, cur, plan, row>>
  /\ UNCHANGED <<db, log, acct, cancelling, lo, hi, wanted, late>>

\* get_open_orders, a second request: the account may have moved since.  The
\* portfolios to plan are those live at that moment with a strategy to trade.
ReadOpenOrders ==
  /\ pc = "orders"
  /\ seenOpen' = {ticker[i] : i \in {j \in Ids : broker[j] = "open"}}
  /\ todo' \in SUBSET Portfolios
  /\ pc' = "portfolios"
  /\ torn' = torn \cup {t \in Tickers \ seenOpen' : pos[t] # seenPos[t]}
  /\ adrift' = adrift \cup {ticker[i] : i \in {j \in Ids : broker[j] = "wire"}}
  /\ UNCHANGED <<seenPos, cur, plan, row>>
  /\ UNCHANGED <<db, log, acct, cancelling, lo, hi, wanted, late>>

\* Mutation: every ticker is managed.
ManagedAll(p) == Tickers

\* _managed_tickers: wanted now, or any LiveOrder row of this user.
Managed(p) ==
  {t \in Tickers : target[p][t] # 0 \/ <<p, t>> \in skipped
                    \/ \E i \in Ids : owner[i] = p /\ ticker[i] = t}

\* Mutation: the open orders are not looked at.
DecisionStacking(p, t, priced) ==
  IF t \in Managed(p)
  THEN PlanTicker(target[p][t], seenPos[t], seenPos[t], FALSE, IF t \in priced THEN 1 ELSE 0)
  ELSE NoOrder

Decision(p, t, priced) ==
  IF t \in Managed(p)
  THEN PlanTicker(target[p][t], seenPos[t], seenPos[t], t \in seenOpen,
                  IF t \in priced THEN 1 ELSE 0)
  ELSE NoOrder

Ordered(p, priced) == {t \in Tickers : IsOrder(Decision(p, t, priced))}

\* Bound: a portfolio with more intents than the log has room for submits none.
Room(p, priced) ==
  Cardinality(Ordered(p, priced)) <= Cardinality({i \in Ids : status[i] = "none"})

\* _rebalance_portfolio up to its submissions; priced are the tickers with a
\* cached close.  Every portfolio of a tick sees the same snapshot.
PlanPortfolio(p, priced) ==
  /\ pc = "portfolios" /\ p \in todo
  /\ todo' = todo \ {p}
  /\ cur' = p
  /\ plan' = [t \in Tickers |->
                IF Room(p, priced) /\ t \in Ordered(p, priced)
                THEN Signed(Decision(p, t, priced)) ELSE 0]
  /\ skipped' = skipped \cup
       {<<p, t>> : t \in {u \in Tickers : Decision(p, u, priced) = Skip("no_reference_price")}}
  /\ pc' = "submit"
  /\ UNCHANGED <<seenPos, seenOpen, row>>
  /\ UNCHANGED <<db, status, known, ticker, owner, acct, cancelling, ghost>>

TickDone ==
  /\ pc = "portfolios" /\ todo = {}
  /\ Leave
  /\ UNCHANGED <<db, log, acct, cancelling, ghost>>

\* Mutation: the row is left to a later commit.
LogIntentLate(t, i) ==
  /\ pc = "submit" /\ plan[t] # 0
  /\ status[i] = "none" /\ \A j \in Ids : j < i => status[j] # "none"
  /\ ticker' = [ticker EXCEPT ![i] = t]
  /\ owner' = [owner EXCEPT ![i] = cur]
  /\ row' = i
  /\ pc' = "post"
  /\ UNCHANGED <<seenPos, seenOpen, todo, cur, plan>>
  /\ UNCHANGED <<db, status, known, skipped, acct, cancelling, ghost>>

\* _submit commits the audit row before the broker call.
LogIntent(t, i) ==
  /\ pc = "submit" /\ plan[t] # 0
  /\ status[i] = "none" /\ \A j \in Ids : j < i => status[j] # "none"
  /\ status' = [status EXCEPT ![i] = "submitted"]
  /\ ticker' = [ticker EXCEPT ![i] = t]
  /\ owner' = [owner EXCEPT ![i] = cur]
  /\ row' = i
  /\ pc' = "post"
  /\ UNCHANGED <<seenPos, seenOpen, todo, cur, plan>>
  /\ UNCHANGED <<db, known, skipped, acct, cancelling, ghost>>

\* POST /orders leaves the process.
Post ==
  /\ pc = "post"
  /\ broker' = [broker EXCEPT ![row] = "wire"]
  /\ left' = [left EXCEPT ![row] = plan[ticker[row]]]
  /\ plan' = [plan EXCEPT ![ticker[row]] = 0]
  /\ late' = IF halted THEN late \cup {<<cur, ticker[row]>>} ELSE late
  /\ pc' = "await"
  /\ UNCHANGED <<seenPos, seenOpen, todo, cur, row>>
  /\ UNCHANGED <<db, log, pos, cancelling, torn, adrift, lo, hi, wanted>>

NextIntent == pc' = "submit" /\ row' = 0 /\ UNCHANGED <<seenPos, seenOpen, todo, cur, plan>>

\* The broker's answer to the POST: the order it accepted.
Accepted ==
  /\ pc = "await" /\ broker[row] \notin {"wire", "refused"}
  /\ status' = [status EXCEPT ![row] = "open"]
  /\ known' = known \cup {row}
  /\ NextIntent
  /\ UNCHANGED <<db, ticker, owner, skipped, acct, cancelling, ghost>>

\* AlpacaError: a refusal, or no answer in time whatever became of the order.
\* submit is never retried.
PostFails ==
  /\ pc = "await" /\ (PostTimeouts \/ broker[row] = "refused")
  /\ status' = [status EXCEPT ![row] = "error"]
  /\ NextIntent
  /\ UNCHANGED <<db, known, ticker, owner, skipped, acct, cancelling, ghost>>

IntentsDone ==
  /\ pc = "submit" /\ plan = NoPlan
  /\ pc' = "portfolios" /\ cur' = None
  /\ UNCHANGED <<seenPos, seenOpen, todo, plan, row>>
  /\ UNCHANGED <<db, log, acct, cancelling, ghost>>

\* An error nothing catches ends the tick; or the process dies, with the tick
\* and the /halt request it was serving.
Crash ==
  /\ pc # "idle" \/ cancelling
  /\ Leave
  /\ cancelling' \in {FALSE, cancelling}
  /\ UNCHANGED <<db, log, acct, ghost>>

-------------------------------------------------------------------------------
(* The broker.                                                             *)

Deliver(i) ==
  /\ broker[i] = "wire"
  /\ \E outcome \in {"open", "refused"} : broker' = [broker EXCEPT ![i] = outcome]
  /\ UNCHANGED <<db, log, left, pos, tick, cancelling, ghost>>

\* A share of an open order fills.
Fill(i) ==
  /\ broker[i] = "open" /\ left[i] # 0
  /\ left' = [left EXCEPT ![i] = @ - Unit(@)]
  /\ pos' = [pos EXCEPT ![ticker[i]] = @ + Unit(left[i])]
  /\ broker' = IF left[i] = Unit(left[i]) THEN [broker EXCEPT ![i] = "filled"] ELSE broker
  /\ UNCHANGED <<db, log, tick, cancelling, ghost>>

\* A day order ends with its session, or is cancelled at the broker.
Expire(i) ==
  /\ broker[i] = "open"
  /\ broker' = [broker EXCEPT ![i] = "canceled"]
  /\ UNCHANGED <<db, log, left, pos, tick, cancelling, ghost>>

-------------------------------------------------------------------------------
(* The operator and the signals.                                           *)

\* POST /halt: the commit, then the cancel.
Halt ==
  /\ ~cancelling
  /\ halted' = TRUE
  /\ cancelling' = TRUE
  /\ UNCHANGED <<target, log, acct, tick, ghost>>

\* Mutation: the rows are marked canceled, whatever the broker says.
HaltCancelsRows ==
  /\ cancelling
  /\ cancelling' = FALSE
  /\ broker' \in {broker, AllCancelled}
  /\ status' = [i \in Ids |-> IF status[i] = "open" THEN "canceled" ELSE status[i]]
  /\ UNCHANGED <<db, known, ticker, owner, skipped, left, pos, tick, ghost>>

HaltCancels ==
  /\ cancelling
  /\ cancelling' = FALSE
  /\ broker' \in {broker, AllCancelled}
  /\ UNCHANGED <<db, log, left, pos, tick, ghost>>

\* POST /resume, once its guards are met (module ExecutionControl).
Resume ==
  /\ halted
  /\ halted' = FALSE
  /\ late' = {}
  /\ UNCHANGED <<target, log, acct, tick, cancelling, torn, adrift, lo, hi, wanted>>

\* A signal, a weight or the equity moves a portfolio's target.
Retarget(p, t, want) ==
  /\ target' = [target EXCEPT ![p] = [@ EXCEPT ![t] = want]]
  /\ lo' = [lo EXCEPT ![t] = Smaller(@, want)]
  /\ hi' = [hi EXCEPT ![t] = Larger(@, want)]
  /\ wanted' = IF want = 0 THEN wanted ELSE wanted \cup {<<p, t>>}
  /\ UNCHANGED <<halted, log, acct, tick, cancelling, torn, adrift, late>>

TickStep ==
  \/ TickStart
  \/ Reconciliation
  \/ ReadFails \/ ReadAccount
  \/ \E why \in {"breach", "unusable"} : HaltOnAccount(why)
  \/ CancelOnHalt \/ SendBreachMail
  \/ ReadClock \/ ReadPositions \/ ReadOpenOrders
  \/ \E p \in Portfolios, priced \in SUBSET Tickers : PlanPortfolio(p, priced)
  \/ TickDone
  \/ \E t \in Tickers, i \in Ids : LogIntent(t, i)
  \/ Post \/ Accepted \/ PostFails \/ IntentsDone

Next ==
  \/ TickStep
  \/ Crash
  \/ \E i \in Ids : Deliver(i) \/ Fill(i) \/ Expire(i)
  \/ Halt \/ HaltCancels \/ Resume
  \/ \E p \in Portfolios, t \in Tickers, want \in Wants : Retarget(p, t, want)

Spec == Init /\ [][Next]_vars

\* The runner's loop keeps running and does not die in every reconciliation, a
\* POST is answered or lost, and a day order does not outlive its session.  Of
\* reads it grants one row at a time: a row whose order can be read at all, and
\* that is in the batch again and again, is read now and then.
FairSpec ==
  /\ Spec
  /\ WF_vars(TickStep)
  /\ SF_vars(Reconciliation)
  /\ \A i \in Ids \ Unreadable : SF_vars(Reads(i))
  /\ \A i \in Ids : WF_vars(Deliver(i)) /\ WF_vars(Fill(i) \/ Expire(i))

-------------------------------------------------------------------------------
(* Properties.                                                             *)

\* _submit commits before it posts: every order the broker may hold has an
\* audit row, and a row with a broker id is an order the broker did accept.
WriteAhead ==
  \A i \in Ids :
    /\ broker[i] # "none" => status[i] # "none" /\ ticker[i] \in Tickers
    /\ i \in known => broker[i] \in {"open", "filled", "canceled"}

\* apply_fill: a row says filled or canceled only when the order really is
\* final, whatever was cancelled, filled or lost between the reads.
FinalRowsAgree ==
  \A i \in Ids : status[i] \in Terminal => i \in known /\ broker[i] = status[i]

\* The double-order bug: with one live portfolio, no ticker ever has two orders
\* working, unless it was planned while a POST of it was still on the wire.
OneWorkingOrder ==
  \A i, j \in Ids :
    (i # j /\ Live(i) /\ Live(j) /\ ticker[i] = ticker[j]) => ticker[i] \in adrift

\* plan_orders: a position and everything ordered on top of it stay between the
\* extremes of the targets ever asked for, however fills, cancels, halts,
\* crashes and moving signals interleave, but for tickers planned on the wire
\* or from a snapshot whose two reads disagree.
ExposureWithinTargets ==
  \A t \in Tickers \ (torn \cup adrift) :
    /\ lo[t] <= pos[t] /\ pos[t] <= hi[t]
    /\ \A i \in Ids : Live(i) /\ ticker[i] = t =>
         lo[t] <= pos[t] + left[i] /\ pos[t] + left[i] <= hi[t]

\* _managed_tickers: an owner never trades a ticker no target of that owner
\* ever named, so what a human holds there stays.
HandHeldUntouched ==
  \A i \in Ids : status[i] # "none" => <<owner[i], ticker[i]>> \in wanted

\* The halted check opens a tick and nothing after it: a halt lets the tick in
\* flight finish its intents, one order per owner and ticker, and no more.
HaltOutlivesOneTick ==
  [][(Post /\ halted) => <<cur, ticker[row]>> \notin late]_vars

\* Halted for good, the runner comes to rest.
HaltStopsTheLoop == <>[]halted => <>[](pc = "idle")

\* _reconcile_open_orders: while trading is not halted, the final state of an
\* order whose id is on its row reaches the row, however often a read fails or
\* the process dies, if its own read can succeed and the rows before it that
\* can never be read do not fill a batch.
Reconciled ==
  <>[]~halted =>
    \A i \in Ids \ Unreadable :
      Cardinality({j \in Unreadable : j < i}) < BatchSize
        => ((i \in known /\ broker[i] \in Terminal) ~> (status[i] = broker[i]))

-------------------------------------------------------------------------------
(* What the repository says, and the code does not keep.                   *)

\* targets.py:141-144 with positions asked for "fresh every 60 seconds" there is
\* no stale cache to cause "double-order bugs": no ticker overshoots its targets.
SnapshotNeverStale ==
  \A t \in Tickers \ adrift : lo[t] <= pos[t] /\ pos[t] <= hi[t]

\* targets.py:87-91 the "hard dollar ceilings" are "fixed dollars": no position
\* goes past the per-ticker one.
CeilingHolds ==
  \A t \in Tickers \ (torn \cup adrift) : Abs(pos[t]) <= MaxPosition

\* execution_runner.py:32-33 a row that is not terminal "stays in the
\* reconciliation queue", so every order's end reaches the audit log.
EveryOrderAudited ==
  <>[]~halted => \A i \in Ids : broker[i] \in Terminal ~> status[i] = broker[i]

\* execution_runner.py:32-33 and 38-40: every row that is not terminal stays in
\* the queue, and the batch bounds a tick and not the queue: a row whose order
\* the broker does answer for gets its turn.
EveryReadableRowServed ==
  <>[]~halted =>
    \A i \in Ids \ Unreadable :
      (i \in known /\ broker[i] \in Terminal) ~> (status[i] = broker[i])
===============================================================================
