# A TLA+ model of aladdin2

aladdin2 is a FastAPI service that researches trading strategies, paper-tests
them one trading day at a time (forward validation), and trades the ones that
survive through one Alpaca account. Paths below are relative to
`src/backend/app/`; RL stands for `services/research_lab`.

What is modelled are the parts that keep state and share it: the execution path,
both forward validations, the sweep jobs, live quotes and price alerts. Most of
the repository is something else, one-shot numeric studies, and stays outside
(see "Not modelled").

## Inventory

| Part | State it keeps | Operations | What is hard | What makes it correct | Model |
|---|---|---|---|---|---|
| Order planning (`services/execution/targets.py`) | none | net, cap, diff against the account | signs, dust, two caps at once, whole shares counted at an old close and filled at the market | ceilings hold of the targets, no refused shape, no flip or overshoot but a short's on a stale close, settles | `OrderPlanning`, `OrderLoop` |
| Execution runner (`services/execution/execution_runner.py`, `models/live_order.py`) | `live_orders`; at the broker: orders, positions | a tick every 60 s | the broker moves between any two reads; POST in flight; crash; halt mid-tick | write-ahead log, no double order, exposure within targets, reconciliation | `ExecutionRunner` |
| Kill switch (`services/execution/execution_control_service.py`, `models/execution_control.py`, `routers/execution.py`) | one row | halt, resume, get_control | read and commit are apart, and only changed columns are written | a breach cannot be undone the same day; only a resume enables | `ExecutionControl` |
| Strategy breaker (`services/execution/strategy_breaker.py`, `models/strategy_execution_state.py`) | day ledger, halt, frozen legs | record and judge per tick, resume | 390 ticks a day, the tick that trips, tickers shared by strategies | counts days, freezes once, opens nothing | `StrategyBreaker` |
| Broker client (`alpaca_client.py`) | none | reads retried, submits not | an answer lost after the order was taken | a submit happens at most once | inside `ExecutionRunner` |
| Live portfolio switch (`routers/strategy_portfolios.py`) | `is_live` per portfolio | set live, edit, delete | unique per user, one account | one owner of a ticker | planned |
| Walk-forward engine (`RL/engine.py`, `RL/momentum.py`) | none; the carry state goes in and out | one day, a run of days | one step function for the backtest and for live days; counts carried over a boundary | a live record equals the backtest of its days | `WalkForward` |
| Forward validation (`RL/forward_validation_runner.py`, `RL/forward_validation_backfill.py`, `services/forward_validation_service.py`) | one row per registration: carry state, days, trades, last day, status | tick, catch-up, backfill script, register, delete | tick and script on one row, optimistic check apart from the commit, gaps longer than the price window, bars that come late | each day once and in order, no hindsight past the first day, no silent gap, status follows the record | `ForwardValidation`, `TrackRecord` |
| Cross-sectional forward validation (`RL/cross_sectional_forward_validation_runner.py`, `RL/cross_sectional_forward.py`) | carry state with a book and a pending charge, days | tick, register, delete, retire | realize, reform and charge on different rows; outages; definitions that change under a registration | the record is the batch replay; graduates on complete holds; catches up | `CrossSectionalValidation` |
| Sweep runner (`RL/sweep_runner.py`, `routers/sweeps.py`) | counters and status per job, the runs | submit, plan a batch, run units in threads | counters as cursor, threads that end in any order, a crash mid-batch | every combination once; large jobs do not starve small ones; every job completes | `SweepRunner` |
| Live quotes (`services/live_quotes/`, `routers/live_quotes.py`) | subscribers, client tickers, snapshots; upstream subscriptions | subscribe, release, activate, reconnect, disconnect | state read before an await is used after it; a coroutine cancelled at any await | upstream is what is wanted; whoever asked is told | `LiveQuotes` |
| Alerts (`services/alerts/checker.py`, `routers/alerts.py`) | `last_fired_at`, `last_checked_at` per rule | load, judge, mail, commit, create, delete | mail before commit; three kinds of rules in one tick | mails a cooldown apart; every alert arrives | `AlertChecker` |
| Screening runner (`RL/screening_runner.py`) | job status | queue, run, fail | restart | no job stuck | a finding; planned |
| Autonomous portfolio, autonomous research, event scanner | allocations, jobs, events | sync, reweight, scan | rewrite what other tasks read | — | not launched (`main.py:191-217`), not modelled |
| Caches, schema bootstrap, refreshes, accounts | rows with an age; a flag | fetch, store | — | — | not modelled |

How they meet: the forward-validation runner writes the carry state from which
the execution tick computes its target legs; portfolios and their allocations
say which of them, with which weight; the tick, the two operator requests and
the strategy resume share the SQL database and nothing else; everything the
tick knows of orders and positions it asks of the broker, every time. Sweeps
and forward validation meet in the engine: both run its step function. The
background runners are tasks of one process (`main.py`), each running its
blocking work in a thread, so every two of them interleave at their database
accesses and network calls; live quotes alone stay on the event loop and
interleave at awaits. The process is restarted often (`main.py:192-194`), and
nothing but the database outlives it.

## Modules

**`OrderPlanning`** — `targets.py` as operators on integer dollars:
`AggregateTargets`, `ApplyCaps` (clamp, then scale), `PlanTicker` (one ticker of
`plan_orders`, with its early returns in the order of the code). Scaling
truncates toward zero where the code keeps a float. Price 0 is "no cached
close". Qty and value of a position are separate arguments, as in the code.

**`OrderLoop`** — `Tick` is `_rebalance_portfolio` whose accepted orders fill
before the next one. In between, `MaxMoves` times, signals change
(`SignalMoves`), the market moves and position values with it (`MarketMoves`),
and a refresh caches a close (`ClosesCached`). The two prices are apart:
`price`, the latest cached close, of any age or missing, is what the planner
counts a short's shares at; `market` is what they fill at (`Filled`). `rendered`
says how the six digits of an order's share count compare with the position,
which decides what a full close leaves (`Closed`). A ticker is *named* when any
strategy has a leg in it, also when the legs net to zero. It answers what
repeating the planner achieves when nothing fails.

**`ExecutionControl`** — `halt` and `resume` as what they are: open a session,
`get_control` (with its create path on an empty table), then a commit of what
the unit of work sees as changed (`Flush`). A tick is a third kind of session
that may halt, for a breach or a blocked account. `Abort` is a failed commit or
a crash. The primed columns are the three that decide anything.

**`ExecutionRunner`** — the tick as a program counter with one action per
database access or broker call: `TickStart`, `Reconcile`, `ReadAccount` /
`HaltOnAccount`, `CancelOnHalt`, `ReadClock`, `ReadPositions`,
`ReadOpenOrders`, `PlanPortfolio`, then per intent `LogIntent` (commit of the
row), `Post`, and `Accepted` or `PostFails`. Beside it the broker (`Deliver`,
`Fill` one share at a time, `Expire`), the operator (`Halt`, `HaltCancels`,
`Resume`), signals (`Retarget`) and `Crash`, which keeps what is committed.
`cancelling` is the `/halt` request between its commit and its cancel. The
variables under "History" are read by properties only: `torn` (tickers whose
position moved between the two snapshot reads), `adrift` (planned while an
order was on the wire), `lo`/`hi`, `wanted`, `late`.

**`StrategyBreaker`** — inside a tick: `LoadTargets` (frozen legs or the
signal), one `Record` per strategy with its own commit (ledger, verdict, halt,
freeze), then `Trade` with the legs of freshly pulled strategies swapped.
Around it `ResumeStrategy`, `Drifts`, `DayPasses`, `Crash`.

**`WalkForward`** — `step_one_day` of the engine as `StepOneDay`: the position
rule (`ZScoreRule` or `MomentumRule` on a reading of the day), `NextCarry` and
`ClosedTrade`. `WalkThrough` folds it over days, `RunWalkForward` is the batch
backtest from a fresh state. Floats (returns, equity, costs) are left out.

**`TrackRecord`** — the abstract specification of a registration: a record of
days that starts with one day and grows at its end in order, a status that
follows the record, `Begin`, `Count`, `Park`, `Withdraw`; nothing about passes.

**`ForwardValidation`** — the row and up to two *passes* over it. A pass is a
tick or the backfill script: `Load` (snapshot of the active row), `Fetch` (the
frame, `RowsToProcess`, `UnrecoverableRows`), `Check` (the row read again and
compared), `Commit` (`Flush`: only columns that changed since the read), or
`Abandon` for failures, crashes and dry runs. Around them `Register`, `Delete`,
`Park`, `DayPasses` and `Publish` of bars, also late ones. `Promise` is
`TrackRecord` with `days <- row.days`, `status <- row.status` and `intact` false
from the first write that landed on one it did not know of (`torn`).

**`CrossSectionalValidation`** — `Load`, `BuildPanel` (the outage check on the
newest row), `Process` (drift check, `Advance` over the rows, one commit), with
`Fail` and `Deploy` (a restart, perhaps with another definition), the owner
(`Register`, `Delete`, `Retire`) and the panel (`DayPasses`, `Repair`).
`StepOneDay` is `step_one_cross_sectional_day`: realize the book held, charge
what was pending, then reform if the hold is over. A book is the day it was
formed on. `Replay` is the batch backtest the record is compared with.

**`SweepRunner`** — `Load` plans a batch (`PlanBatch`, round-robin from
`Cursor`), `MarkJobsRunning`, then every unit on its own: `Lookup` of the input
hash, `Raise` or `CountCompleted`, `MaybeComplete`; `MarkComboFailed` when all
have ended. `CompletionRaises`, `DieEarly` and `Die` are the faults, `upset`
remembers one that left bookkeeping undone, `counts` how often a combination
was counted.

**`LiveQuotes`** — one action from one await to the next: `Subscribe`, then
`ReleaseOne` and `AddOne` per ticker, `Activate` when the snapshot arrives,
`ResendAll`; `End` cancels a reader wherever it is, `LeaveOne` and `Left` are
`unsubscribe_all`. `LinkUp`, `ResendUpstream`, `LinkDown` and
`OnUpstreamTrade` are the Finnhub connection. `cutOff`, `orphaned` and
`strayed` are history: releases and activations that a cancellation cut off,
and tickers released, or found unknown, once a reconnect had copied them to the
list it subscribes.

**`AlertChecker`** — a tick as phases `price`, `risk`, `macro`, each loading its
rules (`LoadPrices`, `LoadRisk`, `LoadMacro`) and judging them one session at a
time (`Judge`, `Evaluate`); `Fire` is event, stamp, mail and commit.
`NoValue`, `NotComputable`, `MailUnrecorded` and `Die` are what fails. Times are
ages.

`MC*` modules hold the instances that need definitions of their own; the other
runs check a module as it is, with values from the configuration. `*_proofs`
modules hold the theorems, one per component, with `LiveQuotes` and
`AlertChecker` in one: for that the specification of `AlertChecker` is
`AlertSpec`, its types `AlertTypeOK`, and so on.
`OrderPlanning` is shared by the three modules that trade, `WalkForward` is
what `ForwardValidation` steps with.

## Runs

| Run | Question | Bounds |
|---|---|---|
| `planning` | Do targets keep the ceilings and orders their shape, how far can an order overshoot or flip, and does repeating the planner settle? | 2 strategies, 2 tickers, notionals -9, 0, 7 around ceilings 8 and 11, minimum order 2, market 2 or 3, cached close 0, 2 or 3, holdings -6 and 0, 2 moves |
| `control` | What do halt and resume guarantee when their read and commit interleave? | 2 requests, 1 tick, 3 days |
| `runner` | Safety of the tick against broker, operator and crashes | 1 portfolio, 2 tickers, 2 orders, batch 1, targets 0 and 1, a hand-held short, POST timeouts |
| `runner_live` | Does a halt stop the loop, is the log reconciled past a row that can never be read? | 1 ticker, 2 orders, batch 2, row 1 unreadable |
| `breaker` | Does the breaker count days, freeze once and open nothing? | 2 strategies on one ticker, legs -1, 0, 2, 3 days, window 2, history 2 |
| `validation` | Is a registration's record the backtest of its days, without hindsight or a silent gap, and does it implement `TrackRecord`? | 2 passes (symmetric), days 4 to 7, fit window 1, price window 3, catch-up 1, threshold 2, 2 registrations, states within `Whole` |
| `sweep` | Is every combination run and counted once, does no job starve, does every job complete? | 2 jobs of 3 and 2 combinations, one in common, batch 3, 2 faults |
| `sweep_restart` | Does a completed job stand for attempted combinations? No. | same, 1 fault |
| `quotes` | Is upstream what is wanted, and is everyone told? | 2 browsers, 1 valid and 1 unknown ticker, 3 requests, 1 lost connection |
| `alerts` | Are mails a cooldown apart, does every alert arrive? | 1 rule of each kind, cooldown 2, staleness 2, 1 fault |
| `panel` | Is the cross-sectional record the batch replay, does it graduate on complete holds, does it catch up? | 1 registration, days 3 to 7, holds of 2, catch-up 2, day floor 1, 2 definitions, 1 fault |
| `panel_outage` | Is an outage ever realized as a trading day? Yes. | same |

Why these are enough to be interesting: two requests and a tick are every pair
of actors on the control row, and three days separate "before", "on" and
"after" a breach; two orders are the fewest with a double order or a row that is read beside one that never is; a market half as high again
as a cached close is enough for an overshoot, a flip and a ceiling passed, and a
short of 6 for two sizes of order at each; two tickers let one portfolio have one intent submitted and one to
come; two strategies with unequal opposite legs are the fewest with a split.
Two passes are a tick and a script, or a tick that outlived its process and the
next one; a price window of three over four further days leaves gaps longer
than it, and a catch-up of one makes catching up take several ticks; the
readings (`Swing`) enter, hold, lose the fit and enter the other way. Three and
two combinations with batches of three give a batch of both jobs, one that ends
a job and one left over. A hold of two over five rows gives two complete holds
and a formation after them. One fault per behaviour is enough for every fault
to hit every step, and for the runs under fairness it is what "faults come to
an end" means. `sweep` has two, because it takes two for the counters of a job
to go past its total while the job is still active (see `SharesAreFair`).

`Whole` leaves out the states after a torn write of `validation`; all its
properties but `NoHindsight`, which is proved of torn records too, are stated
for records that are not torn, and the step that tears is still checked. What a torn write does is `validation_race`.

Each passing run has for every property a changed definition in the module
(comments "Mutation:") under which the property fails; the mutated operators
are used by no specification.

### Further configurations

These are kept to be run by hand (`tlc -config X.cfg M`). `planning_types`
passes: the invariants of `OrderLoop` and `HandHeldUntouched` with hand-held
longs and shorts, all proved as well. The others show a statement of the
repository violated; `PROJECT.json` quotes each under "findings".

| Configuration, module | Violated statement |
|---|---|
| `planning_flip`, `MCOrderLoop` | no order takes a position through zero (`NeverFlips`) |
| `planning_ceiling`, `MCOrderLoop` | no order takes a position past the per-ticker ceiling (`OrdersKeepCeiling`) |
| `planning_close`, `MCOrderLoop` | a full close leaves nothing and is not refused (`ClosesAreExact`) |
| `planning_gap`, `MCOrderLoop` | the orders close the gap (`GapsClose`) |
| `control_lost_halt`, `MCExecutionControl` | a halt always halts (`HaltAlwaysTakesEffect`) |
| `runner_stale`, `MCExecutionRunner` | the snapshot is never stale (`SnapshotNeverStale`) |
| `runner_owners`, `MCExecutionRunner` | the ceilings hold with two live portfolios (`CeilingHolds`) |
| `runner_unaudited`, `MCExecutionRunner` | every order's end reaches the log (`EveryOrderAudited`) |
| `runner_starved`, `MCExecutionRunner` | every row the broker answers for is reconciled (`EveryReadableRowServed`) |
| `breaker_holds`, `MCStrategyBreaker` | a pulled strategy trades nothing (`HaltedNeverTrades`) |
| `breaker_shared`, `MCStrategyBreaker` | a share of a position is bounded by position and leg (`SplitStaysBounded`) |
| `breaker_relapse`, `MCStrategyBreaker` | a resumed strategy stays resumed (`ResumeLasts`) |
| `validation_first`, `MCForwardValidation` | a record holds only days published after its registration (`RecordStartsAfterRegistration`) |
| `validation_gap`, `MCForwardValidation` | a day reported as lost can be recovered (`LostDaysStayRecoverable`) |
| `validation_race`, `MCForwardValidation` | tick and script never take days out of a record (`RecordNeverShrinks`) |
| `sweep_stuck`, `MCSweepRunner` | a job worked off completes (`WorkedOffMeansCompleted`) |
| `quotes_orphan`, `LiveQuotes` | a subscriber without a quote has an activation under way (`NobodyWaitsForNothing`) |
| `quotes_stale`, `LiveQuotes` | a reconnect subscribes to nothing stale (`ReconnectNeverStale`) |
| `quotes_unknown`, `LiveQuotes` | a ticker's last subscriber takes its subscription along (`LastSubscriberUnsubscribes`) |

Most of them have a weaker form which does hold, beside them:
`FlipsOnlyOnStaleClose`, `OvershootsByRatioOnly`, `CapsHold` (of targets),
`Settles` (which lists where a gap stays open), `NoHindsight` (past the first
day), `UpstreamWanted` (unless strayed),
`HaltSticksUnlessOverlapped`, `ExposureWithinTargets` (off the torn and adrift
tickers), `OneWorkingOrder` for one portfolio, `Reconciled` (rows with an id that
can be read, with fewer unreadable ones before them than a batch),
`PulledOpensNothing`, `NoSilentGap`, `TrackRecordKept` (unless torn),
`EachCombinationOnce` and `EverySweepCompletes` (unless upset),
`EverySweepWorkedOff`, `Served` (unless orphaned).

### Fairness

`FairSpec` of `ExecutionRunner`: weak fairness of the tick as a whole, because
`run` is a `while True` that logs an error and goes on, and a restarted process
starts it again; strong fairness of `Reconciliation`, as the process does not die
in every pass before it commits; strong fairness of `Reads(i)` for each row `i`
outside `Unreadable`, that is, an order the broker can be asked about, if it is
in the batch again and again, is answered for now and then. Nothing is granted
of a batch as a whole, and nothing of the rows in `Unreadable`, whose read fails
every time, as for an order the broker no longer knows: they keep their place in
the batch, which has no rotation. `Reconciled` therefore asks only for rows with
fewer of them before than a batch holds, and `runner_starved` shows what happens
to the others. Weak fairness of `Deliver` and of `Fill \/ Expire` per
order, because a request reaches the broker or dies and orders are day orders.
No fairness for the operator, the signals or crashes. `OrderLoop` assumes only
that ticks go on.

`SweepRunner`: weak fairness of `TickStep`, the loop of `run` and the threads of
a batch, which all end; none for `Submit` or the faults, which are bounded.
`LiveQuotes`: weak fairness of each reader and of `LinkStep`, because a
coroutine that is ready runs, a REST call answers or times out, and the client
reconnects for ever; none for browsers, trades or the loss of the link.
`AlertChecker`: weak fairness of `TickStep` and of `TimePasses`: the checker
sleeps and ticks in a `while True`, and the clock goes on.
`CrossSectionalValidation`: weak fairness of `RunnerStep`, for the same reason;
`CatchesUp` asks something only of behaviours in which the registration can go
on from some point on, as no fairness of the data provider is assumed.
`ForwardValidation` assumes none: all its properties are safety.

## Proofs

TLAPS checks these for every value of the constants that meets the named
assumptions of the modules; they depend on no bound of the runs. Every safety
invariant and every action property of a passing run is the statement of a
theorem, and so is the refinement of `TrackRecord`. Inductive invariants were
checked with TLC on the instances of the runs before they were proved.

- `OrderLoop_proofs`. First the planner, for any prices and amounts: a clamp
  keeps sign and ceiling (`ClampHolds`); scaling by one factor with truncation
  toward zero brings the sum of any finite set of tickers under the total
  (`CapsRespected`); one order, counted at any cached close and filled at any
  market price, is of an accepted shape and leaves a position `Within` bounds
  (`OneOrder`): it moves toward the target, past it only on the short side of a
  market above the close and in their ratio at most (`WithinRatio`), and a long
  never becomes a short. Then the loop, whose types are inductive (`LoopTypes`;
  only a long position has a share count its order text can miss, since whole
  counts are exact): `CapsHold`, `ShapesAccepted`, `FlipsOnlyOnStaleClose`,
  `OvershootsByRatioOnly` and `HandHeldUntouched`. No bound on the size of a
  position is among them: where the market is above twice a close, a short's
  overshoots grow.
- `ExecutionControl_proofs`: the three properties of `control`, its types, and
  `OnlyResumeEnables` (only a resume that read a halted row turns trading on).
  The inductive invariant says what each session may still conclude from the
  row it read: a resume that passed its check stands on a breach of an earlier
  day unless raced (`ResumingIsClear`), a halt that read "halted" and was not
  overlapped still finds it (`HaltingReadHolds`), a ticking session read an
  enabled row.
- `ExecutionRunner_proofs`, part one, for any number of portfolios: types,
  `WriteAhead`, `FinalRowsAgree`, `HandHeldUntouched`, `HaltOutlivesOneTick`,
  and `OrdersReachTheirTarget` (at one dollar a share an order leads exactly to
  the target or to zero). The strengthening ties the program counter to the row
  in hand (`TickShaped`), every plan to a past target (`PlansWanted`), and what
  was submitted under a halt to what the tick will not plan again
  (`LateShaped`).
- Part two, for a single live portfolio: `OneWorkingOrder` and
  `ExposureWithinTargets`. `Fresh` says that a snapshot whose two reads agree
  stays true of every ticker without an open order until the portfolio is
  planned, and the plan until each intent is posted. With two portfolios it is
  false, as `runner_owners` shows, so the assumption is needed.
- `StrategyBreaker_proofs`: `TripsOnDays`, `FrozenStays`, types and
  `PulledOpensNothing`. The invariant says that a ledger has one row per day
  (`OnePerDay`; a row is only appended when the last one is of another day, and
  days do not come back), so the number of rows the breaker judges is a number
  of days; and that a tick which has not recorded a strategy yet knows of every
  halt (`ReadIsNoOlder`), so none is judged, and frozen, twice. `Typed` adds the
  types. That a split of a position is a whole number needs its divisors: the
  net of the legs where it is not zero, and else their gross, which is at least
  the leg that is asked for (`SumCovers`); that a ledger stays within
  `HistoryLimit` needs the size of what trimming leaves (`TrailingIsShort`). That
  a pulled strategy opens nothing is about one step: alone on its ticker it is
  frozen at what is held there (`LoneExposure`), and capping and planning take a
  position of that size no further (`PulledShrinks`).
- `ForwardValidation_proofs`, part one: the refinement `Spec => TrackRecord`
  under the mapping above, and `NoHindsight` (at most the first recorded day was
  published when the registration was made). What carries it is that the rows
  of a pass ascend from the last day it loaded (`InOrderAscends`, `RowsAreDue`,
  `FirstRowIsNewest`), that a pass past its check that was not overtaken still
  sees the row that is stored (`PassAgrees`), and that a record ends with its
  `last_processed_date` (`RowFine`); a commit then appends (`CommitKept`), and
  every other action is a step or a stutter of `TrackRecord`.
- Part two, with a second invariant (`RInv`): the row is the batch backtest of
  its days (`RecordIsABacktest`), its trades are those days' (`TradesMatchTheRecord`),
  and no gap is silent (`NoSilentGap`). A run of the engine over a sequence of
  days is a fold; it is stated as a table of the states after each day, and
  running on from a stored state is shown to be running through all the days.
  `BacktestTrades` is about that run alone: trades cover exactly the days from
  entry to exit and do not overlap. `PassesCover` says which days a pass still
  has in hand or has reported between what it loaded and what it will write.
- `CrossSectionalValidation_proofs`: types, `RecordIsTheReplay` and
  `GraduatedOnCompleteHolds`, for any holding period. The replay looks up the
  book of a day among all formations; the runner has the state the last day left
  it. The invariant `IInv` meets between them: `Formation(j)`, the place of the
  formation whose book earns the j-th day, by arithmetic on the place, what each
  recorded day says of it (`DayFine`), and how far behind the stored state is
  (`CarryFine`). `DayAppended` takes it over one day, `WalkGoesOn` over the
  rows of a tick, which go on from the last recorded one without leaving a row
  out (`RowsAreNext`), `ReplayIs` to the replay; `HeldThrough` counts the days
  of a hold that is over. `TickFine` says that what a tick loaded is still the
  row's, or is another registration's and is not written. Two action properties
  follow that no run checks: a recorded day is never changed or dropped
  (`RecordOnlyGrows`), and a tick that steps a registration behind its panel
  moves it on and leaves no row out (`TickMovesOn`), which is what a proof can
  say of `CatchesUp`.
- `SweepRunner_proofs`: types, `EachCombinationOnce` and `FairShare`, for any
  grids and any batch size. As long as no fault left bookkeeping undone, the
  combinations counted and those in work are together the first ones of the
  grid, and the two counters are the number of the counted (`Books`); a batch
  takes the next ones without a gap (`BatchHasNoGap`), so a completed job has
  counted all. For fairness the units of a batch are ordered by round, and an
  earlier round is complete before a later one begins (`EarlierRoundsFirst`,
  `BatchIsFair`). The attempt showed that an earlier form of the property, "or
  its share is all it has left", is false when faults have taken a job's
  counters past its total: it has less than nothing left. The property now says
  "at least", and `sweep` reaches such states.
- `QuotesAndAlerts_proofs`, live quotes: types, `NothingMissed`,
  `UpstreamWanted`, `SubscribersAreClients`. The first two stand together on:
  what is cached is wanted, what a reconnect has still to ask for is wanted or
  strayed (the two cases of `quotes_stale` and `quotes_unknown`), and a link that is down has nothing (`Upstream`). The third on
  `Memory`: a subscriber is remembered by its own list, by its list of releases,
  or in `cutOff`.
- The same module, alerts: types and `CooldownHolds`. A rule's stamp is no older
  than its last mail unless that mail is unrecorded (`RowRemembers`), so what is
  not in its cooldown has not been mailed within one.

Types of `OrderLoop`, `ExecutionControl`, `ExecutionRunner`, `LiveQuotes`,
`AlertChecker` and `SweepRunner` are proved and no part of a run.

**Induction.** The library's induction theorems take a predicate, which no
backend can instantiate. Where a proof needs induction (division, sums, folds
over days and tickers, the rows of a tick), it is over a set: a set of naturals
that holds 0 and the successor of each of its members is `Nat`
(`NatInductionBySet`, from the well-foundedness of `<` and `WFMin`), applied to
the set of sizes at which the statement holds.

**Assumptions.** Those a reader may want to check against the code: the fitting
window of a registration is positive (`app/schemas/forward_validation.py` asks
for 60), the first day of a behaviour is within its calendar, strategies and
tickers are finite sets, a ledger's `HistoryLimit` is at least the breaker's
window and its minimum of days. `ExposureWithinTargets` and `OneWorkingOrder`
assume one live portfolio.

Model-checked only: liveness (`Settles`, `HaltStopsTheLoop`, `Reconciled`,
`EverySweepCompletes`, `EverySweepWorkedOff`, `Served`, `EveryAlertArrives`,
`CatchesUp`), as the prover has no reasoning about fairness and ENABLED; and the
violated statements, which are counterexamples.

## Abstractions to know of

- `ExecutionRunner` and `StrategyBreaker` price a share at one dollar, so qty
  and notional orders coincide there; prices are `OrderLoop`'s.
- In `OrderLoop` an order fills in full, at the market price at which its tick
  valued the position; between ticks the two prices move independently. Share
  counts of a long are not numbers: `rendered` says whether the six digits they
  are sent with are exact, too few, which leaves a `Dust` below the minimum
  order, or too many, which the broker refuses (as targets.py:193-194 implies).
  Whole counts of a short are sent exactly, up to six digits. A position keeps at
  least one dollar of value when its price falls.
- In `ExecutionRunner` a target of zero is a ticker not named. A flat signal
  returns no legs in the code too; legs that net to zero are `OrderLoop`'s.
- What a human does in the account is the initial position; the model's human
  does not trade later.
- Intents of a portfolio are submitted in any order; the code sorts tickers.
- A missing credential, a closed market and a failed read end the tick alike
  (`ReadFails`). The observability columns, slippage and mails' texts are left
  out.
- `PlanPortfolio` is one step, though the code commits skipped rows and reads
  targets in several: nothing between them reads what it writes. Skipped rows
  matter only for which tickers are managed.
- A portfolio with more intents than the log has room for submits none
  (`Room`): a bound of the model, not of the code.
- A day's return is -1, 0 or 1; over at most fifteen such days the breaker's
  two conditions, Sharpe at most -1 or a steady loss, are both "the sum is
  negative". Shares of a position are truncated to whole dollars.
- In `ForwardValidation` a bar is there or not; a late bar that falls behind
  `last_processed_date` is skipped for good, as in the code. A row that is
  parked between load and check gets one more pass, since the code compares
  `last_processed_date` only. Ids are given out once; SQLite may reuse the id of
  a deleted row, which the model leaves out. A dry run is `Abandon`.
- A tick that is still in its thread when the next process starts is the second
  pass of `ForwardValidation`. For sweeps and the cross-sectional runner
  overlapping processes are not modelled.
- In `CrossSectionalValidation` the read of the row and its commit are one step:
  there is no comparison between them in the code, and nothing else writes the
  columns but the owner's requests. A row retired in the middle of a tick gets
  that tick's days, and one that is found drifted is parked over "retired", as
  in the code. A book's weights, costs in basis points and the formation
  counters are left out; registrations of a family share only the panel.
- In `SweepRunner` a backtest is its input hash; whether it raises is free. The
  counters are increments in SQL, so one commit is one step.
- In `LiveQuotes` messages reach Finnhub in the order of the calls. A put on a
  client's queue never waits, since the queue is unbounded. Prices are left out,
  so a tick and a snapshot are the same message.
- In `AlertChecker` a rule's threshold is crossed or not; times are ages counted
  up to the bound nothing depends on beyond. The mail is sent when `send_email`
  was called, whatever it returned.

## Not modelled

- The numeric research code, most of the 218,000 lines under `RL`: one-shot
  studies (signals, regressions, bootstraps, Sharpe ratios, cost models) over
  data frames of floats. They keep no state between calls and run alone; a
  finite model of float statistics would check nothing of them. Therefore the
  share of the repository's lines the modules stand for is small, and stays so.
- The autonomous portfolio and research runners and the event scanner, which the
  deployed program does not start (`main.py:191-217`).
- The screening runner: a job passes through one thread once. Its hazard, a
  restart that leaves the job running, follows from the one query that loads
  jobs and is recorded as a finding.
- The live portfolio switch, the caches, the schema bootstrap, the refreshes,
  accounts and the slippage report; the first three are in the plan.

## Plan

1. `LivePortfolios`: `is_live`, allocation edits and graduation under a running
   tick, composed with `ExecutionRunner`'s set of live portfolios.
2. `ScreeningRunner`, `SchemaBootstrap`, the price cache; mails of the execution
   path.
3. `ExecutionControl` shown to implement the one-bit switch `ExecutionRunner`
   uses; an abstract specification of the execution path ("position follows
   target, at most one order per ticker").
4. Proofs: the refinement of 3; what the other liveness properties rest on and a
   proof can say, as `TickMovesOn` does for `CatchesUp` (that a pass of
   `ForwardValidation` with rows to process moves the record on, that a batch of
   a sweep leaves less work).

Where a later module needs room among the runs, `sweep_restart` and
`panel_outage` join the further configurations first.
