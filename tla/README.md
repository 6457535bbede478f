# Verification of QRE 0.7.0

TLA+ models, TLC runs and TLAPS proofs for the Python program in `src/`
(`app/`): a research engine that follows crypto markets over a public REST API,
classifies every closed bar and records the results in SQLite. No part of the
program places orders.

## 1. Inventory

| Part | State it keeps | Operations | Talks to | What is hard |
|---|---|---|---|---|
| Market monitor (`app/monitor`) | per unit: status, last processed bar, attempts, backoff; per series: mark `synced_through`, `warmup_done`; API status, disabled symbols, stop flag | `tick`, `_visit`, `_process`, `_sync_series`, the structure and setup steps, `run`, `finish` | ingestion, services, snapshot stores, run registry | retries across polls, shared series, kill at any line, errors outside `try` |
| Supervisor (`app/cli/supervisor.py`) | consecutive failures, restart times, the child, the stop flag | `run`, `_watch`, `_kill`, `_shutdown_child` | `monitor run` as a child process, the registry through a read-only probe | hang or slow, crash loops, Ctrl+C anywhere, clocks and sleep |
| Run registry (`app/storage/monitor.py`) | one row per run: heartbeat, status, finished, stop requested | `start_run`, `heartbeat`, `request_stop`, `mark_abandoned`, `finish_run` | monitor, supervisor, `monitor stop` | written by several processes |
| Ingestion (`app/data/backfill.py`, `app/storage/market_data.py`) | candles, instruments, funding, backfill runs | `backfill`, `sync_instruments`, `upsert_*`, `record_run` | exchange adapter, store | stored but not recorded, conflicts of values, gaps |
| HTTP client, Bybit adapter (`app/data/http.py`, `app/data/bybit`) | pacing, metrics | `execute`, pagination | exchange | retries, rate limits, pages that overlap |
| Data quality (`app/research/quality.py`) | validated series and its views | `prepare`, `tail`, `upto`, `assess` | features, engines | views must equal a fresh load |
| Snapshot stores (`app/storage/{regime,structure,setup,features}.py`) | snapshots, events, conflicts | `save` | monitor, research | idempotency keys under retries |
| Structure and setup engines (`app/research/{structure,setup}`) | none between calls; a replay inside | `analyze`, `evaluate` | stores | replay must not look ahead |
| Regime engine (`app/research/regime`, `service.py`) | a cache of features | `snapshot`, `analyze` | candles, both stores | cached features, two writers, an upgrade |
| Research lab (`app/research/lab`) | datasets, replays, outcomes, backtests | pipeline stages | stores | data that move between reads, order of events inside a bar, leakage between splits |
| Strategy and risk (`app/strategy`, `app/risk`) | equity, latches, open positions of a run | `decide`, `evaluate` | replays | latches and limits over long runs |
| Accounting (`app/domain/{accounting,execution}.py`, `app/storage/repositories.py`) | fills, legs, funding, orders | `apply_fill`, `link_fill`, `load`, `transition` | database | duplicates and reordering |
| Writer, database (`app/storage/{writer,database}.py`) | one connection, a lock | `write`, `read` | all stores | nested and failing transactions |
| Safety gate, settings (`app/execution/safety.py`, `app/config`) | flags | validation | start-up | combinations of flags |
| Analytics, CLI, core, AI port | none | read-only reports, parsing | | |

`PROJECT.json` lists the same parts with what is modelled of each, and the
hazards of the code line by line.

## 2. What is modelled

### MonitorHealth, Monitor, MCMonitor: the market monitor

`MonitorHealth` is constant-level: the record of a unit (`UnitState`), of a
structure or setup step (`StepState`) and the two functions that change them,
`Applied` (`_apply`) and `Stepped` (the bookkeeping that `_process_structure`
and `_process_setup` share).

`Monitor` is the loop. The thread's place is `pc`, its locals are `now`, `at`
(the unit being visited), `cx` (the context series being synchronised) and
`job`. One action is one call that can fail on its own:

| Action | Code (`app/monitor/runtime.py`) |
|---|---|
| `StartTick`, `SyncInstruments` | `tick`, `_sync_instruments` |
| `Visit`, `LeaveVisits` | `_visit` up to its calls, the loop over the units and its stop check |
| `SyncBase`, `SyncContext` | `_process` steps 1 and 2 with `_sync_series` and the backfill |
| `Analyse` | `_process` steps 3 to 7 and `_apply`; one disjunct per way it can end |
| `StructureStep`, `SetupStep` | `_process_structure`, `_process_setup` |
| `EndTick`, `TickCrashed`, `CheckStop`, `Wait` | the body of `run` |
| `Interrupt`, `RequestStop`, `Kill`, `Restart` | Ctrl+C, `monitor stop`, loss of the process, a new one |
| `Advance`, `Deliver` | time during requests, bars becoming available at the exchange |

The database (`stored`, `regimes`, `structures`, `setups`) survives `Kill`, the
rest does not. Times are natural numbers and a bar is named by its close. An answer
may leave out any of the bars it was asked for (`Fetch`): rows that cannot be read or
contradict each other and short pages only become entries of the report of `backfill`,
which `_sync_series` does not look at. The computer's clock is the exchange's here;
what happens to a bar that is not closed is the subject of `Ingestion`. Not
modelled: counters and texts of the health report, floating-point content of
snapshots, the event log. `spent`, `lost` (the bars that an answer left out) and `run`
are history variables.

### Supervision: supervisor, processes, registry

The supervisor is at the top of its loop, watching, pausing, shutting a monitor
down or done (`phase`). A monitor process boots, closes unfinished rows
(`MarkAbandoned`), registers, beats, and finishes, crashes or hangs. A healthy
monitor beats in time (`WarmUp`, `BeatEvery`): `Tick` waits for it. A sleeping
computer (`Sleep`), a failing probe (`BusyReads`) and monitors started by hand
(`RunByHand`) are switched on by constants. The supervisor may look at any
moment, which covers every check interval. `Supervisor.request_stop` has no
caller in the program and is left out; waiting and reading the heartbeat are one
step.

### TradeAccounting, TradeLedger, MCLedger: the trade and its tables

`TradeAccounting` translates `Trade` (`app/domain/accounting.py`): the order of the
legs, the replay with its average price, and `apply_fill`, `apply_funding`,
`close_with_reason`, `pnl` as functions from a trade to a trade; a call that raises
returns `Raised`. Decimals are exact ratios of integers.

`TradeLedger` holds the trade of a running process (`live`) next to the four tables.
Executions of one position (`episode`, fixed at the start) are stored (`AddFill`),
linked (`LinkFill`) and applied (`Fill`) by separate calls, in any order and any
number of times; the process may die (`Crash`) and load the trade again (`Restart`).
Orders, slippage and R are left out; symbols and sides always match.

### SetupEngine, SetupLog, MCSetups: setups

`SetupEngine` translates `evaluate` (`app/research/setup/engine.py`): per bar the
lifecycle of the setups (`Step`), the arms of pullbacks (`Touched`, `KeptArms`) and
the new triggers (`Triggered`), folded over the window of the replay (`Replayed`),
and what is shown of it. The four types differ only in two prices, `fail` and
`pass`. A bar carries the structure breaks of its close as data of the environment
(any break on any bar: more than `StructureEngine` produces); liquidity levels
follow its rule for sweeps (`Closed`). Distances given in ATR are constants.

`SetupLog` lets bars close and analyses save their result (`Save`), live, one bar
late or never. A result that the domain refuses saves nothing.

### DataPolicy, Regime, MCRegime: which data may be used, and the regime

`DataPolicy` translates `app/research/quality.py`: a validated series is the set of its
open times with the set of its breaks (`Prepare`), the views `TailView` and `UpTo` shift the breaks
as `tail` and `upto` do, `Assess` is the verdict with its severity, `Segments` the
segments of a dataset.

`Regime` is the path of one analysis: `Analyze`, `ReadSeries` (one transaction per
timeframe), the same for BTC as the background, `Snapshot`, and the two stores, each
with a look at the key (`CheckFeatures`, `CheckRegime`) and an insertion in a second
transaction (`InsertFeatures`, `InsertRegime`). Two processes analyse side by side;
`Deliver` adds late bars, `Upgrade` installs another release, which an analysis that
begins afterwards uses. A release has the latest formula of every feature (`Formulas`):
another one has other windows (`Need`) and other figures. The value of a feature is then
a constant of the formula and of the last bar it ends with, since bars never change;
thresholds, alignment, BTC and the worst quality are the code's. As in the code, the key
of the cache of features names the formulas (`FeatureKey`) and that of a regime does not
(`RegimeKey`). The rules and thresholds are named in the key of a regime, so one set of
them is enough; `FeatureEngine.evaluate` and the data policy are taken to be the same in
every release, though no key names them.

### StructureEngine, StructureLog, MCStructure: market structure

`StructureEngine` translates `compute`: pivots known `SwingRight` bars late
(`OnSwing`), their levels and the equal extremes these join or form (`WithSwing`, `Join`,
`Pair`), sweeps and losses of levels (`Interact`), breaks of pivots (`Breaks`), expiry,
replayed over the window. One side is written and the other is the same with negated
prices. `StructureLog` lets bars close (`CandleCloses`) and snapshots be saved at any of
them (`SaveStructure`); the log keeps the first row of an event and records a conflict
when a later window says otherwise.

### Ingestion, WriteOnce, MCIngestion: from the exchange to the store

One job per process: `Fetching` (attempts, pages walked backwards from the newest,
budget of pages), `Storing` and the transaction (`BeginWrite`, `Commit`), `Check`
(search for gaps), `Record`. A page may hold a row with broken content, a row whose
time is unreadable, or two rows of one bar, and an answer may come without a time
(`Spoilt`), so that the local clock decides what is closed; requests fail with classified errors; the
database may be busy or fail; a process may be killed anywhere. The exchange has a
clock of its own, which decides whether a bar is closed (`IsClosed`) when an answer tells
it, delivers bars late and corrects closed ones. `WriteOnce` is the abstract specification of every table: a key
that has a value keeps it; `StoreIsWriteOnce` is the refinement.

### ResearchLab, MCResearchLab: datasets and what is computed from them

A command reads, computes and writes in separate transactions (`Read`, `SaveDataset`,
`SaveReplay`, `SaveOutcomes`, `SaveBacktest`) while `Environment` adds rows or edits a
configuration file. An identity is the record of what it hashes. What happens in a
series is a constant (`SetupBars`: the bars at which a setup is created and confirmed);
a replay observes every setup that one of its valid analyses shows (`Observed`), and the
first analysis after a gap shows what came about while it warmed up. `Labels`,
`Boundaries` and `Splits` translate outcomes and splits with embargo.

### StrategyRisk, Simulator, Backtest, BacktestPair, Analytics, MCBacktest

`StrategyRisk` is the decision gate: what was known of a setup (`KnownLife`), the
checks of the strategy, the stops, the size and the limits, in the code's order.
`Simulator` has the fills, exits, funding and accounting of one position. `Backtest`
is the loop of Phase 9: at each instant first the decisions one by one (`Decide`), then
all exits and the equity (`BarCloses`), gaps, and the end of the data. `BacktestPair`
steps the loop of Phase 7 on the same bars, `Analytics` the reports over a finished
run. Prices and amounts are integers; slippage, fees and funding are amounts per unit.

## 3. Runs

| Run | Question | Bounds |
|---|---|---|
| `MonitorOne` | retry budgets, owed steps, a stop is honoured | one unit with a 4-tick bar and 2 attempts, so all attempts of a bar fit between two closes; times 5 to 8 |
| `MonitorTwo` | no unit is starved; marks, stored bars and results across a kill | two units sharing BTC, times 4 to 7, one restart, one bar of BTC left out of an answer, failing records of backfills |
| `Supervised` | launches are justified and rare, only hung monitors are killed, abandoned ones are dead, lost ones are noticed | deadline at 5 of 6, an hour of 4, two Ctrl+C |
| `SupervisedTogether` | a second monitor, sleep, failing probes: nothing is left behind | 2 processes, 4 ticks |
| `Ledger` | order, duplicates and crashes of executions and of their tables | positions of 2 entries and 1 exit or 1 entry and 2 exits with every order of ids and every tie, four of four legs, one funding event, two reasons |
| `Setups` | setups do not depend on when they are analysed, the log passes its own audit | life of 2 bars, shown 1 bar more, 4 free bars of 9 kinds after 3 histories, 2 saved analyses |
| `Structure` | levels and breaks agree with each other and with what earlier windows saw | pivots of one bar on each side, window of 8, up to 4 free bars of 7 kinds after 3 histories, 9 bars in all, 2 saved snapshots |
| `Ingestion` | what "ok" means, final candles, walks that end, a store that is only added to | 4 bars in pages of 2, a range that begins before the listing, one bar that is late or corrected, 2 faults, a local clock ahead of the exchange's |
| `Regime` | one key, one regime; regimes have whole windows behind them; views equal fresh loads | two analyses by two processes, 3 late bars, 3 releases of which two have the same formulas, 3 requests |
| `Backtest` | stops are for good, nothing is seen early, exits are conservative, books and statistics agree, the gate reproduces Phase 7 | 3 symbols, 5 bars, days of 3 bars, 3 lists of setups, both modes of risk |
| `ResearchLab` | results belong to their dataset, conflicts have one of five causes, labels stay apart | 8 bars, 5 commands, one change of data or files |

`LedgerTies` shows a disagreement (section 6).

**Why the bounds are enough.** The monitor's instances have 1 or 2 attempts and 2
required bars because the code compares with these numbers only (`>=`, `==`): one
attempt below the limit and one at it, one bar at each end of the window. Two units
suffice for sharing, since the units interact through a series and the order of visits
only. In `Ledger` three legs are the shortest positions with a partial entry or exit,
and four the shortest that look closed before they are. In `Setups` the free bars and
the histories let a pullback be armed on the first bar of a replay, touched on the
last bar of its arm and analysed on the last bar on which it is shown; two analyses are
a first record and one that could contradict it. With a life of 2 bars a boundary
cannot be tested three times, so a rejection that vanishes (section 6) needs a longer life
than the run has; `TriggersAreNotForgotten` and the second part of `LogPassesAudit` leave
range rejections out, and the theorems hold for every life. In `Structure` the window moves on
once, past the first bar of each history; in the third history that takes a pivot out of
the window whose break lies before another one. In `Ingestion` the range takes two pages, of which the late
bar shifts the border, and two faults are one in the response and one in the store. In `Regime` the
missing bars are one in front of the longest window, one inside the higher timeframe
and the last of BTC, so that every severity and every alignment occurs; the releases
differ in the version alone or also in a formula whose window is not the longest, so that
the key of a regime stays the same while the regime does not. In `Backtest`
the setups of a symbol follow one another on both days, so that a loss may stop the run
before the next one is decided. In `ResearchLab` five commands are a dataset, a replay, what depends
on it, and two of them again after the change; a setup is created and confirmed in the warm-up
behind a gap and first shown after it.

`CHECK_DEADLOCK FALSE` where the system stops: a finished run, the end of the clock,
of the bars or of the commands. The ledger never stops and is checked for deadlock.
`Regime` is symmetric in its two processes.

**Fairness.** `Monitor!FairSpec` only assumes that the thread takes its next step
when it can; calls that never return are the supervisor's concern. Restarts,
deliveries and the operator are not fair. `Supervision!FairSpec` assumes that the
supervisor's loop runs, time passes and a monitor that neither hangs nor crashes
goes on (otherwise it would be a hung one, which is an action of its own).
`SupervisorRecovers` only speaks of monitors lost while the bounded clock still
has time for the limit to pass. The other models have no liveness: nothing in the code
makes a caller call.

**Properties and mutants.** Each property has a changed form of a mapped definition
that it must refute; these forms stand before the definition and are named for what
they change (`FingerprintOfFewer`, `FreshReplacing`, `PortfolioForgetting`, ...). No run
uses them otherwise.

## 4. Proofs

Eight modules; `ReplayProofs` holds two components, whose proofs share the induction over
the bars of a replay. Each theorem holds for all constants that satisfy
the named assumption of its module. The assumptions only say what the program's
configuration and types refuse otherwise: positive counts and durations, candles that
open at a multiple of their timeframe with a range that contains open and close
(`Candle.__post_init__`, `domain/market.py:138-152`), splits and limits inside the
ranges of `lab/config.py` and `strategy/config.py`.

`MonitorProofs` (`ConfigAssumption`, `MonitorAssumption`):

- `TypeCorrect`: `TypeOK`, a conjunction of named parts, proved per action; lemmas give
  the types of `Applied`, `Stepped` and the synchronisation.
- `MarksAreStored`: `MarkIsStored`. Inductive with `TypeOK`: stored bars only grow, and
  each of the two places that set the mark sets it to a bar found in the store.
- `OkIsTrue`: `OkIsPersisted`. Only `Classified` records "ok", in the step that adds
  the snapshot.
- `AttemptsAreBounded`: `AttemptBudget`. Not inductive: `spent` counts for ever while
  `attempts_for_bar` is reset. `BudgetInv` says that the spent attempts of the current
  bar equal its counter until the bar is given up, that bars never attempted spent
  nothing, that older bars are within the budget, and that bars are attempted in order;
  the last needs that the clock of a tick never goes back (`JobInv`).
- `NoUnitIsStarved`: `TickCoversUnits`. `CoverInv` says it of the units before the
  cursor of the loop; a unit is not uncovered by later ones because they change only
  their own record and the disabled symbols only grow within a tick.
- `OnlyLostBarsAreMissing`: `HolesAreLostBars`. `HoleInv` speaks of every series at every
  step and not only of the one being processed: a bar behind the mark is stored, or was left
  out of an answer to a request that covered it (`FetchFacts`), if it lies in
  the window of the newest target that any unit can have had (`Newest`), so it survives a
  sleep and the targets of other units.
- `StepsAreAlwaysSettled`: `StepsAreSettled`. `StepInv` follows the bar from its regime
  through both steps and back to the next visit, and relates the attempts of a step to
  those of the regime (`UnitSteps`).

`SupervisionProofs` (`SupervisionAssumption`):

- `SupervisorLeavesNobodyBehind`: `OnlyTheWatchedLives`, and `RestartsAreBounded`:
  `LaunchesAreJustified`. One invariant, `IInv`: processes are numbered in the order of
  their launches (`InOrder`), and every child that is over was launched before a restart
  that the guard still remembers or that is an hour old (`GuardInv`).
- `ClosedRunsAreDead`: `AbandonedIsDead`, if nobody starts a monitor by hand (`~ByHand`).
  With one, the property is false: `MarkAbandoned` closes the row of a living monitor.
- `HealthyMonitorsAreSpared`: `OnlyHungIsKilled`, if besides the computer does not sleep,
  the probe does not fail, and a healthy monitor registers and beats within the limits
  of the policy. Each condition is needed: the age of a wall-clock time decides.

`LedgerProofs` (`LedgerAssumption`):

- `OneExitReason`: `ReasonsAgree`. Not inductive: a trade without a reason could accept
  one that differs from the row. `ReasonInv` adds that a running process has the reason
  of the row once there is one.
- `ClosedTradesNetTheirCash`: `ClosedNetIsCash`. `LedgerInv` says that the tables hold
  executions and funding of the episode (`TablesInv`) and that a running trade holds
  distinct ones in the order of their keys (`HeldInv`). The replay of the legs then
  conserves money: realized profit less fees, plus what the open quantity cost at its
  average, is the cash of the legs so far (`Conserved`), and a closed trade has no open
  quantity.
- `LaterFillsNeverReopen`: `OnlyEarlierFillsReopen`, from the same invariant; a fill behind
  the last leg meets the open quantity, which is zero.
- `CompletePositionsAreRecovered`: `CompleteIsRecovered`. The rows, sorted as the loader
  sorts them, are the prefixes of the episode one after the other, so no leg exits more
  than is open, and the last one leaves nothing.

The folds of these replays are recursive functions chosen by `MapThenFoldSet` and
`FoldLeft`. `FoldExists` proves once that such a function exists, by well-founded
recursion over finite subsets, so that the equation of the fold may be used; facts about
folds are then proved by `SubsetInduction` or over the length of the list, with the
hypothesis as a set or as a named operator.

`IngestionProofs` (`IngestionAssumption`):

- `StoreImplementsWriteOnce`: `Spec => StoreIsWriteOnce`, the refinement of `WriteOnce`.
  Only `Commit` changes the store, and it gives values to absent keys (`StoreSteps`).
- `CandlesFinalOrGuessed`: `CandlesAreFinalOrGuessed`. A closed row that is neither final
  nor guessed by the local clock never stands alone (`Sound`) from the page over the walk,
  so `Deduped` removes it.
- `OkRunsAreComplete`: `OkIsComplete`. `OkInv` adds that the verdict "ok" of a job that is
  about to be recorded is still true; rows never go away.
- `WalksAreFinished`: `WalkIsNotLost`, if there are at most two pages' worth of faults,
  which is what the two spare pages of `max_pages` (`bybit/provider.py:98`) pay for.
  `WalkInv`: the pages so far, less a row for each fault, lie between the end of the range
  and the cursor; `BudgetIsEnough` is the arithmetic of the rounded-up budget.

`ReplayProofs`, setups (`SetupConfigAssumption`, `SetupLogAssumption`):

- `LifecycleIsFirstEvents`: `OutcomeIsFirstEvent`, and `PullbacksAreFirstReturns`:
  `PullbackIsFirstReturn`. The replay is a function from the bars of its window to what was
  seen (`IsReplay`; `FoldFollows` ties it to the fold). Bar by bar, each setup has the trigger
  and prices that its bars fix (`IsBorn`), its log is the `Story` that the bars since then
  tell (first loss, first confirmation before it, end of life), and each arm is waiting for a
  return that has not come (`IsWaiting`). `BarSeen` is the step, `BarInduction` the rest.
- `VisibleStaysVisible`: `TriggersAreNotForgotten`. Replays of two windows are run side by
  side: what the longer one has of triggers inside the shorter, the shorter has, too
  (`Within`, `BarWithin`), and `2 * TTL + RecentClosed` bars reach back to every trigger of
  a setup that may be shown (`TriggerInWindow`). Range rejections are excepted: it is false
  of them.
- `NothingIsContradicted`: `NoConflicts`, range rejections included. The name of a setup and
  the bars fix the rest of it (`NameFixesSetup`; for a pullback because there is one first
  return), and they fix its history, of which a later analysis sees more (`StoryStays`).
- `TheLogPassesItsAudit`: `LogPassesAudit`. `LogInv`: every row was shown by a saved
  analysis, and every saved analysis has its rows. The events are then in the order of their
  ranks (`EventsInOrder`); that a confirmation and the end of the life never share a bar is
  what `IsLegal` refuses before anything is saved.

`ReplayProofs`, structure (`StructureConfigAssumption`, `CandlesAssumption`; the two
engines name no operator alike):

- `ActiveLevelsAreUntouched`: `ActiveIsUntouched`. `LevelsInv` says of every level of a
  replay that its price is the extreme of its first member and, while it is active, that no
  bar since then went beyond it. The step that is not obvious is `SwingsKeep`: a pivot that
  joins a level is one of those bars, so it cannot move the level outwards, and the first of
  a pair is still its outer edge.
- `BreaksAndLevelsAgree`: `BreakAndLevelAgree`, from the same invariant. A level of the
  last pivot lives from the bar that made it known, as the pivot's flag does, and a bar
  that closes beyond one closes beyond the other.
- `StructureIsTimeless`: `BreaksAreTimeless`. A replay of fewer bars is a prefix of a replay
  of more (`ReplayOfPrefix`), and events are only appended (`EventsInv`). Two windows are
  then replayed side by side (`WindowsAgree`): from the bar at which a pivot lies in both,
  they have the same last pivots with the same flags (`RefsAgree`), found the same breaks
  (`IdsAgree`), and give a break the same direction before it unless the shorter one knows
  none (`PriorsAgree`). What `RecentEvents` cuts off is counted by positions
  (`RecentIsShown`). `StructureTablesOk` is the invariant of the log: every row was shown by a
  saved analysis, and every saved analysis has its rows.

`RegimeProofs` (`RegimeAssumption`) begins with lemmas on validated series: what the verdict
"value" says of the bars (`WindowIsThere`), that it depends on the last bars only
(`VerdictOfLatest`), that a view of a longer load is a shorter load (`ViewIsSeries`).

- `OneRegimePerKey`: `SameInputsSameRegime`. The property speaks of refused saves only;
  `RegimeInv` says of every feature in a cache, in a process or under a stored regime that
  it is what the formulas and the bars named by its key give, up to the severity
  (`Explained`), and that these bars are in the table (`Entered`). For the features of a
  regime the formulas are those of its release, which its key does not name: bars and
  formulas fix the features, and these fix the regime.
- `RegimesAreOfTheirTime`: `PointInTime`, from the same invariant, `WindowIsThere` and
  `ViewIsSeries`.

`ResearchLabProofs` (`ResearchLabAssumption`):

- `LabelsApart`: `LabelsStayApart`, from the order of the rounded boundaries.
- `OnlyKnownConflicts`: `ConflictsHaveACause`. `LabInv`: a stored or refused result is what
  its identity stands for, up to what was read.
- `DerivedOnlyFromDatasets`: `DerivedFromItsDataset`. `DataInv`: a replay has the candles of
  its dataset and perhaps more, and whoever goes on has compared them again. It needs that
  a contiguous run of bars lies in one segment (`RunLiesInSegment`), and that whatever an
  analysis shows came about inside the run that it needs (`ShownIsUsable`): the constants
  say that a setup is not shown longer than the replay of an analysis reaches back.

`BacktestProofs` (`BacktestAssumption`, `SimulatorAssumption`, `GateAssumption`,
`UnitsAssumption`), of `Spec`, which every run of both loops satisfies (`PairIsARun`):

- `NoFundingTwice`: `FundingIsPaidOnce`. `SpansInv`: the positions and trades of a symbol
  follow one another, and a position has settled only what lies inside it.
- `StoppedForGood`: `StopIsForGood`. `StopInv` ties the decisions to the latches; an
  approval has passed both stops whatever the order of the other checks.
- `ExitsAreConservative`: `ExitIsConservative`. `ExitInv`: stop and target lie on their
  sides of the fill; then by cases over gap, stop and target on both paths of a bar.
- `NothingIsKnownBeforehand`: `NoHindsight`. Every operator of the gate gives the same for
  a setup and for its life cut at the decision (`EvaluateThen`, from `StatusThen` through
  the conflicts and confirmations): what it reads is `KnownLife`, which the cut keeps.
- `BooksAreBalanced`: `BooksBalance`. Four invariants: every setup is decided once, at its
  fact (`DecisionsInv`); the numbers of positions and trades together are `1..n`, each
  with the decision that entered it (`EntriesInv`); a fill is made at the fact, with a
  size and a risk above zero, and has a bar and a later close of its symbol behind it as
  soon as it is not new (`FillsInv`); without open positions the last equity is the
  initial one and the net of the trades (`EquityInv`). The size is positive because the
  risk engine has checked it, or, with a fixed amount, because the price and the stop are
  integers in units so small that the amount buys one (`UnitsAssumption`: the code divides
  Decimals and rounds nothing). The funnel follows by counting: the decisions are a
  bijection of the setups with a fact, their outcomes are split into the groups of the
  funnel, and the entered ones are a bijection of the trades. That the equity is a number
  needs the sums over sets (`SumsExist`, `SumsAreIntegers`).

**Only model-checked.** Liveness (`StopIsHonoured`, `SupervisorRecovers`) is out of the
prover's reach. Two properties of the backtest have no theorem: the statistics of a run
against one another (`StatisticsAgree`) and one run by two loops (`GateReproducesV1`).
They compare folds over different data (instants, trades, days, symbols), so that each
needs sums and folds over sequences to be regrouped by an induction of its own, not a
replay of the same bars from two starts. The first also checks, for the runs that both
loops make, that the funnel of Phase 7 adds up (`V1FunnelAddsUp`).

## 5. Plan

Done: all components, and theorems of the monitor, the supervisor, the ledger, ingestion,
setups, structure, regimes, the lab and the backtest.

Next, a theorem of the two loops of the backtest. Then the states of orders
(`execution.py`), once the program has a caller for them.

## 6. Disagreements found

Shown by a run, with the lines quoted in `PROJECT.json`:

- `LedgerTies`: a trade whose entry and exit share a time cannot be loaded when the
  exit has the smaller id (`repositories.py:147` against `accounting.py:82`).

Modelled, and the properties are stated so that they speak of everything else:

- `monitor stop` between two monitors of a supervisor is lost: `request_stop`
  (`storage/monitor.py:52`) marks the rows that are unfinished when it is called, and
  the supervisor launches the next monitor without looking. `V070_MARKET_MONITOR.md:108`
  promises a regular end without a restart.
- `_process` "Never raises" (`runtime.py:395`), but two reads of the store (lines 415
  and 439) are outside its `try`: an error there ends the whole tick.
- A rejection of a range suppresses the next one while it is open, so it depends on
  earlier ones without end, while `config.py:41` promises that every setup shown is
  identical across evaluations: one can vanish when the first of three leaves the replay.
- A setup confirmed on the last bar of its life expires on the same bar
  (`setup/engine.py:312`), and `domain/setup.py:81` refuses two transitions of one
  time: every analysis raises until it is no longer shown.
- The daily loss limit holds "until next UTC day" (`V070_PHASE9_STRATEGY_RISK.md:30`);
  the loop sums the trades of the day anew (`backtest.py:359-361`), so a profitable
  exit lets the gate trade again on the same day.
- `verify` is to "refuse to use a dataset whose stored inputs changed"
  (`dataset.py:99-112`); it does not look at funding, at the bars before the pinned
  range that the regime reads, or at the structure file. `ConflictsHaveACause` lists what
  a rerun may then contradict.
- "A stale result will not be returned" says `V070_FEATURE_ENGINE.md:41` of the cache
  of features; its key (`service.py:53`) covers one bar less than the series, so that a
  gap filled in front of the window leaves the old severity in the cache. No value
  depends on it (`SameInputsSameRegime`).
- "Same key with a different payload = non-determinism" (`storage/regime.py:27-36`; so
  says `V070_REGIME_ENGINE.md:83`): the payload of a regime snapshot holds the code version
  and the set of feature formulas, its key (`domain/regime.py:129-131`) neither. The same
  analysis after an upgrade is refused as non-deterministic, and when the release brought
  another formula (`features/spec.py:123-133` takes the latest) the regime itself may be
  another one under the same key. `SameInputsSameRegime` speaks of equal formulas.
- After an outage missed candles are fetched "без дыр", without holes
  (`V070_MARKET_MONITOR.md:102`). A row that cannot be read, contradictory rows or a short
  page (`parser.py:104-106`, `data/quality.py:39-48`, `provider.py:128`) leave a hole:
  `backfill` returns "ok_with_gaps" or "completed_with_issues" (`backfill.py:124-132`),
  `_sync_series` ignores that and moves the mark to the newest stored bar
  (`runtime.py:536-541`), and later requests start there. The bar stays missing until a
  restart. `HolesAreLostBars` says that there are no other holes.
- Whether a bar is closed is decided by the time of the answer and "not by the local clock"
  (`V070_MARKET_DATA.md:62`; `:64` and `V070_LESSONS_LEARNED.md:41` promise closed bars only).
  An answer without a time is tolerated (`parser.py:46-47`) and judged by the local clock
  (`provider.py:111`). If that is ahead, the moving values of an open bar are stored for
  good, the run may be "ok", and the correct values are later a conflict.
  `CandlesAreFinalOrGuessed` names this exception and excludes every other.
- Two contradictory funding rates of one moment: the last row is stored and the run is
  recorded as ok (`provider.py:169`, `backfill.py:189`), while contradictory candles
  are dropped and reported.

Documented, and bounded by `BreaksAreTimeless`: a later window may classify a break otherwise
(`V070_MARKET_STRUCTURE.md:93`, `:112`), because the break before it lies before the window.
It then changes between "bos" and "choch" or becomes unclassified, never the other way; breaks
and sweeps themselves are found again by every later window that holds their pivot. A break
may be missing from the log when `RecentEvents` others follow it before the next
saved analysis.

The two about setups were also reproduced with the engine itself on hand-built candles.
Described as hazards only: sleep and a failed probe kill healthy monitors; a second
monitor closes the row of a living one. Read but not modelled: a symbol whose name is
inside an unknown one is disabled with it (`runtime.py:506`); a setup snapshot without
setups has no regime in its key (`_empty`), so saving it twice with different regimes
raises.

## 7. Not modelled

- Formulas of features and statistics that only divide or order (means, percentiles):
  floating point, and nothing is decided by them beyond thresholds, which are modelled.
- The states of orders (`execution.py`, `OrderRepository`): no caller outside the tests.
- Updates of known instruments: the table changes from unknown to known only.
- The safety gate and settings, the AI port, logging, identifiers, rendering and
  parsing: functions of their arguments without state.
- Threads of `SerializedWriter`: every process writes from one thread. Transactions
  between processes are modelled in `Ingestion`, `Regime` and `ResearchLab`.

## 8. Running

`tlc -config MonitorOne.cfg MCMonitor`, `tlc -config Supervised.cfg Supervision`,
`tlc -config Ledger.cfg MCLedger`, `tlc -config Setups.cfg MCSetups`,
`tlc -config Structure.cfg MCStructure`, `tlc -config Ingestion.cfg MCIngestion`,
`tlc -config Regime.cfg MCRegime`, `tlc -config Backtest.cfg MCBacktest`,
`tlc -config ResearchLab.cfg MCResearchLab`; `tlapm MonitorProofs.tla`,
`SupervisionProofs`, `LedgerProofs`, `IngestionProofs`, `ReplayProofs`, `RegimeProofs`,
`ResearchLabProofs`, `BacktestProofs`.
