# Verification of the AI trading lab

TLA+ models of the trading research lab in `src/ai_trading_lab`, checked with TLC on small
instances and, where marked, proved with TLAPS for every value of the constants. Line numbers are
those of the source files; `PROJECT.json` maps every definition to the lines it models.

## 1. The system

| Component | State it keeps | Operations | What makes it hard |
|---|---|---|---|
| Backtest engine `backtesting/engine.py` | working orders, position per symbol, cash, fees, funding, last price per symbol, fills, ledger, equity curve | prepare orders; settle funding; update a mark and liquidate; apply a bar (select candidates, resolve OCO groups, fill, cancel, mark the close) | orders of one bar act on each other through position, liquidity and OCO groups; order of events at one timestamp; partial fills; a long history behind one average price |
| Analytics `analytics/metrics.py` | none (pure) | validate a result, rebuild trades, metrics | must agree with the engine's bookkeeping exactly |
| Signals `signals/compiler.py` | none (pure) | targets to market orders for the next bar | assumes what the engine then does with margin and liquidity |
| Strategies and benchmarks `strategies/`, `benchmarks/` | none (pure) | channel signals, controls, runners | no look-ahead; "controls finish flat" |
| Validation matrix and gate `strategies/validation_matrix.py`, `strategies/contracts.py` | recorded experiments | run cells, assess the family | failure half way, rerun |
| Experiment store `experiments/store.py` | SQLite registry, bundle directories | reserve, write, publish, complete, fail | concurrent recorders, crash between any two steps, two media that must agree |
| Artifacts `backtesting/artifacts.py`, `serialization.py` | JSON files | write once | exists-check and replace are two steps |
| Data lake `data/storage.py`, `data/manifest.py`, `data/loader.py` | raw, curated, quarantined files; manifests | write once, certify, resolve one version | crash, power loss, two ingestions of one window |
| Ingestion `data/pipeline.py`, `cli.py` | none of its own | fetch, normalize, validate, curate or quarantine, certify | failure between any two steps |
| Bybit adapter `data/adapters/bybit_v5.py` | page cursor | paginate backwards, retry | a venue that repeats, drops and fails |
| Validation `data/validation.py`, resampling `data/resampling.py` | none (pure) | checks on series, aggregation | gaps, duplicates, boundaries |

Calls go one way: the CLI drives ingestion, ingestion drives adapter, validators and lake; a runner
loads a dataset through the loader, lets strategy and signals produce orders, runs the engine,
analyses the result and hands everything to the experiment store. There are no callbacks and no
threads. Concurrency is between processes: two recorders on one registry, two ingestions on one
lake. Inside a run the difficulty is order: what an earlier candidate, event or bar leaves behind for
a later one.

Properties wanted of each part:

- *engine*: no fill before the order is active, never beyond limit, remainder, bar participation or
  (reduce-only) position; canceled means canceled; liquidation ends a symbol; an OCO group trades
  once; the bookkeeping is a cash-flow account;
- *store*: ids unique and monotone; COMPLETE means a published bundle with that hash; FAILED is
  final; every reservation is resolved;
- *lake*: a certified file is whole and is what was validated; a window resolves to one version;
- *adapter*: the result covers the window once, without gaps, or an error is raised;
- *signals, strategies*: decisions depend on closed bars only; the position follows the target;
- *matrix*: a verdict is only given over complete, distinct cells.

## 2. Plan

| # | Modules | Composes | Compared with | State |
|---|---|---|---|---|
| 1 | `Position`, `ExecutionModel`, `BacktestEngine`, `BacktestProperties`, `MCBacktest` | event loop over the execution rules | `CashFlowAccount` (refinement) | done |
| 1p | `SumLemmas`, `BacktestProofs` | | | every invariant of the engine and the refinement proved |
| 2 | `ExperimentStore`, `ExperimentProperties`, `MCExperiments`, `ExperimentProofs` | N recorders, SQLite, file system, failures, crashes | `ExperimentRegistry` (refinement) | all safety properties proved; left: power loss |
| 3 | `DataLake`, `ValidationMatrix`, `LakeProperties`, `MCLake`, `LakeProofs`, `MatrixProofs` | ingesters, loader, validation matrix and gate over one lake, kills, power failures | the validated rows of a version | all properties proved |
| 4 | `MarketSeries`, `VenueClient`, `VenueProperties`, `MCVenue`, `VenueProofs` | client over an external venue, validators and resampling over what it returns | the rows of the window, defined by sets | all safety properties proved |
| 5 | `Signals`, `SignalTrading`, `SignalProperties`, `MCSignals`, `SignalProofs` | strategies and compiler over `BacktestEngine` | the position follows the target | done and proved |
| 6 | `TradeAnalytics`, `AnalyticsProperties`, `AnalyticsProofs` | analytics over the engine's fills and curve | the engine's own books | trades, exposure, drawdown done and proved; daily returns and ratios left |

No safety property of a passing run is left without a theorem.

## 3. The backtest engine

### Modules

- `Position`: class `_Position` and `_additional_exposure`.
- `ExecutionModel`: the pure rules: acceptance of an intent, what a bar offers an order, execution
  price, fees, participation capacity, margin, liquidation threshold.
- `BacktestEngine`: the state machine. One action per iteration of a loop of the code:

| Code | Actions |
|---|---|
| `_prepare_orders` | `AcceptIntent`, `RejectIntent`, `StartEvents` |
| `_events`, loop of `run` | `NextEvent`, `NoEvent`, `Finish` |
| `_apply_funding` | `SettleFunding` |
| `_apply_mark`, `_check_liquidation` | `RefuseMark`, `ApplyMark`, `Liquidate` |
| `_apply_bar` up to its second loop, `_resolve_oco` | `OpenBar` |
| one iteration of that loop, `_fill_candidate` | `CancelCandidate`, `FillCandidate` |
| the rest of `_apply_bar` | `CloseBar` |

  `_State` is the variables; a working order carries its own rows of the ledger. The candidate list
  is the set `queue`; its order (standalone orders by client order id, then groups by name, each by
  id) is `Ahead`. A bar, mark or funding event is chosen when the loop reaches it, so that a model
  state never knows the future; optional events and missing candles are `NoEvent`.
- `BacktestProperties`: what is checked. `CashFlowAccount`: the abstract specification.
- `TradeAnalytics`: what `BacktestAnalytics` recomputes from the fills and the equity curve of a
  result: `_reconstruct_trades`, `_exposure_seconds`, `_drawdown_metrics`. `AnalyticsProperties`
  compares it with the books of the engine that produced the result.
- `MCBacktest`: instances.

### Representation

Prices are multiples of a quantum (a seventh of a tick in the instances), quantities are multiples of
a unit, rates are over `Scale`, and money is in quanta times units over `Scale`: fees and funding are
exact, as with `Decimal`. An average price is rounded down to a quantum, where `Decimal` rounds to the
nearest 28th digit; a tick of seven quanta and a bar that opens off the tick make the averages of the instances
seldom come out even, so the runs exercise the rounding. Symbols and client order ids are their rank in string
order. Latency and bar lengths are in one time unit. Leverage is a whole number.

### Runs

| Run | Instance | What it shows |
|---|---|---|
| `backtest_one_symbol` | 1 symbol, 3 opens, 7 books of up to 13 intents, 4 bars (quiet; wide enough to reach every order; thin with an open off the tick; dry), funding, marks that refuse, liquidate a long, liquidate a short | types, accounting, reconciliation of quantities, limits, participation, reduce-only, one-shot orders, liquidation, cancellation outside groups, service of every order a bar reaches, refinement of `CashFlowAccount`; of every finished run, that the trades rebuilt from the fills explain realized profit and fees, that exposure is the time the trades span, and that the drawdown covers the loss |
| `backtest_two_symbols` | 2 symbols, bars of length 1 and 2, both series open until time 2, latency 1, touch fills, funding of both signs | eligibility, an OCO group across symbols, whose bars may open at one time |
| `backtest_flat_oco` | breakout pair on a flat position | **violated**: a canceled OCO sibling fills |
| `backtest_bracket` | entry and protective pair submitted together | **violated**: the pair is not resolved to the worse price |
| `backtest_ioc` | one IOC order | **violated**: it outlives a bar without liquidity |
| `backtest_marking` | the two-symbol instance | **violated**: a close is marked before the next symbol's bar of the same open |

`backtest_marking` differs in that the first symbol's series ends first. The four violations are statements of `docs/BACKTESTING.md` that the code does not keep; each was
reproduced on the Python engine with the inputs of the counterexample.

Bounds: `Horizon` (opens per run), `MaxQuantity`, the books and bars listed in `MCBacktest`, and
`TradePrices`, the prices `CashFlowAccount` looks for. Three opens are enough for entry, reaction and
a late consequence (a stale group, a remainder, an order submitted after a liquidation); the books
hold every order type, partial fills over two bars, a refusal for margin, for notional and for
reduce-only, a scale-in, a reduction and a flip. One event of a kind per symbol and time is a bound
of the model: the code accepts duplicates.

The analytics properties look at finished runs only. That the drawdown is at least the loss holds up
to a loss of all the cash and no further: with negative equity a fall from a peak above the initial
cash is a smaller part of that peak than the loss is of the initial cash.

No fairness is assumed and no liveness property stated: a run is loops over finite lists, which Python
ends whatever their bodies do.

Deadlock is checked: a run that has returned or raised stutters in `Returned`, so any other state
without a successor is an error.

### What is proved

`SumLemmas` has the facts about finite sums; `BacktestProofs` (which begins with the pure rules and ends
with the life of an order) and `AnalyticsProofs` have the theorems, under
`ParametersAssumption` and `RequestAssumption` (what `_validate_request`, `ExecutionAssumptions` and
the validators leave of a request; TLC evaluates both on every run).

| Theorem | States | Module |
|---|---|---|
| `Invariance` | `IndInv` holds in every reachable state | `BacktestProofs` |
| `TypeCorrect` | `Spec => []TypeOK` | |
| `Accounting` | `Spec => []AccountingIdentity` | |
| `ReduceOnly` | `Spec => ReduceOnlyShrinks` | |
| `FillsAreActive` | `Spec => []NoFillBeforeActive` | |
| `LimitsHold` | `Spec => []LimitNeverWorse` | |
| `OneShotsFillOnce` | `Spec => []OneShotFillsOnce` | |
| `LiquidationEndsSymbol` | `Spec => []LiquidationIsFinal` | |
| `CancellationIsFinal` | `Spec => []StandaloneCancelIsFinal` | |
| `GroupFillsInOneBar` | `Spec => []OcoFillsShareBar` | |
| `ReachedServed` | `Spec => []ReachedOrdersServed` | |
| `Reconciliation` | `Spec => []QuantitiesReconcile` | |
| `BarsAreCapped` | `Spec => []ParticipationCap` | |
| `Explaining` | `Spec => []AnalyticsInv` | `AnalyticsProofs` |
| `TradesExplain` | `Spec => []TradesExplainProfit` | |
| `DrawdownCovers` | `Spec => []DrawdownCoversLoss` | |
| `ExposureCovers` | `Spec => []ExposureCoversTrades` | |
| `CashFlow` | `Spec => ImplementsCashFlowAccount`, given `NotionalsPositive` and `PricesUnbounded` | `BacktestProofs` |
| `ExactCashFlow` | `Spec /\ [][EvenAverages]_vars => Account!ExactSpec`, given the same | |

`TypeOK` is not inductive. A fill subtracts from a remainder, so a queued candidate must have
something left although its order may have been canceled meanwhile; that needs `QueueSound`, and
`QueueSound` survives a fill only because no other candidate belongs to the filled order, which is
`NextCandidateIsAlone`: the candidate the loop takes next comes strictly before all others, and
`Ahead` cannot order two candidates of one order. A price is a number only for an order whose limit
or trigger was checked, which is `OrdersSound`. `IdentifiersUnique` makes "the fills of an order" well defined.
`IndInv` is the conjunction of the four. `Accounting` needs no more than `IndInv`; `ReduceOnly` rests on
`FillQuantityBounds`; `FillsAreActive` adds that no fill happens during preparation;
`LimitsHold` adds `MakersAtLimit` and the rounding lemmas `FloorIsGreatest`, `CeilIsLeast` and
`RoundAdverseWithin`: rounding against the trader does not pass a limit that is on the tick.

The life of an order. None of these properties is inductive, because a cancellation closes
an order without taking its candidates out of the bar's queue. `OneShotInv` says that a market or IOC order
which is open or still queued has no fill yet, `LiquidatedInv` that a liquidated symbol is flat with all
its orders closed and none queued, `CanceledInv` that a canceled order is closed and, outside groups, not
queued (within a group it may be, which is the counterexample of `backtest_flat_oco`), `GroupInv` that
beside an order of a group that filled all others are closed, and queued only in the bar of that fill: at its time and
of its symbol.
`ServedInv` gives every order a bar has reached a place: in the queue, closed, or reduce-only and
filled now.

Sums (`SumLemmas`). A finite sum is a recursive function over the subsets of its index set, so `SumAdd`,
`SumCongruence` and `SumNat` need induction. It is had from a smallest counterexample: `SmallestSubset` (a set
of finite sets that is not empty has a member without proper subset in it) and `LeastNatural`, both
proved from first-order facts of the library. `SumReindex` and `SumOfParts` (a sum is the same under
another numbering, and the sum of the sums of its parts) are had the same way. `Reconciliation` is then one appended summand per
fill. `BarsAreCapped` has `CapInv` (fills of the bar plus liquidity left make its capacity) and needs
`FillsPast`: no fill is dated ahead of the loop, so a bar opens with no fill of its own.

Analytics (`AnalyticsProofs`). The fold over the fills is a recursive function; one more fill is one
more step of it (`ReconstructAppended`). `AnalyticsInv` relates what the rebuilt log holds open to the positions, and
its sums to the books. `DrawdownCovers` needs `CurveInv`: outside a bar the curve ends with the equity
of the books; that the deepest fall is at least the last one is a maximum over a finite set. `ExposureInv`
says, of any window the fills lie in, that the time `_exposure_seconds` counts is the number of moments the
rebuilt trades span; a step of it compares the net position, a sum over the fills before a moment,
with the quantity the log holds open, so it rests on `Reconciliation`, and on `TimesInv`: fills come in the order of
time.

The refinement (`CashFlow`). Cash less the entry cost of what is held is the money of an account that
pays each fill's notional and fee and each funding payment. `ExtendCost` and `CloseCost` do the
arithmetic of one trade: a trade that adds to a position realizes nothing and moves its notional into the
entry cost, less the remainder of the division (engine.py:75); one that closes realizes exactly what
leaves the entry cost, and a flip enters the rest at its own price. `SumAtSymbol` carries the change of one
symbol to the sum over all. So a trade of the books is a trade of the account with an error below a quantum a unit
held when it adds to a position, and with none when it reduces, flips or is a liquidation.
`ExactCashFlow`: when no average leaves a remainder (`EvenAverages`), there is no error at all. On the
instances `ExactSpec` does not hold, which is why the abstract account states the allowance. Two hypotheses are
about constants:

- `NotionalsPositive`: every instrument has a positive minimum notional. The code does not demand it;
  the instruments of an exchange, and of the instances, have one. Without it a fill may round to a
  price of zero, and `_Position.apply` reads an average of zero as it reads a missing one
  ("old_average or price"): closing such a position realizes nothing. With it `AveragesPositive` (what is held
  has a positive average) is inductive: a fill's price times its quantity passed the check, and a
  liquidation, whose price is not checked, leaves nothing held.
- `PricesUnbounded`: `TradePrices`, the set TLC searches for the price of a trade, is all of `Nat`.

### Not modelled

Texts of ids, reasons and ledger details; the final sort of the ledger and the result record;
`Decimal` precision; the hash of the run id; a client order id that imitates `LIQ-<symbol>-<n>`;
the refusal of an invalid request. Of the analytics: daily returns, Sharpe, Sortino and Calmar
ratios, and the counts and means over trades.

## 4. The experiment store

### Modules

- `ExperimentStore`: any number of processes in `ExperimentStore.record` on one artifact root. `pc` is
  the next file system or database step of the call; the other functions of a recorder are the
  locals of `record`, the rest is what the processes share.

  | Code | Actions |
  |---|---|
  | `_validate` (63) passes | `Begin` |
  | `BacktestArtifactStore.write`, `write_once` | `LookForDocument`, `RefuseDocument`, `ReplaceDocument`, `HashDocument` |
  | `_reserve` | `Reserve` |
  | `mkdtemp` (66), `_write_bundle` | `MakeTemporary`, `WriteBundle` |
  | `target.exists()`, `os.replace` (79-81), `file_sha256` | `Publish`, `TargetExists`, `HashManifest` |
  | `_complete`, `get` | `Complete`, `ReadBack` |
  | `except` (86-90), `_fail` | `Cleanup`, `MarkFailed` |
  | a step raises | `RaiseUnreserved`, `RaiseGuarded` (inside the `try`), `RaiseUnguarded` (`mkdtemp` and the handler itself) |
  | the process dies | `Crash` |

- `ExperimentProperties`: what is checked. `ExperimentRegistry`: the abstract specification, rows
  with evidence. `MCExperiments`: instances. `ExperimentProofs`: theorems.

A hash is modelled by what it is the hash of, so that "the hash in the registry is that of the
manifest" is an equality of bundles. `Init` admits what earlier sessions leave: documents of this or
another version of the engine, and directories of a registry that was lost (`Leftover`). `lost`
records the rows whose process died or raised outside its handler.

### Runs

| Run | Instance | What it shows |
|---|---|---|
| `experiment_records` | two recorders, two rows, two experiments of one run, two faults | types, certificate of a COMPLETE row, its backtest document, no unaccounted reservation, no residue, every reservation resolved or lost, refinement of `ExperimentRegistry` |
| `experiment_versions` | two recorders, two documents for one run id, no faults | **violated**: the second `os.replace` replaces the first document |

In `experiment_records` all experiments of a run have one document, because `_run_id` is a digest of
the request and the engine is deterministic; a different document on disk (another version of the
code under the same `ENGINE_VERSION`) is refused. `experiment_versions` drops that: two versions run
at the same time, both find no file, and `write_once` lets both through.

Two recorders are enough for every race: shared are the registry, on which each touches its own row,
and the document, where a race needs two writers. Two faults allow a failure inside the `try` and
another in its handler, or two unrelated ones. `MaxRecords` bounds rows; `Full` is the stutter of the
system at that bound, so deadlock is checked.

Fairness: each recorder is a process that waits for nobody for ever (SQLite's lock is released by
every transaction, and a timeout raises, which is a fault), so `Proceed(r)` is weakly fair for each
recorder. Beginning a record and going wrong are not fair.

What the code does and the documents do not say: a row is RESERVED for ever after a crash, a failing
`mkdtemp` or a failing handler (nothing scans for such rows), although `docs/ANALYTICS.md:33-34` says that
a failed publication remains in the registry as `FAILED`; this is why `ReservationsAccounted`
and `ReservationResolved` except `lost`; and `ReadBack` failing turns a COMPLETE row into FAILED, so
`ExperimentRegistry` lets `Fail` revoke a completed row.

### What is proved

For every number of recorders, rows, faults, experiments and documents, under `StoreAssumption`:
`TypeCorrect`, `Certified`, `Accounted`, `Clean` and `Refinement`, from `Invariance`; and under the further
hypothesis `OneDocument`, `EvidenceIsMatched` (`EvidenceMatches`) and `AgreeingNeverReplace` (`BacktestNeverReplaced`).

`CompleteIsCertified` is not inductive: that `Complete` writes the hash of the row's own bundle needs
`Progress` (from the rename on, the target is this recorder's bundle, and the digest is that of the
target), and that nobody else touches target or row needs `Ownership` (a recorder past `Reserve` owns
its row, alone; the row is RESERVED until completed). `NoResidue` needs `Moved`: after the rename and after
the clean-up the temporary directory is gone. `Refinement` maps a row to its status and evidence to
the bundles that are no leftovers; `Reserve`, `Publish`, `Complete` and `MarkFailed` are its steps and
all others stutter.

`OneDocument` says that experiments of one run have one document, as they do when one version of the engine
records (`experiment_records` is such an instance). `BackedInv`, its invariant, says that past the write a
recorder's document is in place, and before the rename what is in place is nothing or equal to it. Without
the hypothesis both properties fail, which is what `experiment_versions` shows.

Model-checked only: `ReservationResolved` (liveness). Not modelled: the loss of
unsynced files in a power failure (the bundle is not synced before its row is committed), and the
contents of the bundle.

## 5. The data lake and the validation matrix

### Modules

- `DataLake`: any number of `atl data` commands on one directory, as `DataIngestionService` drives the
  lake, and what `CuratedDataLoader` sees of it. `job[p]` is a running command: the files still to
  write (`Plan`, the order of the `ingest_*` functions) and the artifacts so far.

  | Code | Actions |
  |---|---|
  | the client downloads; its sink calls `write_raw_page` | `Fetch` |
  | the client raises, or returns rows | `RefuseDownload`, `AcceptDownload` |
  | `_write_once`, `_write_parquet_once` | `KeepExisting`, `FindAbsent`, `Replace` |
  | the result is printed | `Return` |
  | the process dies; the machine stops | `Kill`, `PowerFailure` |

- `ValidationMatrix`: `ValidationMatrixRunner.run` as a process beside them. `Script` is its loops
  unrolled, `position` the place in it.

  | Code | Actions |
  |---|---|
  | the command and its `except` in `cli.py` | `Start`, `Block` |
  | `resolve_unique` | `Resolve`, or `Block` |
  | the `load_*` functions, `_rows` | `Load`, `Block`, `RaiseOnTorn` |
  | one strategy of a cell's suite; the cell | `RunExperiment`, `RaiseInSuite`, `FinishCell` |
  | `instruments[symbol]`, `mark_by_time[item.timestamp]` raise `KeyError` | `Block` (`Unlisted`, `Unpriced`) |
  | `assess_validation`, `write_once` | `WriteGate`, `RefuseGate` |
  | the result is printed | `Report` |
  | the process dies | `KillMatrix` |

- `LakeProperties`: what is checked. `MCLake`: the instance.

### Representation

A version is the digest of a request and its rows, and is modelled by these two; the digest of a file
is what the file holds, so that "the file has the digest of the manifest" is an equality of contents.
Rows are told apart by month, which is a Parquet file each. A load, an experiment and the gate are a step
each; writes of the lake are two, the test for the file and the rename, except of raw pages, whose names
nobody else uses. Parquet files are
renamed without `fsync` and no directory is synced, so `PowerFailure` loses any unflushed file and
tears unflushed Parquet files. What the analytics of a cell say is a function of its data, because
compiler, engine and analytics are deterministic. What the matrix looks up in loaded rows is a function of versions
too: `Listed` is the symbols in a snapshot, `Priced` whether each settlement of a funding version has a mark at its time.

One matrix command runs at a time, which is a bound. Two would race in `write_once`, between its look and its
replace; that race is modelled in `ExperimentStore`, where it gives the counterexample of `experiment_versions`.
Between the write of the gate and the report the command may die.

### Run `lake_matrix`

One symbol and two timeframes; everything but the candles of the second timeframe is there already, in one of
two ways (`Seedings`): with two snapshots of the instruments; or with these, a snapshot that lacks the
symbol, and funding stamped off the marks. The candles of the second timeframe span two months, and the venue serves them in three
versions: whole, revised, and with a month missing. It shows: a manifest certifies what is there (no power
failure); what a run has loaded is exactly the validated content of the version it resolved, power failures included; the
experiments of a cell agree on the version of the window; a gate document stands on a complete matrix; a
rerun on the snapshot of the gate document has computed that very document when it comes to write it, so that it
reports COMPLETE and is not refused (no power failure).

Bounds: `Offered` lists what the venue may serve, download by download: first the window with a gap or
whole, then whole or revised. That is a race of two versions, of one version with itself, or a
rerun. Two runs of the matrix (`MaxRuns`) are a first run and a rerun over what it left; one fault
(`MaxFaults`: a command raises or dies, or the power fails) at any step, which damages one file
(`MaxDamage`): a reader that accepts one damaged file accepts it beside others too. A suite of two
experiments (`SuiteSize`) can end between them. Ingesters are symmetric, and so are the two snapshots that list the symbol, which differ in
their rows alone; no liveness is checked here, so the reduction is sound. 687 653 states.

Deadlock is not checked: commands end, and at the bounds nothing is left to do. No fairness is
assumed.

### What is proved

For every number of ingesters, versions, months, cells and experiments, under `LakeAssumption` and
`MatrixAssumption`:

| Theorem | States | Module |
|---|---|---|
| `LakeInvariant` | `LakeInv` holds in every reachable state | `LakeProofs` |
| `ManifestsCertify` | `Spec => []ManifestCertifies` | |
| `MatrixInvariant` | `LakeInv /\ MatrixInv` holds in every reachable state | `MatrixProofs` |
| `MatrixTypeCorrect` | `Spec => []TypeOK` | |
| `OnlyValidatedRowsLoaded` | `Spec => []LoadedIsValidated` | |
| `WindowsKeepOneVersion` | `Spec => []OneVersionPerWindow` | |
| `GateStandsOnSuites` | `Spec => []GateBacked` | |
| `RerunsReproduceTheGate` | `Spec => []RerunReproduces` | |
| `GateNeverPunishes` | a better return in one of any judged cells leaves `ADVANCE_TO_PHASE_7` as it is | |

`LakeInv` says of every file that it holds what its name says, or is torn and Parquet after an outage
(`Sound`), and of every running command that what it has done and what it has to do make up the
evidence of its version (`Progress`), in the order of the plan. A manifest is therefore written over files that
are all there; nothing but an outage takes a file away.

`MatrixInv` has three parts. `LocalsInv`: what has been resolved is what the part of the script behind
`position` resolves, and what has been loaded is the content of a valid version. `RegistryInv`: the cells of a
run are those whose suites lie behind it, each with its full suite recorded, and nothing is recorded ahead.
`AgreementInv`: as long as the power holds, curated versions never go away, so a window that was resolved
once can only resolve to the same version or be refused. These need the script to be read backwards (which
places resolve, load and run a cell), which `MatrixProofs` does first.

`MatrixAssumption` says that the lists of timeframes, periods and symbols repeat nothing and that the
requests of two cells differ (the configuration is three fixed tuples, `validation_matrix.py`), and that the
number of required passes is a natural number; TLC evaluates it.

`RerunsReproduceTheGate` has `ShapeInv`: the cells of a run, and those of the gate, are in the order of the script, each with the
metrics of its data, and the gate is `Document` of its cells (`Summary`). The suites behind both lists are in the registry, which by
`OneVersionPerWindow` has one version of a cell's data for a snapshot; so the lists are equal place by place (`SameShape`), and
the documents with them. That the document counts
the experiments of its own run, and not those in the store, is what the mutant takes away.

`GateNeverPunishes` is not about
reachability but about `assess_validation`, for any list of cells: a raised cell raises no count of failures, no sum and no median.
`_median` sorts; `Sorted` says what the sorted list has at a rank by counting, so that
monotony follows from counting the values below a bound.

Facts the model made plain and no document states: a curated file that a power failure tore
is certified by the rerun that finds it, because `_write_parquet_once` returns when the name exists
and the manifest takes the digest of what is there; every later load fails in pyarrow, and no rerun
repairs it. And two curated versions of one window refuse it for good: nothing withdraws a version.

### Not modelled

The writing of the temporary file and its clean-up (no reader looks for a hidden name); a file
changed between the digest and the read of one load; `ingest_*` of several symbols in one command;
the unreadable manifests `resolve_unique` would raise on. `RunExperiment` is one step, which
`ExperimentStore` (section 4) takes apart.

## 6. The venue client, validation and resampling

### Modules

- `MarketSeries`: the validators (`ValidCandles`, `ValidMarks`, `ValidRates`), `resample_candles`
  and `compare_candle_parity`, as operators over rows.
- `VenueClient`: one fetch of `BybitV5PublicClient`, page by page.

  | Code | Actions |
  |---|---|
  | a `fetch_*` begins | `Start` |
  | `UrlLibPublicTransport.get` | `Retry`, `GiveUp` |
  | `_request`, envelope and parsing | `RefuseAnswer` |
  | `server_time` | `AnswerTime` |
  | the loops of `fetch_closed_candles`, `fetch_mark_price_candles`, `fetch_funding_rates` | `TurnPage`, `FinishSeries`, `RefusePage` |
  | the loop of `fetch_instruments` | `TurnListing`, `FinishListing`, `RefuseListing` |
  | time passes at the venue | `Tick` |

- `VenueProperties`: what is checked. `MCVenue`: the instance. `VenueProofs`: theorems.

The venue is external. Three things are assumed of it: a bar does not change after its close, it
has finitely many cursors, and its catalog names an instrument once. It may serve any page at all (`StrayPages`: repeated, misplaced, dropped
rows, out of order, up to `StrayRows`) or the right one (`HonestPage`); `honest` remembers whether all
were right. Its clock runs on between any two requests.

### Run `venue_client`

Four candles, three settlements and three marks (from before the listing) in pages of two, with
sub-second clocks; three pages of instruments. It shows: no row of a download could still change, the
clock notwithstanding; the download of an honest venue is complete and in order; the verdict of a
validator is the one a definition by sets gives, on the downloads and on every series of up to four
rows from elsewhere (misaligned, repeated, not closed, of unsound prices or negative turnover); the verdict depends on the rows alone,
which makes "version determines zone" true; resampling in stages is resampling at once; every fetch ends.

Four rows are two pages and a boundary; of a window of three or four they are the whole, or have a hole,
a repetition, a step back or a stray. Three moments of the clock put the close of a bar before, between and
after the requests. The verdicts and the resampled series of all 50 139 pairs of a batch and a server time were compared with what
the Python functions return for the same rows, without a difference.

Fairness: `Exchange` is weakly fair, because each attempt ends (the transport has a timeout) and the
client then goes on by itself. Deadlock is not checked: a fetch that is done or failed stops.

Facts: `fetch_instruments` keeps a symbol that a page repeats twice; a funding window that ends
a fraction of a second after a settlement is taken to end before it (`int(end.timestamp()) - 1`), so
that the complete series is quarantined and one without that settlement curated, which is why the
instance has windows of whole seconds; an `IncompleteRead` while reading the body is neither `OSError` nor `JSONDecodeError`, so it escapes
the retries.

### What is proved

In `VenueProofs`, for every period, page size, number of attempts, history, clock, catalog and set of
requests, and whatever a page of the venue holds, of any length:

| Theorem | States |
|---|---|
| `VenueInvariant` | `VenueInv` holds in every reachable state |
| `VenueTypes` | `Spec => []TypeOK` |
| `DownloadsAreFinal` | `Spec => []NoProvisionalRow` |
| `HonestDownloadsAreComplete` | `Spec => []HonestIsComplete` |
| `VerdictsAreExact` | `Spec => []VerdictExact`, for series of any length |
| `VerdictsOnDownloads` | `Spec => []VerdictOfRows` |
| `ResamplingComposes` | `Spec => []ResampleComposes`, for series of any length and order of rows |

The assumptions are four, and TLC evaluates them. `VenueAssumption`: the period is whole seconds, a window
is not empty, cursors are pages of the catalog. `RowsAssumption`: the row the venue has for a time bears
that time, and the prices and amounts of a row are numbers. `_parse_candle` and its siblings (`bybit_v5.py:407-413`) also let
through what `Decimal` reads as NaN or Infinity; this is modelled for funding rates, whose validator looks for it,
and left out for prices and amounts.
`TimeframesAssumption` is what `resample_candles` raises for otherwise: each timeframe is a larger exact multiple
of the one below. `CatalogAssumption` is needed for completeness only: `fetch_instruments` keeps a repeated symbol. The two
theorems on verdicts have the hypothesis `WholeSecondWindows`, that a funding window begins and ends on a
whole second; without it they are false, which is the fact on `int(end.timestamp())` above. `MCVenue` satisfies it.

`VenueInv` has the parts of a fetch. `ClocksAgree`: the server time is not ahead of the venue's clock, so that
what it calls closed is final whenever a page is served later. `SeriesRows`: the rows collected are final
rows of times in the window that are closed by the server time, and, while all pages were honest, each
closed row after the end of the next page once; `ListingRows`: the symbols asked for of the pages read, each once,
and the remembered cursors are those of the pages read. That a page continues where the last one ended
(`HonestPageCloses`) holds because the newest `Limit` rows are closed upward (`NewestOf`): an older row on a
page means that everything newer is there as well, and an oldest row at or before the start that
nothing is left.

The order of rows is defined by counting: `Ranked` takes the element with k - 1 before it, which makes
`Ascending` the one increasing enumeration of a set (`AscendingSorted`, `AscendingUnique`) and `Sorted` a permutation
in the order of the keys (`SortedItems`). Validators look at first, last, step and number; that these are
the window's grid is `ChainIsGrid` and its converse `GridIsChain`, for bars (`BarBounds`) and, through
the rounding to seconds, for settlements (`RateBounds`).

Resampling: a bucket gives a candle when its rows have the bucket's times, each once (`Full`;
`CompleteIsFull` shows that this is what comparing the sorted rows with the expected times comes to), so
`resample_candles` makes one candle of each full bucket (`Resampling`). Middle buckets nest in large ones:
a large bucket is full exactly when every middle bucket in it is full and gave its candle
(`FullFromStages`, `FullInStages`), and first open, last close, highest and lowest are then the same
(`CombinedExtremes`). Volume and turnover are sums over the rows of a bucket, and by `SumReindex` and `SumOfParts` in
`SumLemmas` sums of the sums of its parts (`CombinedAmounts`). That a downloaded or foreign series has
numbers in its rows is `VenueInv`.

Model-checked only: `FetchEnds` (liveness).

### Not modelled

The wait between attempts, the parsing of single fields, prices that are NaN or Infinity, the warnings of a validation report and its
texts.

## 7. Signals, strategies and benchmarks

### Modules

- `Signals`: the strategies (`TrendTarget`, `DualChannelTarget`, `ReversionTarget`, `RandomSignals`, buy
  and hold), the loop they share (`Held`, `SignalsOf`) and `compile_signals` (`Compilable`, `Compile`).
- `SignalTrading`: a runner up to the backtest. It generates and compiles, and then the steps are those
  of `BacktestEngine`, with the bars of the series the strategy has seen.
- `SignalProperties`: what is checked. `MCSignals`: instances.

### Runs

| Run | Instance | What it shows |
|---|---|---|
| `signal_trading` | series of eight rows of three candles, trend, mean reversion and dual channel on each; random entry with every sequence of draws; buy and hold | the position follows the targets, a row late; no strategy looks ahead |
| `signal_flat` | the same rows, trend only, cash for one unit but not for a flip | **violated**: a run ends with a position, although `docs/BENCHMARKS.md:17` says that all controls finish flat |

Eight rows are the first decision of a lookback of three, an entry, a flip, an exit and the forced
exit at the end, in every order. The first row is fixed, since all series are compared with it.
Prices matter to the price rules only, so random entry runs on one series, and buy and hold on
constant ones. A series whose signals do not compile has no run; volumes are such that some do not.
The signals of all 6 807 experiments of the instance are those the Python strategies generate.

`FollowsTargets` holds while cash is plentiful, leverage is one, latency zero, liquidation off, and a
unit worth more than the minimum by more than the cost of a fill. These are the conditions under which
the runners' defaults work. `signal_flat` lifts the first: the margin check of the engine counts the whole
order against free cash, and not what the position it closes gives back, so the flip is refused and
the later exit, which is for the other side, does not find what it was to close. The last
condition is there because the compiler compares the minimum with the raw open
(`signals/compiler.py:57`) and the engine with the adverse price (`backtesting/engine.py:417`).

Deadlock is checked (`Returned` of the engine is the only end). No fairness is assumed: the
properties are invariants.

`NoLookAhead` replaces rows. The last two rows of a window do decide something, as the code intends:
every strategy exits at the close of the last row but one, and random entry does not open what it could not
hold. These depend on the length of the window, not on its prices.

### What is proved

`SignalProofs`, which rests on `BacktestProofs`, under the assumptions of the engine, `SignalAssumption`
(what the strategies accept as lookbacks) and `ExperimentsAssumption` (one of the five strategies, the three
rows that `_ordered` wants, and draws that are no entry or a direction):

| Theorem | States |
|---|---|
| `SignalsNeverLookAhead` | `TradingSpec => []NoLookAhead` |
| `TargetsFollowed` | `TradingSpec /\ []NothingRefused => []FollowsTargets`, given `TradesSeries` |
| `FlatUnlessRefused` | `TradingSpec /\ []NothingRefused => []FinishesFlat`, given `TradesSeries` and `WholeSeries` |

*No look-ahead.* The invariant is only that a run keeps its series, its strategy and what the strategy generated
(`GeneratedOf`). The work is in `GenerateAgrees`: two series of one length that are the same before row k
give the same signals before k. Each rule reads a window that ends with its own row
(`ChannelsAgree`, `TrendAgrees`, `DualChannelAgrees`, `ReversionAgrees`), and the loop they share carries a target
from row to row: it is a recursive function (`Held`), two of which agree as far as their rules do, by the
least row at which they would not (`HeldAgrees`). The forced exit counts as a signal of the last row but
one, which is before k only if every decision it rests on is (`SignalsOfAgree`).

*The position follows the targets.* `TradesSeries` is about constants: one instrument, candles one time unit
apart from the first, no latency, no liquidation; any bar contents, costs, margin, funding and marks. `WholeSeries`: the
run trades exactly the rows the strategy has seen. `NothingRefused` is about the run: no candidate whose turn comes is
below the minimum notional at its execution price, or lacks margin. These are the two checks of the engine that
`compile_signals` cannot make, since they depend on the adverse price and on the equity of the day, and the
theorem says that there is no third: acceptance, liquidity, the reduce-only rule and the lot step never stand in
the way of a compiled order. The hypothesis is not empty: a refused order leaves the position off its target at the
next boundary (every signal is a change), so in `signal_trading`, where `FollowsTargets` holds, nothing is ever
refused; `signal_flat` is a run where it fails, by the margin of a flip. `FlatUnlessRefused` is the sentence of
`docs/BENCHMARKS.md:17` with the condition it lacks.

The invariant `FollowInv` has four parts. `IndInv` is the engine's. `SeriesInv`: the book is the compiled signals, which
are targets (`GeneratesTargets`, by the same least-row argument for each loop, that of `RandomEntry` included).
`Placed`: preparation rejects nothing, since the order of a signal is acceptable as long as its number is not taken
(`OrderAccepted`), and numbers count signals (`RanksNumber`, `CompiledOrders`). `Following`: an order whose row has been
traded is closed and any other is as submitted, the queue of a bar holds at most the one order of the signal before it,
with room for all of it in the bar (`OrderFits`), and the position is the target before the first row not traded.
`Traded` moves on when the bar's queue is empty, not when the bar closes. A fill takes the whole order, so it moves the
position from one target to the next (`OrderMoves`, `CandidateFits`); a bar without a candidate has no signal before it
(`OpenedQueue`). What the targets are, time after time, is `TargetsUnfold`.

### Not modelled

The uniform draw (`draws` stands for all it can say), records and texts of the suite, the summary of
random distributions (`benchmarks/runner.py`), the division of cash among symbols. A z-score is compared
by its square; the rounding of `Decimal.sqrt` is left out.

## 8. All runs, and what is left out of the project

Twelve runs: `backtest_one_symbol`, `backtest_two_symbols`, `experiment_records`, `lake_matrix`,
`venue_client` and `signal_trading` pass; `backtest_flat_oco`, `backtest_bracket`, `backtest_ioc`,
`backtest_marking`, `experiment_versions` and `signal_flat` each find a counterexample to one
sentence of the documents.

Liveness is checked where something can wait: `ReservationResolved` (store) and `FetchEnds` (client). Proved are all invariants, action properties and
refinements of sections 3 to 7, `FollowsTargets` on condition that the engine refuses no order.

Not modelled at all: scenarios and self tests (`backtesting/scenarios.py` and the like run the modelled
code on fixed inputs and have no logic of their own), settings and deployment files, and the parsing of
command lines.
