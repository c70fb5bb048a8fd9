---------------------------- MODULE SignalTrading ----------------------------
(***************************************************************************)
(* BenchmarkRunner.run (benchmarks/runner.py) and CandidateRunner.run      *)
(* (strategies/runner.py) up to the backtest result: a strategy reads a    *)
(* whole series, its signals are compiled, and the backtest engine trades  *)
(* the orders on the same series.  A series whose signals do not compile   *)
(* has no run.                                                             *)
(***************************************************************************)
EXTENDS BacktestEngine, Signals

CONSTANT Experiments  \* runs to look at: [strategy, rows]

\* A strategy is one of five, and wants three rows (_ordered); what the hash
\* of RandomEntry draws is no entry or a direction.
ASSUME ExperimentsAssumption ==
    \A run \in Experiments :
        /\ run.strategy.name \in {"BUY_AND_HOLD", "RANDOM_ENTRY", "SIMPLE_TREND_FOLLOWING",
                                 "SIMPLE_MEAN_REVERSION", "DUAL_CHANNEL_TREND"}
        /\ run.rows \in Seq(Range(run.rows)) /\ Len(run.rows) >= 3
        /\ run.strategy.name = "RANDOM_ENTRY" =>
              \A i \in 1..Len(run.rows) : run.strategy.draws[i] \in Targets

VARIABLES
    strategy,
    candles,        \* self.candles
    generated       \* strategy.generate(self.candles)

tradingVars == <<vars, strategy, candles, generated>>

TradingInit ==
    /\ \E run \in Experiments : strategy = run.strategy /\ candles = run.rows
    /\ generated = Generate(strategy, candles)
    /\ Compilable(generated, candles)
    /\ book = Compile(generated)
    /\ Init

\* The engine, on the candles of the series.
TradingNext ==
    /\ Next
    /\ phase' = "bar" => bar' = candles[now + 1]
    /\ UNCHANGED <<strategy, candles, generated>>

TradingSpec == TradingInit /\ [][TradingNext]_tradingVars
=============================================================================
