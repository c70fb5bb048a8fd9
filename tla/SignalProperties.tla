--------------------------- MODULE SignalProperties ---------------------------
(***************************************************************************)
(* What a strategy, the signal compiler and the engine achieve together.   *)
(***************************************************************************)
EXTENDS SignalTrading

\* Every event of earlier times is applied, none of this time.
AtBoundary ==
    phase = "events" /\ event = [time |-> now, priority |-> FUNDING, symbol |-> 1]

(***************************************************************************)
(* The account holds what the strategy wants: once the rows up to any time *)
(* have been traded, the position is the target of the last signal that is *)
(* at least one row old.  Every compiled order fills completely in the     *)
(* row after its signal, a flip included, although the compiler decides on *)
(* the raw open and volume, and the engine on adverse prices, margin and   *)
(* the liquidity of the bar (compile_signals; BENCHMARKS.md:14-17).        *)
(***************************************************************************)
FollowsTargets ==
    AtBoundary \/ phase = "done" =>
        positions[1].quantity = UnitQuantity * TargetBefore(generated, now)

(***************************************************************************)
(* No strategy looks ahead: had the rows from any row k on been different  *)
(* (here, the first row over and over), the signals generated before row k *)
(* closes would be the same (BENCHMARKS.md, "rolling calculations use only *)
(* the current closed candle and earlier candles").                        *)
(***************************************************************************)
NoLookAhead ==
    phase = "prepare" /\ working = << >> =>
        \A k \in DOMAIN candles :
            LET other == [i \in DOMAIN candles |-> IF i < k THEN candles[i] ELSE candles[1]]
            IN  {s \in Generate(strategy, other) : s.at < k} = {s \in generated : s.at < k}
-----------------------------------------------------------------------------
(***************************************************************************)
(* BENCHMARKS.md:17: "all controls finish flat so closed-trade comparisons *)
(* do not hide terminal unrealized PnL".                                   *)
(***************************************************************************)
FinishesFlat == phase = "done" => positions[1].quantity = 0
=============================================================================
