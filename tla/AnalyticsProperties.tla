------------------------- MODULE AnalyticsProperties -------------------------
(***************************************************************************)
(* What the analytics of a finished backtest must agree on with the engine *)
(* and with each other.                                                    *)
(***************************************************************************)
EXTENDS BacktestProperties, TradeAnalytics

\* The test window: first open to last close.
Opens(x) == {t \in FirstOpen[x]..LastOpen[x] : t < Horizon /\ t % BarLength[x] = 0}
WindowStart == Min(UNION {Opens(x) : x \in Symbols})
WindowEnd == Max(UNION {{t + BarLength[x] : t \in Opens(x)} : x \in Symbols})

(***************************************************************************)
(* The trades reconstructed from the fills explain the result: their gross *)
(* profits add up to the realized profit, and their entry and exit fees,   *)
(* with those of the positions still open, to all fees paid.  The first is *)
(* what _validate_accounting insists on, or it refuses the result; the     *)
(* second is what makes the net profits of the trades true.                *)
(***************************************************************************)
TradesExplainProfit ==
    phase = "done" =>
        LET log == Reconstruct(fills)
            trades == log.trades
        IN  /\ realized = Scale * SumFunction([i \in DOMAIN trades |-> trades[i].gross])
            /\ totalFees = SumFunction([i \in DOMAIN trades |->
                                trades[i].entryFee + trades[i].exitFee])
                             + SumOverSymbols([x \in Symbols |-> log.open[x].fee])

(***************************************************************************)
(* The time in market is the time that trades and open positions span:     *)
(* _exposure_seconds, which nets fills, and _reconstruct_trades, which     *)
(* splits them at every partial close and flip, agree.                     *)
(***************************************************************************)
ExposureCoversTrades ==
    phase = "done" =>
        LET log == Reconstruct(fills)
            traded(t) == \E i \in DOMAIN log.trades :
                            log.trades[i].entry <= t /\ t < log.trades[i].exit
            open(t) == \E x \in Symbols :
                            log.open[x].since # None /\ log.open[x].since <= t
        IN  ExposureTime(fills, WindowStart, WindowEnd) =
                Cardinality({t \in WindowStart..WindowEnd - 1 : traded(t) \/ open(t)})

(***************************************************************************)
(* The reported maximum drawdown is at least the part of the initial cash  *)
(* a run loses, up to all of it: the curve _drawdown_metrics reads starts  *)
(* with the initial cash and ends with the final equity.  (Below zero the  *)
(* two part: a fall from a peak above the initial cash to a negative       *)
(* equity is a smaller part of the peak than of the initial cash.)         *)
(***************************************************************************)
DrawdownCoversLoss ==
    phase = "done" =>
        LET loss == InitialCash - EquityOf(cash, positions, lastPrices)
        IN  MaxDrawdown(curve, InitialCash)
                >= Min({Scale, (Scale * loss) \div InitialCash})
=============================================================================
