---------------------------- MODULE TradeAnalytics ----------------------------
(***************************************************************************)
(* BacktestAnalytics (analytics/metrics.py): trades, time in market and    *)
(* drawdown recomputed from nothing but the fills and the equity curve of  *)
(* a result.  The engine appends fills in time order under ascending ids,  *)
(* which is the order the code sorts them into.                            *)
(***************************************************************************)
EXTENDS ExecutionModel, FiniteSetsExt

\* _OpenPosition
NoPosition == [quantity |-> 0, average |-> 0, since |-> None, fee |-> 0]

\* The fill adds to an open position, or opens one.
Grown(p, f) ==
    LET new == p.quantity + f.side * f.quantity
    IN  [quantity |-> new,
         average  |-> (Abs(p.quantity) * p.average + f.quantity * f.price) \div Abs(new),
         since    |-> IF p.since = None THEN f.at ELSE p.since,
         fee      |-> p.fee + f.fee]

\* The trade that a fill against the position closes.  The fee of the fill
\* and the entry fees so far are split by the quantity closed.
TradeOf(p, f) ==
    LET held == Abs(p.quantity)
        closing == IF held < f.quantity THEN held ELSE f.quantity
        average == IF p.average = 0 THEN f.price ELSE p.average
        sign == IF p.quantity > 0 THEN 1 ELSE -1
    IN  [symbol   |-> f.symbol,
         entry    |-> IF p.since = None THEN f.at ELSE p.since,
         exit     |-> f.at,
         gross    |-> closing * (f.price - average) * sign,
         entryFee |-> (p.fee * closing) \div held,
         exitFee  |-> (f.fee * closing) \div f.quantity]

\* Mutant of Reduced: a flip keeps the time and the price of the old entry.
ReducedKeepsEntry(p, f) ==
    LET new == p.quantity + f.side * f.quantity
        trade == TradeOf(p, f)
    IN  IF new = 0 THEN NoPosition
        ELSE [p EXCEPT !.quantity = new,
                       !.fee = IF p.quantity * new < 0 THEN f.fee - trade.exitFee
                                                       ELSE @ - trade.entryFee]

\* What is left of the position after that trade.
Reduced(p, f) ==
    LET new == p.quantity + f.side * f.quantity
        trade == TradeOf(p, f)
    IN  CASE new = 0 -> NoPosition
          [] p.quantity * new < 0 ->
                [quantity |-> new, average |-> f.price, since |-> f.at,
                 fee |-> f.fee - trade.exitFee]
          [] OTHER -> [p EXCEPT !.quantity = new, !.fee = @ - trade.entryFee]

Booked(log, f) ==
    LET p == log.open[f.symbol]
    IN  IF p.quantity = 0 \/ p.quantity * f.side > 0
          THEN [log EXCEPT !.open[f.symbol] = Grown(p, f)]
          ELSE [open   |-> [log.open EXCEPT ![f.symbol] = Reduced(p, f)],
                trades |-> Append(log.trades, TradeOf(p, f))]

\* _reconstruct_trades, with the positions it leaves open.
Reconstruct(executed) ==
    LET log[n \in 0..Len(executed)] ==
            IF n = 0 THEN [open |-> [s \in Symbols |-> NoPosition], trades |-> << >>]
                     ELSE Booked(log[n - 1], executed[n])
    IN  log[Len(executed)]

\* Portfolio quantities after the first n fills.
Held(executed, n) ==
    [s \in Symbols |->
        SumFunctionOnSet([i \in 1..n |-> executed[i].side * executed[i].quantity],
                         {i \in 1..n : executed[i].symbol = s})]

InMarket(executed, n) == \E s \in Symbols : Held(executed, n)[s] # 0

\* Mutant of ExposureTime: the position open at the end is not counted.
ExposureToLastFill(executed, start, end) ==
    LET from(n) == IF n = 0 THEN start ELSE executed[n].at
        held == {n \in 0..Len(executed) - 1 : InMarket(executed, n)}
    IN  SumFunctionOnSet([n \in held |-> executed[n + 1].at - from(n)], held)

\* _exposure_seconds: the intervals between fills in which something is held.
ExposureTime(executed, start, end) ==
    LET from(n) == IF n = 0 THEN start ELSE executed[n].at
        to(n) == IF n = Len(executed) THEN end ELSE executed[n + 1].at
        held == {n \in 0..Len(executed) : InMarket(executed, n)}
    IN  SumFunctionOnSet([n \in held |-> to(n) - from(n)], held)

\* The last equity recorded at a time.
EquityAt(points, at) ==
    points[Max({i \in DOMAIN points : points[i].at = at})].equity

\* Mutant of ValuesUpTo: the curve without the initial cash.
ValuesOfCurve(points, initial, at) ==
    {EquityAt(points, t) : t \in {u \in {points[i].at : i \in DOMAIN points} : u <= at}}

\* The initial cash and the equities up to a time, one for each time.
ValuesUpTo(points, initial, at) ==
    {initial} \cup
    {EquityAt(points, t) : t \in {u \in {points[i].at : i \in DOMAIN points} : u <= at}}

\* _drawdown_metrics: the deepest fall below an earlier peak, as a rate.
MaxDrawdown(points, initial) ==
    LET times == {points[i].at : i \in DOMAIN points}
        peak(t) == Max(ValuesUpTo(points, initial, t))
        fall(t) == (Scale * (peak(t) - EquityAt(points, t))) \div peak(t)
    IN  Max({0} \cup {fall(t) : t \in {u \in times : peak(u) > 0}})
=============================================================================
