----------------------------- MODULE MCBacktest -----------------------------
(***************************************************************************)
(* Instances of BacktestEngine for TLC.  Prices are written in ticks; one  *)
(* tick is seven quanta, so that the averages the books build by scaling   *)
(* in, of two, four or six quantity steps, seldom divide evenly.           *)
(***************************************************************************)
EXTENDS AnalyticsProperties

OneSymbol == 1..1
TwoSymbols == 1..2

PerSymbol(v) == [x \in 1..NumSymbols |-> v]
Tick == 7
Ticks == PerSymbol(Tick)
Steps == PerSymbol(2)
LargestOrder == PerSymbol(8)
SmallestNotional == PerSymbol(17 * Tick)
BarLengths == PerSymbol(1)
FromStart == PerSymbol(0)
ToEnd == PerSymbol(Horizon)
UntilTwo == PerSymbol(2)
ShorterFirst == [x \in 1..NumSymbols |-> x]
MixedBarLengths == [x \in 1..NumSymbols |-> x]

Order(id, symbol, side, type, quantity, submitted) ==
    [id |-> id, symbol |-> symbol, side |-> side, type |-> type,
     quantity |-> quantity, submitted |-> submitted, aware |-> TRUE,
     limit |-> None, trigger |-> None, ioc |-> FALSE, reduceOnly |-> FALSE,
     oco |-> None]
Market(id, symbol, side, q, at) == Order(id, symbol, side, "MARKET", q, at)
Limit(id, symbol, side, q, at, limit) ==
    [Order(id, symbol, side, "LIMIT", q, at) EXCEPT !.limit = limit * Tick]
Stop(id, symbol, side, q, at, trigger) ==
    [Order(id, symbol, side, "STOP_MARKET", q, at) EXCEPT !.trigger = trigger * Tick]
Ioc(o) == [o EXCEPT !.ioc = TRUE]
ReduceOnly(o) == [o EXCEPT !.reduceOnly = TRUE]
Grouped(o, group) == [o EXCEPT !.oco = group]

Candle(open, high, low, close, volume) ==
    [open |-> open * Tick, high |-> high * Tick, low |-> low * Tick,
     close |-> close * Tick, volume |-> volume]

Quiet == Candle(10, 11, 9, 10, 8)   \* capacity 4
Wide == Candle(8, 12, 7, 11, 20)     \* capacity 10: reaches every order
Thin == [Candle(10, 12, 10, 12, 5) EXCEPT !.open = @ + 3]  \* capacity 2, opens off the tick
Dry == Candle(11, 11, 10, 10, 3)     \* capacity 0

\* An entry with its protective pair, submitted together.
Bracket(g) ==
    <<Market(1, 1, BUY, 4, 0),
      ReduceOnly(Grouped(Limit(2, 1, SELL, 4, 0, 11), g)),
      ReduceOnly(Grouped(Stop(3, 1, SELL, 4, 0, 9), g))>>
\* The protective pair comes a bar later, when the position is known.
LateBracket(g) ==
    <<ReduceOnly(Grouped(Limit(2, 1, BUY, 6, 1, 9), g)),
      Market(1, 1, SELL, 4, 0),
      ReduceOnly(Grouped(Stop(3, 1, BUY, 4, 1, 11), g))>>
\* Two entries of which one is meant to trade.
Breakout(g) ==
    <<Grouped(Stop(1, 1, BUY, 4, 0, 11), g),
      Grouped(Limit(2, 1, SELL, 2, 0, 11), g)>>
\* Scale in, reduce, flip.
ScaleAndFlip ==
    <<Market(1, 1, BUY, 2, 0), Market(2, 1, BUY, 2, 0),
      Ioc(Limit(3, 1, SELL, 2, 1, 10)), Market(4, 1, SELL, 6, 1),
      ReduceOnly(Limit(5, 1, BUY, 8, 2, 11)), Market(6, 1, BUY, 2, 2)>>
\* A resting order over several bars, an order the account cannot afford.
Resting ==
    <<Limit(1, 1, BUY, 6, 0, 10), Ioc(Limit(2, 1, BUY, 2, 0, 8)),
      Market(3, 1, BUY, 4, 1), ReduceOnly(Market(4, 1, SELL, 8, 2))>>
\* Every way to be rejected, one accepted order among them.
Rejected ==
    <<Market(0, 1, BUY, 2, 0), Market(1, 1, SELL, 4, 1), Market(1, 1, BUY, 2, 1),
      Market(2, NumSymbols + 1, BUY, 2, 0),
      [Market(3, 1, BUY, 2, 0) EXCEPT !.aware = FALSE],
      Market(4, 1, BUY, 3, 0), Market(5, 1, BUY, 10, 0), Market(6, 1, BUY, 0, 0),
      [Limit(7, 1, BUY, 2, 0, 10) EXCEPT !.limit = None],
      [Limit(8, 1, BUY, 2, 0, 10) EXCEPT !.limit = @ + 1],
      [Stop(9, 1, BUY, 2, 0, 10) EXCEPT !.trigger = @ + 1],
      [Market(10, 1, BUY, 2, 0) EXCEPT !.limit = 10],
      [Market(11, 1, BUY, 2, 0) EXCEPT !.trigger = 10]>>

\* Two symbols that share the account and an OCO group.
Pair(g) ==
    <<Market(1, 1, BUY, 4, 0), Grouped(Limit(2, 1, SELL, 4, 0, 10), g),
      Grouped(Stop(3, 2, BUY, 4, 0, 11), g), Market(4, 2, SELL, 2, 0)>>

Books == {Bracket(1), LateBracket(1), Breakout(1), Breakout(0), ScaleAndFlip, Resting, Rejected}
PairBooks == {Pair(1), LateBracket(1), Breakout(1)}
FlatOcoBooks == {Breakout(1)}
BracketBooks == {Bracket(1)}
IocBooks == {<<Ioc(Limit(1, 1, BUY, 2, 0, 11))>>}

AllBars == {Quiet, Wide, Thin, Dry}
PairBars == {Quiet, Wide, Thin}

NoFunding == {}
NoMarks == {}
SomeFunding == {[rate |-> 10, mark |-> 10 * Tick]}
SignedFunding == {[rate |-> 10, mark |-> 10 * Tick], [rate |-> -5, mark |-> 9 * Tick]}
SomeMarks == {0, 5 * Tick, 16 * Tick}
PairMarks == {5 * Tick}
Prices == {k * Tick : k \in 1..20}
=============================================================================
