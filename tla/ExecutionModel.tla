--------------------------- MODULE ExecutionModel ---------------------------
(***************************************************************************)
(* The pure rules of ReferenceBarBacktestEngine (backtesting/engine.py):   *)
(* which intents are accepted, what a bar does to an order, at what price  *)
(* it executes, and what margin and liquidation require.                   *)
(*                                                                         *)
(* Prices are naturals in price quanta, quantities naturals in quantity    *)
(* units, rates naturals over Scale, money in quanta * units / Scale, so   *)
(* that fees and funding are exact as they are with Decimal.  A symbol and *)
(* a client order id are their ranks in string order; id 0 is blank, and   *)
(* so is the OCO group 0.                                                  *)
(***************************************************************************)
EXTENDS Position, Sequences, Functions

CONSTANTS
    NumSymbols,      \* instruments of the request, 1..NumSymbols
    TickSize,        \* [Symbols -> price tick]
    QuantityStep,    \* [Symbols -> quantity step]
    MinQuantity,     \* [Symbols -> smallest order]
    MaxQuantity,     \* [Symbols -> largest order]
    MinNotional,     \* [Symbols -> smallest notional, quanta * units]
    Scale,           \* denominator of every rate
    MakerFeeRate,
    TakerFeeRate,
    LiquidationFeeRate,
    CostRate,        \* half spread plus slippage
    ParticipationRate,
    MaintenanceRate, \* maintenance margin plus liquidation buffer
    Leverage,
    Latency,         \* in bar-grid time units
    TouchFills,      \* LimitFillPolicy is TOUCH
    LiquidationOn,   \* LiquidationModel is APPROXIMATE
    None

Symbols == 1..NumSymbols

\* What _validate_request, ExecutionAssumptions.__post_init__ and the
\* instrument parser leave of the possible parameters.
ASSUME ParametersAssumption ==
    /\ NumSymbols \in Nat \ {0}
    /\ Scale \in Nat \ {0}
    /\ Leverage \in Nat \ {0}
    /\ TickSize \in [Symbols -> Nat \ {0}]
    /\ QuantityStep \in [Symbols -> Nat \ {0}]
    /\ MinQuantity \in [Symbols -> Nat]
    /\ MaxQuantity \in [Symbols -> Nat]
    /\ MinNotional \in [Symbols -> Nat]
    /\ MakerFeeRate \in Nat
    /\ TakerFeeRate \in Nat
    /\ LiquidationFeeRate \in Nat
    /\ CostRate \in Nat
    /\ ParticipationRate \in 1..Scale
    /\ MaintenanceRate \in Nat
    /\ Latency \in Nat
    /\ TouchFills \in BOOLEAN
    /\ LiquidationOn \in BOOLEAN
    /\ None \notin Int

OrderTypes == {"MARKET", "LIMIT", "STOP_MARKET"}

OrderIntent ==
    [id         : Nat,
     symbol     : Nat,
     side       : Sides,
     type       : OrderTypes,
     quantity   : Int,
     submitted  : Nat,
     aware      : BOOLEAN,          \* submitted_at carries a time zone
     limit      : Int \cup {None},
     trigger    : Int \cup {None},
     ioc        : BOOLEAN,
     reduceOnly : BOOLEAN,
     oco        : Nat \cup {None}]

\* CandleValidator accepts the bar.
ValidBar(b) ==
    /\ b \in [open : Nat \ {0}, high : Nat \ {0}, low : Nat \ {0},
              close : Nat \ {0}, volume : Nat]
    /\ b.low <= b.open /\ b.open <= b.high
    /\ b.low <= b.close /\ b.close <= b.high

FloorStep(value, step) == (value \div step) * step

CeilDiv(a, d) == -((-a) \div d)

OnTick(price, s) == price # None /\ price % TickSize[s] = 0

(***************************************************************************)
(* _order_rejection_reason: the intent is accepted when no reason applies; *)
(* identifiers holds the client order ids accepted before it.              *)
(***************************************************************************)
Acceptable(i, identifiers) ==
    /\ i.id # 0
    /\ i.id \notin identifiers
    /\ i.symbol \in Symbols
    /\ i.aware
    /\ i.quantity > 0
    /\ i.quantity % QuantityStep[i.symbol] = 0
    /\ i.quantity >= MinQuantity[i.symbol]
    /\ i.quantity <= MaxQuantity[i.symbol]
    /\ IF i.type = "LIMIT" THEN OnTick(i.limit, i.symbol) ELSE i.limit = None
    /\ IF i.type = "STOP_MARKET" THEN OnTick(i.trigger, i.symbol)
                                 ELSE i.trigger = None

(***************************************************************************)
(* _candidate: the executions a bar offers an order, none or one, each     *)
(* with the raw price before costs and the liquidity role.                 *)
(***************************************************************************)
Offer(raw, liquidity) == [raw |-> raw, liquidity |-> liquidity]

\* The bar's extreme in the direction a stop waits for, and in the direction
\* a resting limit waits for.
StopExtreme(side, b) == IF side = BUY THEN b.high ELSE b.low
LimitExtreme(side, b) == IF side = BUY THEN b.low ELSE b.high

StopOffers(i, b) ==
    IF i.side * (b.open - i.trigger) >= 0
      THEN {Offer(b.open, "TAKER")}
    ELSE {o \in {Offer(i.trigger, "TAKER")} :
            i.side * (StopExtreme(i.side, b) - i.trigger) >= 0}

LimitOffers(i, b) ==
    LET through == i.side * (i.limit - LimitExtreme(i.side, b))
    IN  IF i.side * (i.limit - b.open) >= 0
          THEN {Offer(b.open, "TAKER")}
        ELSE {o \in {Offer(i.limit, "MAKER")} :
                through > 0 \/ (through = 0 /\ TouchFills)}

Offers(i, b) ==
    CASE i.type = "MARKET"      -> {Offer(b.open, "TAKER")}
      [] i.type = "STOP_MARKET" -> StopOffers(i, b)
      [] i.type = "LIMIT"       -> LimitOffers(i, b)

(***************************************************************************)
(* _execution_price and _round_adverse.  A maker pays the raw price; a     *)
(* taker pays half spread and slippage, capped at its limit when it has    *)
(* one (a limit of 0 reads as none), rounded to the tick against it.       *)
(***************************************************************************)
RoundAdverse(num, den, s, side) ==
    TickSize[s] * (IF side = BUY THEN CeilDiv(num, den * TickSize[s])
                                 ELSE num \div (den * TickSize[s]))

\* The one of two prices that is better for the side.
Better(side, a, b) == IF side * (a - b) > 0 THEN b ELSE a

\* Mutant of ExecutionPrice: a marketable limit is not capped at its limit.
ExecutionPriceUncapped(i, offer) ==
    IF offer.liquidity = "MAKER"
      THEN offer.raw
      ELSE RoundAdverse(offer.raw * (Scale + i.side * CostRate), Scale, i.symbol, i.side)

ExecutionPrice(i, offer) ==
    LET costed == offer.raw * (Scale + i.side * CostRate)
        capped == IF i.type = "LIMIT" /\ i.limit # 0
                    THEN Better(i.side, costed, i.limit * Scale)
                    ELSE costed
    IN  IF offer.liquidity = "MAKER"
          THEN offer.raw
          ELSE RoundAdverse(capped, Scale, i.symbol, i.side)

FeeRate(liquidity) ==
    CASE liquidity = "MAKER"       -> MakerFeeRate
      [] liquidity = "TAKER"       -> TakerFeeRate
      [] liquidity = "LIQUIDATION" -> LiquidationFeeRate

\* Quantity the bar may fill in total: _apply_bar's available.
Capacity(b, s) == FloorStep((b.volume * ParticipationRate) \div Scale,
                            QuantityStep[s])

(***************************************************************************)
(* Marked values.  SumOverSymbols is Python's sum over state.positions.    *)
(***************************************************************************)
SumOverSymbols(f) == SumFunctionOnSet(f, Symbols)

\* last_prices.get(symbol, average_price or 0)
MarkOf(pos, last, s) == IF last[s] = None THEN pos[s].average ELSE last[s]

Unrealized(pos, last) ==
    Scale * SumOverSymbols([s \in Symbols |->
                pos[s].quantity * (MarkOf(pos, last, s) - pos[s].average)])

EquityOf(money, pos, last) == money + Unrealized(pos, last)

\* Notional of the whole portfolio; _has_margin divides it by the leverage.
Exposure(pos, last) ==
    Scale * SumOverSymbols([s \in Symbols |->
                Abs(pos[s].quantity) * MarkOf(pos, last, s)])

\* _has_margin, multiplied by Leverage.
HasMargin(money, pos, last, q, price) ==
    Leverage * EquityOf(money, pos, last) - Exposure(pos, last)
        >= Scale * q * price

\* _check_liquidation: the mark is at or beyond the threshold
\* average * (1 -+ (1 / Leverage - MaintenanceRate)), multiplied out.
Breached(p, mark) ==
    LET gap == Scale - Leverage * MaintenanceRate
    IN  /\ p.quantity # 0
        /\ IF p.quantity > 0
             THEN mark * Leverage * Scale <= p.average * (Leverage * Scale - gap)
             ELSE mark * Leverage * Scale >= p.average * (Leverage * Scale + gap)
=============================================================================
