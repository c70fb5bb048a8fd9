--------------------------- MODULE BacktestEngine ---------------------------
(***************************************************************************)
(* ReferenceBarBacktestEngine.run (backtesting/engine.py): orders are      *)
(* prepared, then funding, mark and bar events are applied in the order of *)
(* (time, priority, symbol).  The loops of run, _prepare_orders and        *)
(* _apply_bar take one step per iteration; the control variables phase,    *)
(* event, bar, available and queue say where in those loops the run is.    *)
(*                                                                         *)
(* The request's orders are one of OrderBooks.  Its market data is chosen  *)
(* as the run reaches it: no step reads data of a later event.             *)
(***************************************************************************)
EXTENDS ExecutionModel, FiniteSets

CONSTANTS
    OrderBooks,     \* possible values of request.orders
    Bars,           \* possible candles
    BarLength,      \* [Symbols -> time units per candle]
    FirstOpen,      \* [Symbols -> first time a candle may open]
    LastOpen,       \* [Symbols -> last time a candle may open]
    FundingEvents,  \* possible funding events: [rate, mark]
    Marks,          \* possible mark prices, also non-positive ones
    InitialCash,
    Horizon         \* bound: candles open before this time

ASSUME RequestAssumption ==
    /\ OrderBooks \subseteq Seq(OrderIntent)
    /\ \A b \in Bars : ValidBar(b)
    /\ BarLength \in [Symbols -> Nat \ {0}]
    /\ FirstOpen \in [Symbols -> Nat]
    /\ LastOpen \in [Symbols -> Nat]
    /\ FundingEvents \subseteq [rate : Int, mark : Int]
    /\ Marks \subseteq Int
    /\ InitialCash \in Nat \ {0}
    /\ Horizon \in Nat \ {0}

VARIABLES
    book,         \* request.orders
    pending,      \* indices of book that _prepare_orders has not reached
    working,      \* the _WorkingOrders, each with its rows of the ledger
    phase,        \* "prepare", "events", "bar", "done" or "failed"
    event,        \* sort key of the next event
    bar,          \* the candle _apply_bar is in, or None
    available,    \* liquidity left in that candle
    queue,        \* candidates _apply_bar has not reached
    cash, totalFees, totalFunding,
    realized,     \* sum of realized_pnl over the positions
    positions, lastPrices,
    liquidations, \* liquidation_count
    fills,
    curve         \* equity_curve

orderVars == <<book, pending, working>>
loopVars == <<phase, event, bar, available, queue>>
accountVars == <<cash, totalFees, totalFunding, realized, positions,
                 lastPrices, liquidations, fills, curve>>
vars == <<orderVars, loopVars, accountVars>>

FUNDING == 0
MARK == 1
BAR == 2

sym == event.symbol
now == event.time

Init ==
    /\ book \in OrderBooks
    /\ pending = DOMAIN book
    /\ working = << >>
    /\ phase = "prepare"
    /\ event = [time |-> 0, priority |-> FUNDING, symbol |-> 1]
    /\ bar = None
    /\ available = 0
    /\ queue = {}
    /\ cash = InitialCash
    /\ totalFees = 0
    /\ totalFunding = 0
    /\ realized = 0
    /\ positions = [x \in Symbols |-> Flat]
    /\ lastPrices = [x \in Symbols |-> None]
    /\ liquidations = 0
    /\ fills = << >>
    /\ curve = << >>
-----------------------------------------------------------------------------
(***************************************************************************)
(* _prepare_orders.                                                        *)
(***************************************************************************)

\* _order_sort_key; Python's sort keeps equal keys in their input order.
Before(i, j) ==
    LET a == book[i]
        b == book[j]
    IN  \/ a.submitted < b.submitted
        \/ a.submitted = b.submitted /\ a.id < b.id
        \/ a.submitted = b.submitted /\ a.id = b.id /\ i < j

IsNextIntent(i) == i \in pending /\ \A j \in pending \ {i} : Before(i, j)

Identifiers == {working[k].intent.id : k \in DOMAIN working}

Row(at, kind) == [at |-> at, kind |-> kind]

WorkingOrder(intent) ==
    [intent    |-> intent,
     remaining |-> intent.quantity,
     closed    |-> FALSE,
     ledger    |-> <<Row(intent.submitted, "ACCEPTED")>>]

AcceptIntent(i) ==
    /\ phase = "prepare"
    /\ IsNextIntent(i)
    /\ Acceptable(book[i], Identifiers)
    /\ working' = Append(working, WorkingOrder(book[i]))
    /\ pending' = pending \ {i}
    /\ UNCHANGED <<book, loopVars, accountVars>>

RejectIntent(i) ==
    /\ phase = "prepare"
    /\ IsNextIntent(i)
    /\ ~Acceptable(book[i], Identifiers)
    /\ pending' = pending \ {i}
    /\ UNCHANGED <<book, working, loopVars, accountVars>>

StartEvents ==
    /\ phase = "prepare"
    /\ pending = {}
    /\ phase' = "events"
    /\ UNCHANGED <<orderVars, event, bar, available, queue, accountVars>>
-----------------------------------------------------------------------------
(***************************************************************************)
(* The event loop.                                                         *)
(***************************************************************************)

\* _events: the sort key after this one.
NextEvent ==
    IF sym < NumSymbols
      THEN [event EXCEPT !.symbol = sym + 1]
    ELSE IF event.priority < BAR
      THEN [event EXCEPT !.symbol = 1, !.priority = event.priority + 1]
    ELSE [time |-> now + 1, priority |-> FUNDING, symbol |-> 1]

\* The series of a symbol is aligned and has no gap (CandleValidator).
CandleOpens ==
    /\ now \in FirstOpen[sym]..LastOpen[sym]
    /\ now % BarLength[sym] = 0

AtEvent(priority) ==
    /\ phase = "events"
    /\ now < Horizon
    /\ event.priority = priority

\* Funding and marks are optional, and aligned with a candle open; a symbol
\* has a candle at each of its opens and no other time.
NoEvent ==
    /\ phase = "events"
    /\ now < Horizon
    /\ event.priority = BAR => ~CandleOpens
    /\ event' = NextEvent
    /\ UNCHANGED <<orderVars, phase, bar, available, queue, accountVars>>

\* Mutant of Cancel: the row is written, the order stays open.
CancelLeavesOpen(o, at) == [o EXCEPT !.ledger = Append(@, Row(at, "CANCELED"))]

Cancel(o, at) ==
    [o EXCEPT !.closed = TRUE, !.ledger = Append(@, Row(at, "CANCELED"))]

CancelAll(ks, at) ==
    [k \in DOMAIN working |-> IF k \in ks THEN Cancel(working[k], at)
                                          ELSE working[k]]

\* Mutant of OpenOrders: orders not yet submitted are not found.
SubmittedOpenOrders(symbol) ==
    {k \in DOMAIN working : /\ ~working[k].closed
                            /\ working[k].intent.symbol = symbol
                            /\ working[k].intent.submitted <= now}

OpenOrders(symbol) ==
    {k \in DOMAIN working : ~working[k].closed
                            /\ working[k].intent.symbol = symbol}

\* _record_equity
RecordEquity(at) ==
    curve' = Append(curve,
        [at |-> at, equity |-> EquityOf(cash', positions', lastPrices')])

\* _execute, without the ledger row, which the caller adds to the order.
Execute(id, side, q, price, liquidity) ==
    LET p == positions[sym]
        gain == Scale * RealizedBy(p, side, q, price)
        fee == q * price * FeeRate(liquidity)
    IN  /\ positions' = [positions EXCEPT ![sym] = ApplyTrade(p, side, q, price)]
        /\ realized' = realized + gain
        /\ cash' = cash + gain - fee
        /\ totalFees' = totalFees + fee
        /\ fills' = Append(fills,
              [order |-> id, symbol |-> sym, side |-> side, at |-> now,
               quantity |-> q, price |-> price, liquidity |-> liquidity,
               fee |-> fee])

\* Mutant of SettleFunding: the payment is not added to the total.
SettleUncounted(f) ==
    /\ AtEvent(FUNDING)
    /\ CandleOpens
    /\ cash' = cash - positions[sym].quantity * f.mark * f.rate
    /\ lastPrices' = [lastPrices EXCEPT ![sym] = f.mark]
    /\ UNCHANGED <<totalFees, totalFunding, realized, positions, liquidations, fills>>
    /\ RecordEquity(now)
    /\ event' = NextEvent
    /\ UNCHANGED <<orderVars, phase, bar, available, queue>>

\* _apply_funding
SettleFunding(f) ==
    LET payment == -(positions[sym].quantity * f.mark * f.rate)
    IN  /\ AtEvent(FUNDING)
        /\ CandleOpens
        /\ cash' = cash + payment
        /\ totalFunding' = totalFunding + payment
        /\ lastPrices' = [lastPrices EXCEPT ![sym] = f.mark]
        /\ UNCHANGED <<totalFees, realized, positions, liquidations, fills>>
        /\ RecordEquity(now)
        /\ event' = NextEvent
        /\ UNCHANGED <<orderVars, phase, bar, available, queue>>

\* _apply_mark with a price the engine raises on: there is no result.
RefuseMark(price) ==
    /\ AtEvent(MARK)
    /\ CandleOpens
    /\ price <= 0
    /\ phase' = "failed"
    /\ UNCHANGED <<orderVars, event, bar, available, queue, accountVars>>

\* _apply_mark that liquidates nothing
ApplyMark(price) ==
    /\ AtEvent(MARK)
    /\ CandleOpens
    /\ price > 0
    /\ ~(LiquidationOn /\ Breached(positions[sym], price))
    /\ lastPrices' = [lastPrices EXCEPT ![sym] = price]
    /\ UNCHANGED <<cash, totalFees, totalFunding, realized, positions,
                   liquidations, fills>>
    /\ RecordEquity(now)
    /\ event' = NextEvent
    /\ UNCHANGED <<orderVars, phase, bar, available, queue>>

\* _apply_mark through _check_liquidation.  The order id LIQ-<symbol>-<n> is
\* the negative number -n.
Liquidate(price) ==
    LET p == positions[sym]
        side == IF p.quantity > 0 THEN SELL ELSE BUY
    IN  /\ AtEvent(MARK)
        /\ CandleOpens
        /\ price > 0
        /\ LiquidationOn
        /\ Breached(p, price)
        /\ lastPrices' = [lastPrices EXCEPT ![sym] = price]
        /\ Execute(-(liquidations + 1), side, Abs(p.quantity),
                   RoundAdverse(price, 1, sym, side), "LIQUIDATION")
        /\ liquidations' = liquidations + 1
        /\ working' = CancelAll(OpenOrders(sym), now)
        /\ UNCHANGED totalFunding
        /\ RecordEquity(now)
        /\ event' = NextEvent
        /\ UNCHANGED <<book, pending, phase, bar, available, queue>>
-----------------------------------------------------------------------------
(***************************************************************************)
(* _apply_bar.                                                             *)
(***************************************************************************)

\* Mutant of Active: latency is forgotten.
ActiveAtSubmission(k) ==
    /\ k \in OpenOrders(sym)
    /\ working[k].intent.submitted <= now

Active(k) ==
    /\ k \in OpenOrders(sym)
    /\ working[k].intent.submitted + Latency <= now

Candidates(b) ==
    UNION {{[order |-> k, raw |-> o.raw, liquidity |-> o.liquidity] :
              o \in Offers(working[k].intent, b)} :
           k \in {x \in DOMAIN working : Active(x)}}

Oco(c) == working[c.order].intent.oco

\* The member min (long) or max (short) of raw_price picks from its group:
\* on a tie, the first in working order.
WorstOfGroup(c, reached) ==
    \A d \in {x \in reached : Oco(x) = Oco(c)} :
        LET ahead == positions[sym].quantity * (d.raw - c.raw)
        IN  ahead > 0 \/ (ahead = 0 /\ c.order <= d.order)

\* _resolve_oco
ResolveOco(reached) ==
    {c \in reached : \/ Oco(c) = None
                     \/ positions[sym].quantity = 0
                     \/ WorstOfGroup(c, reached)}

\* _apply_bar up to its loop over the candidates
OpenBar(b) ==
    LET reached == Candidates(b)
        missed == {k \in DOMAIN working :
                     /\ Active(k)
                     /\ Offers(working[k].intent, b) = {}
                     /\ working[k].intent.ioc}
    IN  /\ AtEvent(BAR)
        /\ CandleOpens
        /\ bar' = b
        /\ available' = Capacity(b, sym)
        /\ queue' = ResolveOco(reached)
        /\ working' = CancelAll(missed, now)
        /\ phase' = "bar"
        /\ UNCHANGED <<book, pending, event, accountVars>>

\* Order of the candidates: standalone by client order id, then the groups
\* by name, each by client order id.
Rank(c) == IF Oco(c) = None THEN -1 ELSE Oco(c)

Ahead(c, d) ==
    \/ Rank(c) < Rank(d)
    \/ /\ Rank(c) = Rank(d)
       /\ working[c.order].intent.id < working[d.order].intent.id

IsNextCandidate(c) ==
    /\ phase = "bar"
    /\ available > 0
    /\ c \in queue
    /\ \A d \in queue \ {c} : Ahead(c, d)

\* _fill_candidate up to the execution
WouldIncrease(c) ==
    /\ working[c.order].intent.reduceOnly
    /\ Extends(positions[sym], working[c.order].intent.side)

\* Mutants of FillQuantity: the order's remainder, the bar's liquidity or the
\* reduce-only cap is forgotten.
FillQuantityBeyondOrder(c) ==
    LET held == Abs(positions[sym].quantity)
    IN  IF working[c.order].intent.reduceOnly /\ held < available THEN held
                                                               ELSE available
FillQuantityBeyondBar(c) ==
    LET o == working[c.order]
        held == Abs(positions[sym].quantity)
    IN  IF o.intent.reduceOnly /\ held < o.remaining THEN held ELSE o.remaining
FillQuantityUncapped(c) ==
    IF working[c.order].remaining < available THEN working[c.order].remaining
                                              ELSE available

FillQuantity(c) ==
    LET o == working[c.order]
        q == IF o.remaining < available THEN o.remaining ELSE available
        held == Abs(positions[sym].quantity)
    IN  IF o.intent.reduceOnly /\ held < q THEN held ELSE q

FillPrice(c) == ExecutionPrice(working[c.order].intent, c)

Affordable(c) ==
    LET more == AdditionalExposure(positions[sym], working[c.order].intent.side,
                                   FillQuantity(c))
    IN  more > 0 => HasMargin(cash, positions, lastPrices, more, FillPrice(c))

Executable(c) ==
    /\ ~WouldIncrease(c)
    /\ FillQuantity(c) * FillPrice(c) >= MinNotional[sym]
    /\ Affordable(c)

\* Mutant of CancelCandidate: a refused candidate ends the bar.
CancelEndsBar(c) ==
    /\ IsNextCandidate(c)
    /\ ~Executable(c)
    /\ working' = CancelAll({c.order}, now)
    /\ queue' = {}
    /\ UNCHANGED <<book, pending, phase, event, bar, available, accountVars>>

\* Reduce-only that would increase, below minimum notional, or no margin
CancelCandidate(c) ==
    /\ IsNextCandidate(c)
    /\ ~Executable(c)
    /\ working' = CancelAll({c.order}, now)
    /\ queue' = queue \ {c}
    /\ UNCHANGED <<book, pending, phase, event, bar, available, accountVars>>

\* Mutants of Filled: the remainder stays, or a market or IOC order stays open.
FilledKeepsRemainder(o, q) ==
    [o EXCEPT !.closed = @ \/ o.remaining = q \/ o.intent.type = "MARKET" \/ o.intent.ioc,
              !.ledger = Append(@, Row(now, "FILLED"))]
FilledStaysOpen(o, q) ==
    [o EXCEPT !.remaining = @ - q,
              !.closed = @ \/ o.remaining = q,
              !.ledger = Append(@, Row(now, "FILLED"))]

\* The filled order: closed when nothing remains or it is a market order;
\* what remains of a market or IOC order is canceled.
Filled(o, q) ==
    LET left == o.remaining - q
        market == o.intent.type = "MARKET"
        row == <<Row(now, "FILLED")>>
    IN  [o EXCEPT
          !.remaining = left,
          !.closed = @ \/ left = 0 \/ market \/ o.intent.ioc,
          !.ledger = @ \o IF left > 0 /\ (market \/ o.intent.ioc)
                            THEN row \o <<Row(now, "CANCELED")>>
                            ELSE row]

\* Mutant of Siblings: only those of the filled order's symbol.
SiblingsOfSymbol(k) ==
    {j \in DOMAIN working \ {k} : /\ ~working[j].closed
                                  /\ working[k].intent.oco \notin {None, 0}
                                  /\ working[j].intent.oco = working[k].intent.oco
                                  /\ working[j].intent.symbol = working[k].intent.symbol}

\* The open orders of its group; a blank group name cancels nothing.
Siblings(k) ==
    {j \in DOMAIN working \ {k} : /\ ~working[j].closed
                                  /\ working[k].intent.oco \notin {None, 0}
                                  /\ working[j].intent.oco = working[k].intent.oco}

FillCandidate(c) ==
    LET o == working[c.order]
        q == FillQuantity(c)
    IN  /\ IsNextCandidate(c)
        /\ Executable(c)
        /\ Execute(o.intent.id, o.intent.side, q, FillPrice(c), c.liquidity)
        /\ working' = [CancelAll(Siblings(c.order), now)
                         EXCEPT ![c.order] = Filled(o, q)]
        /\ available' = available - q
        /\ queue' = queue \ {c}
        /\ UNCHANGED <<book, pending, phase, event, bar, totalFunding,
                       lastPrices, liquidations, curve>>

\* The loop ends, or breaks with no liquidity left.
CloseBar ==
    /\ phase = "bar"
    /\ queue = {} \/ available = 0
    /\ lastPrices' = [lastPrices EXCEPT ![sym] = bar.close]
    /\ UNCHANGED <<cash, totalFees, totalFunding, realized, positions,
                   liquidations, fills>>
    /\ RecordEquity(now + BarLength[sym])
    /\ phase' = "events"
    /\ event' = NextEvent
    /\ bar' = None
    /\ available' = 0
    /\ queue' = {}
    /\ UNCHANGED orderVars

Finish ==
    /\ phase = "events"
    /\ now = Horizon
    /\ phase' = "done"
    /\ UNCHANGED <<orderVars, event, bar, available, queue, accountVars>>

\* The run has returned or raised.
Returned == phase \in {"done", "failed"} /\ UNCHANGED vars
-----------------------------------------------------------------------------
Next ==
    \/ \E i \in pending : AcceptIntent(i) \/ RejectIntent(i)
    \/ StartEvents
    \/ NoEvent
    \/ \E f \in FundingEvents : SettleFunding(f)
    \/ \E m \in Marks : RefuseMark(m) \/ ApplyMark(m) \/ Liquidate(m)
    \/ \E b \in Bars : OpenBar(b)
    \/ \E c \in queue : CancelCandidate(c) \/ FillCandidate(c)
    \/ CloseBar
    \/ Finish
    \/ Returned

Spec == Init /\ [][Next]_vars
=============================================================================
