--------------------------- MODULE BacktestProofs ---------------------------
(***************************************************************************)
(* Theorems about every run of the backtest engine, for every request and  *)
(* every execution model the assumptions admit.                            *)
(***************************************************************************)
EXTENDS BacktestProperties, SumLemmas, SequenceTheorems, TLAPS

-----------------------------------------------------------------------------
(***************************************************************************)
(* What the pure rules of ExecutionModel return, for every value of the    *)
(* parameters the assumption admits.                                       *)
(***************************************************************************)
PositionType == [quantity : Int, average : Int]

(***************************************************************************)
(* A trade turns a position into a position and realizes a whole amount    *)
(* (_Position.apply): the entry price of a position it extends is divided  *)
(* by a quantity that is not zero.                                         *)
(***************************************************************************)
LEMMA TradeType ==
    ASSUME NEW p \in PositionType, NEW side \in Sides,
           NEW q \in Nat \ {0}, NEW price \in Int
    PROVE  /\ ApplyTrade(p, side, q, price) \in PositionType
           /\ RealizedBy(p, side, q, price) \in Int
<1> DEFINE new == p.quantity + side * q
<1>1. p.quantity \in Int /\ p.average \in Int /\ new \in Int /\ side \in Int
  BY DEF PositionType, Sides, BUY, SELL
<1>2. Abs(p.quantity) \in Nat /\ Abs(new) \in Nat
  BY <1>1 DEF Abs
<1>3. ASSUME Extends(p, side) PROVE Abs(new) \in Nat \ {0}
  BY <1>1, <1>3 DEF Extends, Abs, Sides, BUY, SELL
<1>4. AverageAfter(p, side, q, price) \in Int
  <2>1. CASE Extends(p, side)
    <3>1. Abs(p.quantity) * p.average + q * price \in Int
      BY <1>1, <1>2
    <3>2. (Abs(p.quantity) * p.average + q * price) \div Abs(new) \in Int
      BY <3>1, <1>3, <2>1
    <3> QED BY <3>2, <2>1 DEF AverageAfter
  <2>2. CASE ~Extends(p, side)
    BY <2>2, <1>1 DEF AverageAfter
  <2> QED BY <2>1, <2>2
<1>5. Closed(p, side, q) \in Int
  BY <1>2 DEF Closed
<1>6. Direction(p) \in Int
  BY DEF Direction
<1>7. RealizedBy(p, side, q, price) \in Int
  BY <1>1, <1>5, <1>6 DEF RealizedBy
<1> QED BY <1>1, <1>4, <1>7 DEF ApplyTrade, PositionType

(***************************************************************************)
(* Rounding down and up to a multiple of d.                                *)
(***************************************************************************)
LEMMA Division ==
    ASSUME NEW a \in Int, NEW d \in Nat \ {0}
    PROVE  /\ a \div d \in Int
           /\ CeilDiv(a, d) \in Int
           /\ d * (a \div d) <= a
           /\ a <= d * CeilDiv(a, d)
<1>1. /\ a \div d \in Int /\ a % d \in Int
      /\ a = d * (a \div d) + (a % d)
      /\ 0 <= a % d
  OBVIOUS
<1>2. /\ (-a) \div d \in Int /\ (-a) % d \in Int
      /\ -a = d * ((-a) \div d) + ((-a) % d)
      /\ 0 <= (-a) % d
  OBVIOUS
<1> QED BY <1>1, <1>2 DEF CeilDiv

OfferType == [raw : Int, liquidity : {"MAKER", "TAKER"}]

\* What _order_rejection_reason guarantees of an accepted intent.
SoundIntent(i) ==
    /\ i \in OrderIntent
    /\ i.id # 0
    /\ i.symbol \in Symbols
    /\ i.type = "LIMIT" => i.limit \in Int /\ i.limit % TickSize[i.symbol] = 0
    /\ i.type = "STOP_MARKET" => i.trigger \in Int

LEMMA AcceptableIsSound ==
    ASSUME NEW i \in OrderIntent, NEW ids, Acceptable(i, ids)
    PROVE  SoundIntent(i) /\ i.quantity \in Nat \ {0} /\ i.id \notin ids
BY ParametersAssumption DEF Acceptable, SoundIntent, OnTick, OrderIntent

(***************************************************************************)
(* A bar offers an accepted order executions at integer prices             *)
(* (_candidate).                                                           *)
(***************************************************************************)
LEMMA OffersType ==
    ASSUME NEW i, SoundIntent(i), NEW b, ValidBar(b)
    PROVE  Offers(i, b) \subseteq OfferType
<1>1. /\ b.open \in Int /\ b.high \in Int /\ b.low \in Int
      /\ i.type \in OrderTypes
  BY DEF ValidBar, SoundIntent, OrderIntent
<1>2. CASE i.type = "MARKET"
  BY <1>1, <1>2 DEF Offers, Offer, OfferType
<1>3. CASE i.type = "STOP_MARKET"
  <2>1. i.trigger \in Int
    BY <1>3 DEF SoundIntent
  <2>2. StopOffers(i, b) \subseteq {Offer(b.open, "TAKER"), Offer(i.trigger, "TAKER")}
    BY DEF StopOffers
  <2> QED BY <1>1, <1>3, <2>1, <2>2 DEF Offers, Offer, OfferType
<1>4. CASE i.type = "LIMIT"
  <2>1. i.limit \in Int
    BY <1>4 DEF SoundIntent
  <2>2. LimitOffers(i, b) \subseteq {Offer(b.open, "TAKER"), Offer(i.limit, "MAKER")}
    BY DEF LimitOffers
  <2> QED BY <1>1, <1>4, <2>1, <2>2 DEF Offers, Offer, OfferType
<1> QED BY <1>1, <1>2, <1>3, <1>4 DEF OrderTypes

(***************************************************************************)
(* Prices, fees and capacities are numbers (_execution_price, _execute).   *)
(***************************************************************************)
LEMMA RoundAdverseType ==
    ASSUME NEW num \in Int, NEW den \in Nat \ {0}, NEW x \in Symbols, NEW side
    PROVE  RoundAdverse(num, den, x, side) \in Int
<1>1. TickSize[x] \in Nat \ {0}
  BY ParametersAssumption
<1>2. den * TickSize[x] \in Nat \ {0}
  BY <1>1
<1>3. /\ num \div (den * TickSize[x]) \in Int
      /\ CeilDiv(num, den * TickSize[x]) \in Int
  BY <1>2, Division
<1> QED BY <1>1, <1>3 DEF RoundAdverse

LEMMA ExecutionPriceType ==
    ASSUME NEW i, SoundIntent(i), NEW offer, offer.raw \in Int
    PROVE  ExecutionPrice(i, offer) \in Int
<1>1. /\ Scale \in Nat \ {0} /\ CostRate \in Nat
      /\ i.side \in Int /\ i.symbol \in Symbols
  BY ParametersAssumption DEF SoundIntent, OrderIntent, Sides, BUY, SELL
<1>2. offer.raw * (Scale + i.side * CostRate) \in Int
  BY <1>1
<1>3. i.type = "LIMIT" => i.limit * Scale \in Int
  BY <1>1 DEF SoundIntent
<1> DEFINE costed == offer.raw * (Scale + i.side * CostRate)
           capped == IF i.type = "LIMIT" /\ i.limit # 0
                       THEN Better(i.side, costed, i.limit * Scale)
                       ELSE costed
<1>4. capped \in Int
  BY <1>2, <1>3 DEF Better
<1>5. RoundAdverse(capped, Scale, i.symbol, i.side) \in Int
  BY <1>1, <1>4, RoundAdverseType
<1> QED BY <1>5 DEF ExecutionPrice

LEMMA CapacityType ==
    ASSUME NEW b, ValidBar(b), NEW x \in Symbols
    PROVE  Capacity(b, x) \in Nat
<1>1. /\ b.volume \in Nat /\ ParticipationRate \in Nat
      /\ Scale \in Nat \ {0} /\ QuantityStep[x] \in Nat \ {0}
  BY ParametersAssumption DEF ValidBar
<1>2. b.volume * ParticipationRate \in Nat
  BY <1>1
<1>3. (b.volume * ParticipationRate) \div Scale \in Nat
  BY <1>1, <1>2
<1>4. ((b.volume * ParticipationRate) \div Scale) \div QuantityStep[x] \in Nat
  BY <1>1, <1>3
<1> QED BY <1>1, <1>4 DEF Capacity, FloorStep

(***************************************************************************)
(* Rounding down is the greatest multiple below, rounding up the least     *)
(* above.                                                                  *)
(***************************************************************************)
LEMMA FloorIsGreatest ==
    ASSUME NEW a \in Int, NEW d \in Nat \ {0}, NEW m \in Int, d * m <= a
    PROVE  m <= a \div d
<1> DEFINE n == a \div d
<1>1. n \in Int /\ a < d * n + d
  <2>1. a \div d \in Int /\ a % d \in Int /\ a = d * (a \div d) + (a % d) /\ a % d < d
    OBVIOUS
  <2> QED BY <2>1
<1> HIDE DEF n
<1>2. d * m < d * (n + 1)
  BY <1>1
<1>3. ASSUME n + 1 <= m PROVE FALSE
  <2>1. d * (n + 1) <= d * m
    BY <1>1, <1>3
  <2> QED BY <1>1, <1>2, <2>1
<1> QED BY <1>1, <1>3 DEF n

LEMMA CeilIsLeast ==
    ASSUME NEW a \in Int, NEW d \in Nat \ {0}, NEW m \in Int, a <= d * m
    PROVE  CeilDiv(a, d) <= m
<1>1. d * (-m) <= -a
  OBVIOUS
<1>2. -m <= (-a) \div d
  BY <1>1, FloorIsGreatest
<1>3. (-a) \div d \in Int
  BY Division
<1> QED BY <1>2, <1>3 DEF CeilDiv

(***************************************************************************)
(* Rounding against the trader does not pass a limit that is on the tick   *)
(* (_round_adverse).                                                       *)
(***************************************************************************)
LEMMA RoundAdverseWithin ==
    ASSUME NEW num \in Int, NEW den \in Nat \ {0}, NEW x \in Symbols,
           NEW side \in Sides, NEW limit \in Int, limit % TickSize[x] = 0,
           side * (limit * den - num) >= 0
    PROVE  side * (limit - RoundAdverse(num, den, x, side)) >= 0
<1> DEFINE t == TickSize[x]
           d == den * t
           m == limit \div t
<1>1. t \in Nat \ {0}
  BY ParametersAssumption
<1>2. d \in Nat \ {0}
  BY <1>1
<1>3. m \in Int /\ limit = t * m
  <2>1. limit \div t \in Int /\ limit = t * (limit \div t) + (limit % t)
    BY <1>1
  <2> QED BY <1>1, <2>1
<1> HIDE DEF t, m
<1>4. limit * den = d * m
  BY <1>1, <1>3
<1>5. side \in {1, -1}
  BY DEF Sides, BUY, SELL
<1> HIDE DEF d
<1>6. CASE side = 1
  <2>1. num <= d * m
    BY <1>1, <1>2, <1>3, <1>4, <1>6
  <2>2. CeilDiv(num, d) \in Int /\ CeilDiv(num, d) <= m
    BY <1>2, <1>3, <2>1, CeilIsLeast, Division
  <2>3. t * CeilDiv(num, d) <= t * m
    BY <1>1, <1>3, <2>2
  <2>4. RoundAdverse(num, den, x, side) = t * CeilDiv(num, d)
    BY <1>6 DEF RoundAdverse, BUY, t, d
  <2> QED BY <1>1, <1>3, <1>6, <2>2, <2>3, <2>4
<1>7. CASE side = -1
  <2>1. d * m <= num
    BY <1>1, <1>2, <1>3, <1>4, <1>7
  <2>2. num \div d \in Int /\ m <= num \div d
    BY <1>2, <1>3, <2>1, FloorIsGreatest, Division
  <2>3. t * m <= t * (num \div d)
    BY <1>1, <1>3, <2>2
  <2>4. RoundAdverse(num, den, x, side) = t * (num \div d)
    BY <1>7 DEF RoundAdverse, BUY, t, d
  <2> QED BY <1>1, <1>3, <1>7, <2>2, <2>3, <2>4
<1> QED BY <1>5, <1>6, <1>7

(***************************************************************************)
(* A limit order executes at its limit or better: as a maker at its limit, *)
(* as a taker at a price capped at the limit and then rounded              *)
(* (_execution_price).                                                     *)
(***************************************************************************)
LEMMA ExecutionWithinLimit ==
    ASSUME NEW i, SoundIntent(i), i.type = "LIMIT", i.limit # 0,
           NEW offer, offer.raw \in Int,
           offer.liquidity = "MAKER" => offer.raw = i.limit
    PROVE  i.side * (i.limit - ExecutionPrice(i, offer)) >= 0
<1> DEFINE costed == offer.raw * (Scale + i.side * CostRate)
           capped == Better(i.side, costed, i.limit * Scale)
<1>1. /\ Scale \in Nat \ {0} /\ CostRate \in Nat
      /\ i.side \in {1, -1} /\ i.side \in Sides
      /\ i.symbol \in Symbols
      /\ i.limit \in Int /\ i.limit % TickSize[i.symbol] = 0
  BY ParametersAssumption DEF SoundIntent, OrderIntent, Sides, BUY, SELL
<1>2. costed \in Int /\ i.limit * Scale \in Int
  BY <1>1
<1>3. capped \in Int /\ i.side * (i.limit * Scale - capped) >= 0
  <2> HIDE DEF costed
  <2>1. CASE i.side = 1
    BY <1>2, <2>1 DEF Better
  <2>2. CASE i.side = -1
    BY <1>2, <2>2 DEF Better
  <2> QED BY <1>1, <2>1, <2>2
<1> HIDE DEF costed, capped
<1>4. CASE offer.liquidity = "MAKER"
  BY <1>1, <1>4 DEF ExecutionPrice
<1>5. CASE offer.liquidity # "MAKER"
  <2>1. ExecutionPrice(i, offer) = RoundAdverse(capped, Scale, i.symbol, i.side)
    BY <1>5 DEF ExecutionPrice, costed, capped
  <2> QED BY <1>1, <1>3, <2>1, RoundAdverseWithin
<1> QED BY <1>4, <1>5

\* What a bar offers a limit order as a maker is its limit (_candidate).
LEMMA MakerOfferIsLimit ==
    ASSUME NEW i, NEW b, i.type = "LIMIT", NEW o \in Offers(i, b),
           o.liquidity = "MAKER"
    PROVE  o.raw = i.limit
BY DEF Offers, LimitOffers, Offer

LEMMA FeeRateType ==
    ASSUME NEW liquidity \in Liquidities
    PROVE  FeeRate(liquidity) \in Nat
BY ParametersAssumption DEF FeeRate, Liquidities


-----------------------------------------------------------------------------
(***************************************************************************)
(* The invariant behind the type invariant: accepted intents are sound, an *)
(* open order has something left, client order ids are unique, and the     *)
(* candidates of a bar are orders of its symbol that are active and have   *)
(* something left.                                                         *)
(***************************************************************************)
OrdersSound ==
    \A k \in DOMAIN working :
        /\ SoundIntent(working[k].intent)
        /\ ~working[k].closed => working[k].remaining > 0

IdentifiersUnique ==
    \A k, l \in DOMAIN working :
        working[k].intent.id = working[l].intent.id => k = l

QueueSound ==
    /\ queue # {} => phase = "bar"
    /\ \A c \in queue :
          /\ c.order \in DOMAIN working
          /\ working[c.order].remaining > 0
          /\ working[c.order].intent.symbol = sym
          /\ working[c.order].intent.submitted + Latency <= now

IndInv == TypeOK /\ OrdersSound /\ IdentifiersUnique /\ QueueSound

\* v is w with the same orders, none reopened.
Keeps(w, v) ==
    /\ v \in Seq(WorkingOrders)
    /\ DOMAIN v = DOMAIN w
    /\ \A k \in DOMAIN w :
          /\ v[k].intent = w[k].intent
          /\ ~v[k].closed => ~w[k].closed

LEMMA CancelType ==
    ASSUME NEW o \in WorkingOrders, NEW at \in Nat
    PROVE  /\ Cancel(o, at) \in WorkingOrders
           /\ Cancel(o, at).intent = o.intent
           /\ Cancel(o, at).remaining = o.remaining
           /\ Cancel(o, at).closed
<1>1. Row(at, "CANCELED") \in LedgerRow
  BY DEF Row, LedgerRow
<1>2. Append(o.ledger, Row(at, "CANCELED")) \in Seq(LedgerRow)
  BY <1>1, AppendProperties DEF WorkingOrders
<1> QED BY <1>2 DEF Cancel, WorkingOrders

(***************************************************************************)
(* Canceling any set of orders keeps the orders and what remains of them.  *)
(***************************************************************************)
LEMMA CancelAllKeeps ==
    ASSUME working \in Seq(WorkingOrders), NEW ks, NEW at \in Nat
    PROVE  /\ Keeps(working, CancelAll(ks, at))
           /\ \A k \in DOMAIN working :
                 CancelAll(ks, at)[k].remaining = working[k].remaining
<1> DEFINE v == CancelAll(ks, at)
<1>1. /\ Len(working) \in Nat
      /\ DOMAIN working = 1..Len(working)
      /\ \A k \in DOMAIN working : working[k] \in WorkingOrders
  BY LenProperties, ElementOfSeq
<1>2. /\ DOMAIN v = DOMAIN working
      /\ \A k \in DOMAIN working :
            v[k] = IF k \in ks THEN Cancel(working[k], at) ELSE working[k]
  BY DEF CancelAll
<1>3. \A k \in DOMAIN working :
         /\ v[k] \in WorkingOrders
         /\ v[k].intent = working[k].intent
         /\ v[k].remaining = working[k].remaining
         /\ ~v[k].closed => ~working[k].closed
  <2> TAKE k \in DOMAIN working
  <2>1. working[k] \in WorkingOrders
    BY <1>1
  <2>2. CASE k \in ks
    <3>1. v[k] = Cancel(working[k], at)
      BY <1>2, <2>2
    <3>2. /\ Cancel(working[k], at) \in WorkingOrders
          /\ Cancel(working[k], at).intent = working[k].intent
          /\ Cancel(working[k], at).remaining = working[k].remaining
          /\ Cancel(working[k], at).closed
      BY <2>1, CancelType
    <3> QED BY <3>1, <3>2, Zenon
  <2>3. CASE k \notin ks
    BY <1>2, <2>1, <2>3
  <2> QED BY <2>2, <2>3
<1>4. v \in [1..Len(working) -> WorkingOrders]
  BY <1>1, <1>2, <1>3 DEF CancelAll
<1>5. v \in Seq(WorkingOrders)
  BY <1>1, <1>4, SeqDef
<1> QED BY <1>2, <1>3, <1>5 DEF Keeps

(***************************************************************************)
(* A fill of no more than the remainder keeps the order's type, and leaves *)
(* it open only with something left (_fill_candidate).                     *)
(***************************************************************************)
LEMMA FilledType ==
    ASSUME NEW o \in WorkingOrders, NEW q \in Nat, q <= o.remaining, now \in Nat
    PROVE  /\ Filled(o, q) \in WorkingOrders
           /\ Filled(o, q).intent = o.intent
           /\ Filled(o, q).remaining = o.remaining - q
           /\ ~Filled(o, q).closed => ~o.closed /\ o.remaining - q > 0
<1>1. o.remaining - q \in Nat
  BY DEF WorkingOrders
<1>2. /\ <<Row(now, "FILLED")>> \in Seq(LedgerRow)
      /\ <<Row(now, "CANCELED")>> \in Seq(LedgerRow)
  BY DEF Row, LedgerRow
<1>3. <<Row(now, "FILLED")>> \o <<Row(now, "CANCELED")>> \in Seq(LedgerRow)
  BY <1>2, ConcatProperties
<1>4. Filled(o, q).ledger \in Seq(LedgerRow)
  BY <1>2, <1>3, ConcatProperties DEF Filled, WorkingOrders
<1>5. Filled(o, q).closed \in BOOLEAN
  BY DEF Filled, WorkingOrders
<1>6. /\ Filled(o, q) \in WorkingOrders
      /\ Filled(o, q).intent = o.intent
      /\ Filled(o, q).remaining = o.remaining - q
  BY <1>1, <1>4, <1>5 DEF Filled, WorkingOrders
<1>7. o.closed \/ o.remaining - q = 0 => Filled(o, q).closed
  BY DEF Filled, WorkingOrders
<1>8. o.remaining - q # 0 => o.remaining - q > 0
  BY <1>1
<1> QED BY <1>6, <1>7, <1>8, Zenon

LEMMA NextEventType ==
    ASSUME event \in [time : Nat, priority : {FUNDING, MARK, BAR}, symbol : Symbols]
    PROVE  NextEvent \in [time : Nat, priority : {FUNDING, MARK, BAR}, symbol : Symbols]
<1>1. /\ event.time \in Nat /\ event.priority \in {0, 1, 2}
      /\ event.symbol \in 1..NumSymbols
      /\ NumSymbols \in Nat \ {0}
  BY ParametersAssumption DEF Symbols, FUNDING, MARK, BAR
<1>2. CASE sym < NumSymbols
  BY <1>1, <1>2 DEF NextEvent, sym, Symbols
<1>3. CASE ~(sym < NumSymbols) /\ event.priority < BAR
  <2>1. NextEvent = [event EXCEPT !.symbol = 1, !.priority = event.priority + 1]
    BY <1>3 DEF NextEvent
  <2>2. event.priority + 1 \in {0, 1, 2} /\ 1 \in Symbols
    BY <1>1, <1>3 DEF Symbols, BAR
  <2> QED BY <2>1, <2>2 DEF FUNDING, MARK, BAR
<1>4. CASE ~(sym < NumSymbols) /\ ~(event.priority < BAR)
  BY <1>1, <1>4 DEF NextEvent, sym, now, Symbols, FUNDING, MARK, BAR
<1> QED BY <1>2, <1>3, <1>4

(***************************************************************************)
(* An execution keeps the account's types (_execute).                      *)
(***************************************************************************)
LEMMA ExecuteType ==
    ASSUME TypeOK, NEW id \in Int, NEW side \in Sides, NEW q \in Nat \ {0},
           NEW price \in Int, NEW liquidity \in Liquidities,
           Execute(id, side, q, price, liquidity)
    PROVE  /\ cash' \in Int /\ totalFees' \in Int /\ realized' \in Int
           /\ positions' \in [Symbols -> [quantity : Int, average : Int]]
           /\ fills' \in Seq(Fill)
<1> DEFINE p == positions[sym]
           gain == Scale * RealizedBy(p, side, q, price)
           fee == q * price * FeeRate(liquidity)
<1>1. /\ sym \in Symbols /\ now \in Nat
      /\ p \in PositionType
      /\ cash \in Int /\ totalFees \in Int /\ realized \in Int
      /\ Scale \in Nat
  BY ParametersAssumption DEF TypeOK, sym, now, PositionType
<1>2. ApplyTrade(p, side, q, price) \in PositionType /\ gain \in Int
  BY <1>1, TradeType
<1>3. fee \in Int
  <2>1. FeeRate(liquidity) \in Nat
    BY FeeRateType
  <2> QED BY <2>1
<1>4. [order |-> id, symbol |-> sym, side |-> side, at |-> now,
       quantity |-> q, price |-> price, liquidity |-> liquidity,
       fee |-> fee] \in Fill
  BY <1>1, <1>3 DEF Fill
<1>5. fills' \in Seq(Fill)
  BY <1>4, AppendProperties DEF Execute, TypeOK
<1>6. positions' \in [Symbols -> [quantity : Int, average : Int]]
  BY <1>1, <1>2 DEF Execute, TypeOK, PositionType
<1>7. cash' = cash + gain - fee /\ totalFees' = totalFees + fee
      /\ realized' = realized + gain
  BY DEF Execute
<1>8. cash + gain - fee \in Int /\ totalFees + fee \in Int /\ realized + gain \in Int
  <2> HIDE DEF gain, fee
  <2> QED BY <1>1, <1>2, <1>3
<1> QED BY <1>5, <1>6, <1>7, <1>8

(***************************************************************************)
(* What _fill_candidate fills: something, within the order's remainder,    *)
(* the bar's liquidity and, for a reduce-only order, the position.         *)
(***************************************************************************)
LEMMA FillQuantityBounds ==
    ASSUME TypeOK, QueueSound, NEW c \in queue, available > 0, ~WouldIncrease(c)
    PROVE  /\ FillQuantity(c) \in Nat \ {0}
           /\ FillQuantity(c) <= working[c.order].remaining
           /\ FillQuantity(c) <= available
           /\ working[c.order].intent.reduceOnly
                => /\ ~Extends(positions[sym], working[c.order].intent.side)
                   /\ FillQuantity(c) <= Abs(positions[sym].quantity)
<1>1. /\ working[c.order].remaining \in Nat \ {0}
      /\ available \in Nat \ {0}
      /\ positions[sym].quantity \in Int
  <2>1. working[c.order] \in WorkingOrders /\ working[c.order].remaining > 0
    BY ElementOfSeq, LenProperties DEF TypeOK, QueueSound
  <2>2. sym \in Symbols
    BY DEF TypeOK, sym
  <2>3. working[c.order].remaining \in Nat \ {0}
    BY <2>1 DEF WorkingOrders
  <2>4. available \in Nat \ {0}
    BY DEF TypeOK
  <2>5. positions[sym].quantity \in Int
    BY <2>2 DEF TypeOK
  <2> QED BY <2>3, <2>4, <2>5
<1>2. Abs(positions[sym].quantity) \in Nat
  BY <1>1 DEF Abs
<1>3. working[c.order].intent.reduceOnly
        => /\ ~Extends(positions[sym], working[c.order].intent.side)
           /\ Abs(positions[sym].quantity) # 0
  BY <1>1 DEF WouldIncrease, Extends, Abs
<1> QED BY <1>1, <1>2, <1>3 DEF FillQuantity
-----------------------------------------------------------------------------
(***************************************************************************)
(* The invariant holds initially and no step breaks it.                    *)
(***************************************************************************)
LEMMA InitIndInv == Init => IndInv
<1> SUFFICES ASSUME Init PROVE IndInv
  OBVIOUS
<1> USE DEF Init
<1>1. 1 \in Symbols
  BY ParametersAssumption DEF Symbols
<1>2. TypeOK
  <2>1. event \in [time : Nat, priority : {FUNDING, MARK, BAR}, symbol : Symbols]
    BY <1>1
  <2>2. cash \in Int
    BY RequestAssumption
  <2>3. positions \in [Symbols -> [quantity : Int, average : Int]]
    BY DEF Flat
  <2>4. working \in Seq(WorkingOrders) /\ fills \in Seq(Fill)
    OBVIOUS
  <2>5. pending \subseteq DOMAIN book /\ queue \subseteq Candidate
    OBVIOUS
  <2> QED BY <2>1, <2>2, <2>3, <2>4, <2>5 DEF TypeOK
<1>3. DOMAIN working = {}
  OBVIOUS
<1> QED BY <1>2, <1>3 DEF IndInv, OrdersSound, IdentifiersUnique, QueueSound

LEMMA AcceptIntentInv ==
    ASSUME IndInv, NEW i \in pending, AcceptIntent(i)
    PROVE  IndInv'
<1> DEFINE o == WorkingOrder(book[i])
           n == Len(working)
<1>1. /\ TypeOK /\ OrdersSound /\ IdentifiersUnique /\ QueueSound
      /\ phase = "prepare" /\ queue = {}
      /\ Acceptable(book[i], Identifiers)
      /\ working' = Append(working, o)
      /\ UNCHANGED <<book, phase, event, bar, available, queue>>
  BY DEF IndInv, AcceptIntent, QueueSound, loopVars
<1>2. book[i] \in OrderIntent
  <2>1. book \in Seq(OrderIntent) /\ i \in DOMAIN book
    BY <1>1, RequestAssumption DEF TypeOK
  <2> QED BY <2>1, ElementOfSeq, LenProperties
<1>3. /\ SoundIntent(book[i])
      /\ book[i].quantity \in Nat \ {0}
      /\ book[i].id \notin Identifiers
  BY <1>1, <1>2, AcceptableIsSound
<1>4. o.intent = book[i] /\ o.remaining = book[i].quantity
  BY DEF WorkingOrder
<1>5. o \in WorkingOrders
  <2>1. book[i].submitted \in Nat
    BY <1>2 DEF OrderIntent
  <2>2. Row(book[i].submitted, "ACCEPTED") \in LedgerRow
    BY <2>1 DEF Row, LedgerRow
  <2>3. <<Row(book[i].submitted, "ACCEPTED")>> \in Seq(LedgerRow)
    BY <2>2
  <2> QED BY <1>2, <1>3, <2>3 DEF WorkingOrder, WorkingOrders
<1>6. /\ working' \in Seq(WorkingOrders)
      /\ n \in Nat /\ DOMAIN working = 1..n
      /\ DOMAIN working' = 1..(n + 1)
      /\ \A k \in 1..n : working'[k] = working[k]
      /\ working'[n + 1] = o
  <2>1. working \in Seq(WorkingOrders)
    BY <1>1 DEF TypeOK
  <2>2. /\ Append(working, o) \in Seq(WorkingOrders)
        /\ Len(Append(working, o)) = n + 1
        /\ \A k \in 1..n : Append(working, o)[k] = working[k]
        /\ Append(working, o)[n + 1] = o
    BY <2>1, <1>5, AppendProperties
  <2> QED BY <1>1, <2>1, <2>2, LenProperties
<1> HIDE DEF o, n
<1>7. TypeOK'
  BY <1>1, <1>6 DEF TypeOK, AcceptIntent, accountVars
<1>8. OrdersSound'
  BY <1>1, <1>3, <1>4, <1>6 DEF OrdersSound
<1>9. IdentifiersUnique'
  <2>1. \A k \in 1..n : working[k].intent.id # o.intent.id
    BY <1>3, <1>4, <1>6 DEF Identifiers
  <2> QED BY <1>1, <1>6, <2>1 DEF IdentifiersUnique
<1>10. QueueSound'
  BY <1>1 DEF QueueSound
<1> QED BY <1>7, <1>8, <1>9, <1>10 DEF IndInv

\* Steps that touch neither the orders nor the candidates of a bar.
LEMMA OtherStepInv ==
    ASSUME IndInv, UNCHANGED working, TypeOK',
           queue' = {} \/ UNCHANGED <<queue, event, phase>>
    PROVE  IndInv'
BY DEF IndInv, OrdersSound, IdentifiersUnique, QueueSound, sym, now

\* Steps that cancel orders.
LEMMA KeepsInv ==
    ASSUME IndInv, Keeps(working, working'),
           \A k \in DOMAIN working :
              working'[k].remaining = working[k].remaining
    PROVE  OrdersSound' /\ IdentifiersUnique'
<1>1. OrdersSound'
  BY DEF IndInv, OrdersSound, Keeps
<1>2. IdentifiersUnique'
  BY DEF IndInv, IdentifiersUnique, Keeps
<1> QED BY <1>1, <1>2

LEMMA EventStepInv ==
    ASSUME IndInv,
           \/ \E i \in pending : RejectIntent(i)
           \/ StartEvents
           \/ NoEvent
           \/ \E f \in FundingEvents : SettleFunding(f)
           \/ \E m \in Marks : RefuseMark(m) \/ ApplyMark(m)
           \/ CloseBar
           \/ Finish
           \/ UNCHANGED vars
    PROVE  IndInv'
<1> USE DEF orderVars, loopVars, accountVars
<1>1. TypeOK /\ QueueSound
  BY DEF IndInv
<1>2. NextEvent \in [time : Nat, priority : {FUNDING, MARK, BAR}, symbol : Symbols]
  BY <1>1, NextEventType DEF TypeOK
<1>3. sym \in Symbols /\ positions[sym].quantity \in Int
  BY <1>1 DEF TypeOK, sym
<1>4. phase # "bar" => queue = {}
  BY <1>1 DEF QueueSound
<1>5. CASE \E i \in pending : RejectIntent(i)
  <2>1. TypeOK'
    BY <1>1, <1>5 DEF TypeOK, RejectIntent
  <2> QED BY <1>5, <2>1, OtherStepInv DEF RejectIntent
<1>6. CASE StartEvents
  <2>1. TypeOK'
    BY <1>1, <1>6 DEF TypeOK, StartEvents
  <2> QED BY <1>4, <1>6, <2>1, OtherStepInv DEF StartEvents
<1>7. CASE NoEvent
  <2>1. TypeOK'
    BY <1>1, <1>2, <1>7 DEF TypeOK, NoEvent
  <2> QED BY <1>4, <1>7, <2>1, OtherStepInv DEF NoEvent
<1>8. ASSUME NEW f \in FundingEvents, SettleFunding(f) PROVE IndInv'
  <2>1. f.mark \in Int /\ f.rate \in Int
    BY RequestAssumption
  <2>2. -(positions[sym].quantity * f.mark * f.rate) \in Int
    BY <1>3, <2>1
  <2>3. cash' \in Int /\ totalFunding' \in Int
    BY <1>1, <1>8, <2>2 DEF SettleFunding, TypeOK
  <2>4. lastPrices' \in [Symbols -> Int \cup {None}]
    BY <1>1, <1>8, <2>1 DEF SettleFunding, TypeOK
  <2>5. TypeOK'
    BY <1>1, <1>2, <1>8, <2>3, <2>4 DEF TypeOK, SettleFunding
  <2> QED BY <1>4, <1>8, <2>5, OtherStepInv DEF SettleFunding, AtEvent
<1>9. ASSUME NEW m \in Marks, RefuseMark(m) PROVE IndInv'
  <2>1. TypeOK'
    BY <1>1, <1>9 DEF TypeOK, RefuseMark
  <2> QED BY <1>4, <1>9, <2>1, OtherStepInv DEF RefuseMark, AtEvent
<1>10. ASSUME NEW m \in Marks, ApplyMark(m) PROVE IndInv'
  <2>1. lastPrices' \in [Symbols -> Int \cup {None}]
    BY <1>1, <1>10, RequestAssumption DEF ApplyMark, TypeOK
  <2>2. TypeOK'
    BY <1>1, <1>2, <1>10, <2>1 DEF TypeOK, ApplyMark
  <2> QED BY <1>4, <1>10, <2>2, OtherStepInv DEF ApplyMark, AtEvent
<1>11. CASE CloseBar
  <2>1. bar.close \in Int
    BY <1>1, <1>11, RequestAssumption DEF CloseBar, TypeOK, ValidBar
  <2>2. lastPrices' \in [Symbols -> Int \cup {None}]
    BY <1>1, <1>11, <2>1 DEF CloseBar, TypeOK
  <2>3. TypeOK'
    BY <1>1, <1>2, <1>11, <2>2 DEF TypeOK, CloseBar
  <2> QED BY <1>11, <2>3, OtherStepInv DEF CloseBar
<1>12. CASE Finish
  <2>1. TypeOK'
    BY <1>1, <1>12 DEF TypeOK, Finish
  <2> QED BY <1>4, <1>12, <2>1, OtherStepInv DEF Finish
<1>13. CASE UNCHANGED vars
  <2>1. TypeOK'
    BY <1>1, <1>13 DEF TypeOK, vars
  <2> QED BY <1>13, <2>1, OtherStepInv DEF vars
<1> QED BY <1>5, <1>6, <1>7, <1>8, <1>9, <1>10, <1>11, <1>12, <1>13

LEMMA LiquidateInv ==
    ASSUME IndInv, NEW m \in Marks, Liquidate(m)
    PROVE  IndInv'
<1> DEFINE p == positions[sym]
           side == IF p.quantity > 0 THEN SELL ELSE BUY
           price == RoundAdverse(m, 1, sym, side)
<1>1. /\ TypeOK /\ QueueSound
      /\ phase = "events" /\ queue = {}
      /\ sym \in Symbols /\ now \in Nat /\ m \in Int
      /\ p.quantity \in Int /\ liquidations \in Nat
  BY RequestAssumption DEF IndInv, TypeOK, QueueSound, Liquidate, AtEvent, sym, now
<1>2. Abs(p.quantity) \in Nat \ {0}
  BY <1>1 DEF Liquidate, Breached, Abs
<1>3. side \in Sides /\ price \in Int /\ "LIQUIDATION" \in Liquidities
  BY <1>1, RoundAdverseType DEF Sides, Liquidities
<1>4. -(liquidations + 1) \in Int
  BY <1>1
<1>5. Execute(-(liquidations + 1), side, Abs(p.quantity), price, "LIQUIDATION")
  BY DEF Liquidate
<1>6. /\ cash' \in Int /\ totalFees' \in Int /\ realized' \in Int
      /\ positions' \in [Symbols -> [quantity : Int, average : Int]]
      /\ fills' \in Seq(Fill)
  <2> HIDE DEF p, side, price
  <2> QED BY <1>1, <1>2, <1>3, <1>4, <1>5, ExecuteType
<1> HIDE DEF p, side, price
<1>7. /\ Keeps(working, working')
      /\ \A k \in DOMAIN working : working'[k].remaining = working[k].remaining
  BY <1>1, CancelAllKeeps DEF Liquidate, TypeOK
<1>8. TypeOK'
  <2>1. NextEvent \in [time : Nat, priority : {FUNDING, MARK, BAR}, symbol : Symbols]
    BY <1>1, NextEventType DEF TypeOK
  <2>2. lastPrices' \in [Symbols -> Int \cup {None}]
    BY <1>1 DEF Liquidate, TypeOK
  <2>3. liquidations' \in Nat /\ working' \in Seq(WorkingOrders)
    BY <1>1, <1>7 DEF Liquidate, Keeps
  <2> QED BY <1>1, <1>6, <2>1, <2>2, <2>3 DEF TypeOK, Liquidate
<1>9. QueueSound'
  BY <1>1 DEF QueueSound, Liquidate
<1> QED BY <1>7, <1>8, <1>9, KeepsInv DEF IndInv

(***************************************************************************)
(* A bar's candidates are open, active orders of its symbol that it offers *)
(* an execution (_apply_bar).                                              *)
(***************************************************************************)
LEMMA CandidatesSound ==
    ASSUME TypeOK, OrdersSound, NEW b \in Bars, NEW c \in Candidates(b)
    PROVE  /\ c \in Candidate
           /\ c.order \in DOMAIN working
           /\ Active(c.order)
           /\ Offer(c.raw, c.liquidity) \in Offers(working[c.order].intent, b)
<1>1. PICK k \in {x \in DOMAIN working : Active(x)} :
         \E o \in Offers(working[k].intent, b) :
            c = [order |-> k, raw |-> o.raw, liquidity |-> o.liquidity]
  BY DEF Candidates
<1>2. PICK o \in Offers(working[k].intent, b) :
         c = [order |-> k, raw |-> o.raw, liquidity |-> o.liquidity]
  BY <1>1
<1>3. SoundIntent(working[k].intent) /\ ValidBar(b)
  BY <1>1, RequestAssumption DEF OrdersSound
<1>4. o \in OfferType
  BY <1>2, <1>3, OffersType
<1>5. k \in Nat \ {0}
  BY <1>1, LenProperties DEF TypeOK
<1>6. o = Offer(o.raw, o.liquidity)
  BY <1>4 DEF OfferType, Offer
<1>7. c \in Candidate
  BY <1>2, <1>4, <1>5 DEF Candidate, OfferType
<1>8. c.order = k /\ c.raw = o.raw /\ c.liquidity = o.liquidity
  BY <1>2
<1> QED BY <1>1, <1>2, <1>6, <1>7, <1>8

LEMMA OpenBarInv ==
    ASSUME IndInv, NEW b \in Bars, OpenBar(b)
    PROVE  IndInv'
<1>1. /\ TypeOK /\ OrdersSound /\ QueueSound
      /\ sym \in Symbols /\ now \in Nat
      /\ ValidBar(b)
  BY RequestAssumption DEF IndInv, TypeOK, sym, now
<1>2. queue' \subseteq Candidates(b)
  BY DEF OpenBar, ResolveOco
<1>3. /\ Keeps(working, working')
      /\ \A k \in DOMAIN working : working'[k].remaining = working[k].remaining
  BY <1>1, CancelAllKeeps DEF OpenBar, TypeOK
<1>4. TypeOK'
  <2>1. available' \in Nat
    BY <1>1, CapacityType DEF OpenBar
  <2>2. queue' \subseteq Candidate
    BY <1>1, <1>2, CandidatesSound
  <2>3. working' \in Seq(WorkingOrders)
    BY <1>3 DEF Keeps
  <2> QED BY <1>1, <2>1, <2>2, <2>3 DEF TypeOK, OpenBar, accountVars
<1>5. QueueSound'
  <2>1. phase' = "bar" /\ UNCHANGED event
    BY DEF OpenBar
  <2>2. ASSUME NEW c \in queue'
        PROVE  /\ c.order \in DOMAIN working'
               /\ working'[c.order].remaining > 0
               /\ working'[c.order].intent.symbol = sym
               /\ working'[c.order].intent.submitted + Latency <= now
    <3>1. c.order \in DOMAIN working /\ Active(c.order)
      BY <1>1, <1>2, CandidatesSound
    <3>2. /\ working[c.order].remaining > 0
          /\ working[c.order].intent.symbol = sym
          /\ working[c.order].intent.submitted + Latency <= now
      BY <1>1, <3>1 DEF OrdersSound, Active, OpenOrders
    <3> QED BY <1>3, <3>1, <3>2 DEF Keeps
  <2> QED BY <2>1, <2>2 DEF QueueSound, sym, now
<1> QED BY <1>3, <1>4, <1>5, KeepsInv DEF IndInv

(***************************************************************************)
(* The next candidate of a bar is the only one of its order.               *)
(***************************************************************************)
LEMMA NextCandidateIsAlone ==
    ASSUME IndInv, NEW c, IsNextCandidate(c), NEW d \in queue \ {c}
    PROVE  d.order # c.order
<1> SUFFICES ASSUME d.order = c.order PROVE FALSE
  OBVIOUS
<1>1. Ahead(c, d)
  BY DEF IsNextCandidate
<1>2. /\ working[c.order] \in WorkingOrders
  BY ElementOfSeq, LenProperties DEF IndInv, TypeOK, QueueSound, IsNextCandidate
<1>3. Rank(c) = Rank(d) /\ Rank(c) \in Int
  BY <1>2 DEF Rank, Oco, WorkingOrders, OrderIntent
<1>4. working[c.order].intent.id \in Nat
  BY <1>2 DEF WorkingOrders, OrderIntent
<1> QED BY <1>1, <1>3, <1>4 DEF Ahead

LEMMA CancelCandidateInv ==
    ASSUME IndInv, NEW c \in queue, CancelCandidate(c)
    PROVE  IndInv'
<1>1. TypeOK /\ QueueSound /\ now \in Nat
  BY DEF IndInv, TypeOK, now
<1>2. /\ Keeps(working, working')
      /\ \A k \in DOMAIN working : working'[k].remaining = working[k].remaining
  BY <1>1, CancelAllKeeps DEF CancelCandidate, TypeOK
<1>3. TypeOK'
  <2>1. working' \in Seq(WorkingOrders) /\ queue' \subseteq Candidate
    BY <1>1, <1>2 DEF CancelCandidate, Keeps, TypeOK
  <2> QED BY <1>1, <2>1 DEF TypeOK, CancelCandidate, accountVars
<1>4. QueueSound'
  <2>1. queue' \subseteq queue /\ UNCHANGED <<phase, event>>
    BY DEF CancelCandidate
  <2> QED BY <1>1, <1>2, <2>1 DEF QueueSound, Keeps, sym, now
<1> QED BY <1>2, <1>3, <1>4, KeepsInv DEF IndInv

(***************************************************************************)
(* What a fill does to the orders: the filled one loses the quantity, the  *)
(* others keep what remains of them (_fill_candidate).                     *)
(***************************************************************************)
LEMMA FillCandidateOrders ==
    ASSUME IndInv, NEW c \in queue, FillCandidate(c)
    PROVE  /\ c.order \in DOMAIN working
           /\ FillQuantity(c) \in Nat \ {0}
           /\ FillQuantity(c) <= available
           /\ Keeps(working, working')
           /\ working'[c.order].remaining
                = working[c.order].remaining - FillQuantity(c)
           /\ ~working'[c.order].closed => working'[c.order].remaining > 0
           /\ \A k \in DOMAIN working \ {c.order} :
                 working'[k].remaining = working[k].remaining
<1> DEFINE q == FillQuantity(c)
           v == CancelAll(Siblings(c.order), now)
           o == working[c.order]
<1>1. /\ TypeOK /\ QueueSound /\ now \in Nat /\ available > 0
      /\ ~WouldIncrease(c)
  BY DEF IndInv, TypeOK, now, FillCandidate, IsNextCandidate, Executable
<1>2. q \in Nat \ {0} /\ q <= o.remaining /\ q <= available
  BY <1>1, FillQuantityBounds
<1>3. /\ c.order \in DOMAIN working
      /\ DOMAIN working = 1..Len(working)
      /\ o \in WorkingOrders
  BY <1>1, LenProperties, ElementOfSeq DEF QueueSound, TypeOK
<1>4. /\ Keeps(working, v)
      /\ \A k \in DOMAIN working : v[k].remaining = working[k].remaining
  BY <1>1, CancelAllKeeps DEF TypeOK
<1>5. /\ Filled(o, q) \in WorkingOrders
      /\ Filled(o, q).intent = o.intent
      /\ Filled(o, q).remaining = o.remaining - q
      /\ ~Filled(o, q).closed => ~o.closed /\ o.remaining - q > 0
  BY <1>1, <1>2, <1>3, FilledType
<1> HIDE DEF q, v, o
<1>6. working' = [v EXCEPT ![c.order] = Filled(o, q)]
  BY DEF FillCandidate, q, v, o
<1>7. /\ v \in Seq(WorkingOrders) /\ DOMAIN v = DOMAIN working
      /\ DOMAIN v = 1..Len(v)
  BY <1>4, LenProperties DEF Keeps
<1>8. /\ working' \in Seq(WorkingOrders)
      /\ DOMAIN working' = DOMAIN working
      /\ working'[c.order] = Filled(o, q)
      /\ \A k \in DOMAIN working \ {c.order} : working'[k] = v[k]
  BY <1>3, <1>5, <1>6, <1>7, ExceptSeq, LenProperties
<1>9. Keeps(working, working')
  <2>1. \A k \in DOMAIN working \ {c.order} :
           /\ working'[k].intent = working[k].intent
           /\ ~working'[k].closed => ~working[k].closed
    BY <1>4, <1>8 DEF Keeps
  <2>2. /\ working'[c.order].intent = working[c.order].intent
        /\ ~working'[c.order].closed => ~working[c.order].closed
    BY <1>5, <1>8 DEF o
  <2> QED BY <1>8, <2>1, <2>2 DEF Keeps
<1> QED BY <1>2, <1>3, <1>4, <1>5, <1>8, <1>9 DEF q, o

LEMMA FillCandidateInv ==
    ASSUME IndInv, NEW c \in queue, FillCandidate(c)
    PROVE  IndInv'
<1> DEFINE q == FillQuantity(c)
           o == working[c.order]
<1>1. /\ TypeOK /\ OrdersSound /\ IdentifiersUnique /\ QueueSound
      /\ IsNextCandidate(c)
      /\ Execute(o.intent.id, o.intent.side, q, FillPrice(c), c.liquidity)
      /\ queue' = queue \ {c} /\ available' = available - q
      /\ UNCHANGED <<book, pending, phase, event, bar, totalFunding,
                     lastPrices, liquidations, curve>>
  BY DEF IndInv, FillCandidate
<1>2. /\ c.order \in DOMAIN working
      /\ q \in Nat \ {0} /\ q <= available
      /\ Keeps(working, working')
      /\ ~working'[c.order].closed => working'[c.order].remaining > 0
      /\ \A k \in DOMAIN working \ {c.order} :
            working'[k].remaining = working[k].remaining
  BY FillCandidateOrders
<1>3. /\ SoundIntent(o.intent)
      /\ o.intent.id \in Int /\ o.intent.side \in Sides
      /\ c.raw \in Int /\ c.liquidity \in Liquidities
  <2>1. SoundIntent(o.intent)
    BY <1>1, <1>2 DEF OrdersSound
  <2>2. o.intent.id \in Int /\ o.intent.side \in Sides
    BY <2>1 DEF SoundIntent, OrderIntent
  <2>3. c \in Candidate
    BY <1>1 DEF TypeOK
  <2> QED BY <2>1, <2>2, <2>3 DEF Candidate, Liquidities
<1>4. FillPrice(c) \in Int
  BY <1>3, ExecutionPriceType DEF FillPrice
<1> HIDE DEF q, o
<1>5. /\ cash' \in Int /\ totalFees' \in Int /\ realized' \in Int
      /\ positions' \in [Symbols -> [quantity : Int, average : Int]]
      /\ fills' \in Seq(Fill)
  BY <1>1, <1>2, <1>3, <1>4, ExecuteType
<1>6. TypeOK'
  <2>1. available' \in Nat
    BY <1>1, <1>2 DEF TypeOK
  <2>2. working' \in Seq(WorkingOrders)
    BY <1>2 DEF Keeps
  <2> QED BY <1>1, <1>5, <2>1, <2>2 DEF TypeOK
<1>7. OrdersSound'
  BY <1>1, <1>2 DEF OrdersSound, Keeps
<1>8. IdentifiersUnique'
  BY <1>1, <1>2 DEF IdentifiersUnique, Keeps
<1>9. QueueSound'
  <2>1. \A d \in queue' : d.order # c.order
    BY <1>1, NextCandidateIsAlone
  <2>2. \A d \in queue' :
           /\ d.order \in DOMAIN working'
           /\ working'[d.order].remaining > 0
           /\ working'[d.order].intent.symbol = sym
           /\ working'[d.order].intent.submitted + Latency <= now
    BY <1>1, <1>2, <2>1 DEF QueueSound, Keeps
  <2> QED BY <1>1, <2>2 DEF QueueSound, sym, now
<1> QED BY <1>6, <1>7, <1>8, <1>9 DEF IndInv

LEMMA NextIndInv == IndInv /\ [Next]_vars => IndInv'
<1> SUFFICES ASSUME IndInv, [Next]_vars PROVE IndInv'
  OBVIOUS
<1>1. CASE \E i \in pending : AcceptIntent(i)
  BY <1>1, AcceptIntentInv
<1>2. CASE \E m \in Marks : Liquidate(m)
  BY <1>2, LiquidateInv
<1>3. CASE \E b \in Bars : OpenBar(b)
  BY <1>3, OpenBarInv
<1>4. CASE \E c \in queue : CancelCandidate(c)
  BY <1>4, CancelCandidateInv
<1>5. CASE \E c \in queue : FillCandidate(c)
  BY <1>5, FillCandidateInv
<1>6. CASE \/ \E i \in pending : RejectIntent(i)
           \/ StartEvents
           \/ NoEvent
           \/ \E f \in FundingEvents : SettleFunding(f)
           \/ \E m \in Marks : RefuseMark(m) \/ ApplyMark(m)
           \/ CloseBar
           \/ Finish
           \/ UNCHANGED vars
  BY <1>6, EventStepInv
<1> QED BY <1>1, <1>2, <1>3, <1>4, <1>5, <1>6 DEF Next, Returned

THEOREM Invariance == Spec => []IndInv
<1>1. Init => IndInv
  BY InitIndInv
<1>2. IndInv /\ [Next]_vars => IndInv'
  BY NextIndInv
<1> QED BY <1>1, <1>2, PTL DEF Spec

(***************************************************************************)
(* Every run keeps the types of its state: prices, quantities and money    *)
(* stay whole, no remainder goes below zero, candidates are orders.        *)
(***************************************************************************)
THEOREM TypeCorrect == Spec => []TypeOK
<1>1. IndInv => TypeOK
  BY DEF IndInv
<1> QED BY <1>1, Invariance, PTL
-----------------------------------------------------------------------------
(***************************************************************************)
(* No money appears or vanishes: whatever the orders, bars, marks and      *)
(* funding, cash is the initial cash plus realized profit less fees plus   *)
(* funding (_execute and _apply_funding move all of it).                   *)
(***************************************************************************)
LEMMA ExecuteKeepsAccount ==
    ASSUME IndInv, AccountingIdentity, NEW id, NEW side \in Sides,
           NEW q \in Nat \ {0}, NEW price \in Int, NEW liquidity \in Liquidities,
           Execute(id, side, q, price, liquidity), UNCHANGED totalFunding
    PROVE  AccountingIdentity'
<1> DEFINE gain == Scale * RealizedBy(positions[sym], side, q, price)
           fee == q * price * FeeRate(liquidity)
<1>1. gain \in Int /\ fee \in Int
  <2>1. positions[sym] \in PositionType
    BY DEF IndInv, TypeOK, sym, PositionType
  <2>2. RealizedBy(positions[sym], side, q, price) \in Int
    BY <2>1, TradeType
  <2> QED BY <2>2, FeeRateType, ParametersAssumption
<1>2. /\ cash' = cash + gain - fee
      /\ totalFees' = totalFees + fee
      /\ realized' = realized + gain
  BY DEF Execute
<1> HIDE DEF gain, fee
<1>3. /\ cash \in Int /\ totalFees \in Int /\ realized \in Int
      /\ totalFunding \in Int /\ InitialCash \in Int
  BY RequestAssumption DEF IndInv, TypeOK
<1> QED BY <1>1, <1>2, <1>3 DEF AccountingIdentity

LEMMA NextAccount ==
    IndInv /\ AccountingIdentity /\ [Next]_vars => AccountingIdentity'
<1> SUFFICES ASSUME IndInv, AccountingIdentity, [Next]_vars
             PROVE  AccountingIdentity'
  OBVIOUS
<1>1. ASSUME NEW f \in FundingEvents, SettleFunding(f)
      PROVE  AccountingIdentity'
  <2> DEFINE payment == -(positions[sym].quantity * f.mark * f.rate)
  <2>1. payment \in Int
    <3>1. positions[sym].quantity \in Int
      BY DEF IndInv, TypeOK, sym
    <3>2. f.mark \in Int /\ f.rate \in Int
      BY RequestAssumption
    <3> QED BY <3>1, <3>2
  <2>2. /\ cash' = cash + payment
        /\ totalFunding' = totalFunding + payment
        /\ UNCHANGED <<totalFees, realized>>
    BY <1>1 DEF SettleFunding
  <2> HIDE DEF payment
  <2>3. /\ cash \in Int /\ totalFees \in Int /\ realized \in Int
        /\ totalFunding \in Int /\ InitialCash \in Int
    BY RequestAssumption DEF IndInv, TypeOK
  <2> QED BY <2>1, <2>2, <2>3 DEF AccountingIdentity
<1>2. ASSUME NEW m \in Marks, Liquidate(m)
      PROVE  AccountingIdentity'
  <2> DEFINE side == IF positions[sym].quantity > 0 THEN SELL ELSE BUY
             q == Abs(positions[sym].quantity)
             price == RoundAdverse(m, 1, sym, side)
  <2>1. Execute(-(liquidations + 1), side, q, price, "LIQUIDATION")
    BY <1>2 DEF Liquidate
  <2>2. UNCHANGED totalFunding
    BY <1>2 DEF Liquidate
  <2>3. sym \in Symbols /\ positions[sym].quantity \in Int /\ m \in Int
    BY RequestAssumption DEF IndInv, TypeOK, sym
  <2>4. q \in Nat \ {0}
    BY <1>2, <2>3 DEF Liquidate, Breached, Abs
  <2>5. side \in Sides /\ price \in Int /\ "LIQUIDATION" \in Liquidities
    BY <2>3, RoundAdverseType DEF Sides, Liquidities
  <2> HIDE DEF side, q, price
  <2> QED BY <2>1, <2>2, <2>4, <2>5, ExecuteKeepsAccount
<1>3. ASSUME NEW c \in queue, FillCandidate(c)
      PROVE  AccountingIdentity'
  <2> DEFINE i == working[c.order].intent
             q == FillQuantity(c)
             price == FillPrice(c)
  <2>1. Execute(i.id, i.side, q, price, c.liquidity) /\ UNCHANGED totalFunding
    BY <1>3 DEF FillCandidate
  <2>2. c.order \in DOMAIN working /\ q \in Nat \ {0}
    BY <1>3, FillCandidateOrders
  <2>3. SoundIntent(i)
    BY <2>2 DEF IndInv, OrdersSound
  <2>4. c \in Candidate
    BY DEF IndInv, TypeOK
  <2>5. c.raw \in Int /\ c.liquidity \in Liquidities
    BY <2>4 DEF Candidate, Liquidities
  <2>6. i.side \in Sides
    BY <2>3 DEF SoundIntent, OrderIntent
  <2>7. price \in Int
    BY <2>3, <2>5, ExecutionPriceType DEF FillPrice
  <2> HIDE DEF i, q, price
  <2> QED BY <2>1, <2>2, <2>5, <2>6, <2>7, ExecuteKeepsAccount
<1>4. CASE UNCHANGED <<cash, totalFees, totalFunding, realized>>
  BY <1>4 DEF AccountingIdentity
<1>5. CASE \/ \E i \in pending : AcceptIntent(i) \/ RejectIntent(i)
           \/ StartEvents
           \/ NoEvent
           \/ \E m \in Marks : RefuseMark(m) \/ ApplyMark(m)
           \/ \E b \in Bars : OpenBar(b)
           \/ \E c \in queue : CancelCandidate(c)
           \/ CloseBar
           \/ Finish
           \/ UNCHANGED vars
  BY <1>4, <1>5 DEF AcceptIntent, RejectIntent, StartEvents, NoEvent, RefuseMark,
     ApplyMark, OpenBar, CancelCandidate, CloseBar, Finish, accountVars, vars
<1> QED BY <1>1, <1>2, <1>3, <1>5 DEF Next, Returned

THEOREM Accounting == Spec => []AccountingIdentity
<1>1. Init => AccountingIdentity
  <2> SUFFICES ASSUME Init PROVE AccountingIdentity
    OBVIOUS
  <2> QED BY RequestAssumption DEF Init, AccountingIdentity
<1>2. IndInv /\ AccountingIdentity /\ [Next]_vars => AccountingIdentity'
  BY NextAccount
<1> QED BY <1>1, <1>2, Invariance, PTL DEF Spec
-----------------------------------------------------------------------------
(***************************************************************************)
(* A fill of a reduce-only order strictly shrinks its symbol's position    *)
(* and never turns it around, although the position may have moved since   *)
(* the bar's candidates were chosen (_fill_candidate).                     *)
(***************************************************************************)
LEMMA FillShrinks ==
    ASSUME IndInv, NEW c \in queue, FillCandidate(c),
           working[c.order].intent.reduceOnly
    PROVE  /\ positions[sym].quantity * positions'[sym].quantity >= 0
           /\ Abs(positions'[sym].quantity) < Abs(positions[sym].quantity)
<1> DEFINE p == positions[sym]
           o == working[c.order]
           q == FillQuantity(c)
<1>1. /\ TypeOK /\ QueueSound /\ OrdersSound /\ available > 0
      /\ ~WouldIncrease(c)
  BY DEF IndInv, FillCandidate, IsNextCandidate, Executable
<1>2. /\ q \in Nat \ {0}
      /\ ~Extends(p, o.intent.side)
      /\ q <= Abs(p.quantity)
  BY <1>1, FillQuantityBounds
<1>3. sym \in Symbols /\ p.quantity \in Int
  BY <1>1 DEF TypeOK, sym
<1>4. o.intent.side \in {1, -1}
  BY <1>1 DEF QueueSound, OrdersSound, SoundIntent, OrderIntent, Sides, BUY, SELL
<1>5. positions'[sym].quantity = p.quantity + o.intent.side * q
  BY <1>1, <1>3 DEF TypeOK, FillCandidate, Execute, ApplyTrade
<1> HIDE DEF p, o, q
<1>6. CASE o.intent.side = 1
  <2>1. p.quantity < 0 /\ q <= -p.quantity
    BY <1>2, <1>3, <1>6 DEF Extends, Abs
  <2>2. positions'[sym].quantity = p.quantity + q
    BY <1>2, <1>3, <1>5, <1>6
  <2>3. p.quantity + q <= 0 /\ p.quantity * (p.quantity + q) >= 0
    BY <1>2, <1>3, <2>1
  <2> QED BY <1>2, <1>3, <2>1, <2>2, <2>3 DEF Abs, p
<1>7. CASE o.intent.side = -1
  <2>1. p.quantity > 0 /\ q <= p.quantity
    BY <1>2, <1>3, <1>7 DEF Extends, Abs
  <2>2. positions'[sym].quantity = p.quantity - q
    BY <1>2, <1>3, <1>5, <1>7
  <2>3. p.quantity - q >= 0 /\ p.quantity * (p.quantity - q) >= 0
    BY <1>2, <1>3, <2>1
  <2> QED BY <1>2, <1>3, <2>1, <2>2, <2>3 DEF Abs, p
<1> QED BY <1>4, <1>6, <1>7

THEOREM ReduceOnly == Spec => ReduceOnlyShrinks
<1> DEFINE Shrinks(k) ==
        LET x == working[k].intent.symbol
        IN  working[k].intent.reduceOnly
            /\ working'[k].remaining < working[k].remaining
            => /\ positions[x].quantity * positions'[x].quantity >= 0
               /\ Abs(positions'[x].quantity) < Abs(positions[x].quantity)
<1>1. ASSUME IndInv, Next, NEW k \in DOMAIN working PROVE Shrinks(k)
  <2>1. SUFFICES ASSUME working'[k].remaining # working[k].remaining,
                        working[k].intent.reduceOnly
                 PROVE  Shrinks(k)
    <3>1. working[k] \in WorkingOrders
      BY <1>1, ElementOfSeq, LenProperties DEF IndInv, TypeOK
    <3> QED BY <2>1, <3>1 DEF WorkingOrders
  <2>2. working \in Seq(WorkingOrders) /\ now \in Nat
    BY <1>1 DEF IndInv, TypeOK, now
  <2>3. ASSUME NEW i \in pending, AcceptIntent(i) PROVE FALSE
    <3>1. working' = Append(working, WorkingOrder(book[i]))
      BY <2>3 DEF AcceptIntent
    <3>2. k \in 1..Len(working)
      BY <1>1, <2>2, LenProperties
    <3>3. working'[k] = working[k]
      BY <2>2, <3>1, <3>2
    <3> QED BY <2>1, <3>3
  <2>4. ASSUME NEW ks, working' = CancelAll(ks, now) PROVE FALSE
    BY <1>1, <2>1, <2>2, <2>4, CancelAllKeeps
  <2>5. ASSUME NEW m \in Marks, Liquidate(m) PROVE FALSE
    BY <2>4, <2>5 DEF Liquidate
  <2>6. ASSUME NEW b \in Bars, OpenBar(b) PROVE FALSE
    BY <2>4, <2>6 DEF OpenBar
  <2>7. ASSUME NEW c \in queue, CancelCandidate(c) PROVE FALSE
    BY <2>4, <2>7 DEF CancelCandidate
  <2>8. ASSUME NEW c \in queue, FillCandidate(c) PROVE Shrinks(k)
    <3>1. k = c.order
      BY <1>1, <2>1, <2>8, FillCandidateOrders
    <3>2. working[k].intent.symbol = sym
      BY <1>1, <3>1 DEF IndInv, QueueSound
    <3> QED BY <1>1, <2>1, <2>8, <3>1, <3>2, FillShrinks
  <2>9. UNCHANGED working => FALSE
    BY <2>1
  <2> QED
    BY <1>1, <2>3, <2>5, <2>6, <2>7, <2>8, <2>9 DEF Next, RejectIntent,
       StartEvents, NoEvent, SettleFunding, RefuseMark, ApplyMark, CloseBar,
       Finish, Returned, orderVars, vars
<1>2. IndInv /\ [Next]_vars => [\A k \in DOMAIN working : Shrinks(k)]_vars
  BY <1>1
<1> QED BY <1>2, Invariance, PTL DEF Spec, ReduceOnlyShrinks
-----------------------------------------------------------------------------
(***************************************************************************)
(* What a step adds to the fills, as seen from the orders: nothing, a      *)
(* liquidation under a number that is no client order id, or one fill of a *)
(* queued candidate.  Orders are only added while there are no fills.      *)
(***************************************************************************)
PreparedFirst == phase = "prepare" => fills = << >>

AddsNothing ==
    /\ UNCHANGED fills
    /\ Keeps(working, working') \/ fills = << >>

AddsLiquidation ==
    /\ Keeps(working, working')
    /\ \E f \in Fill : f.order < 0 /\ fills' = Append(fills, f)

AddsFillOf(c) ==
    /\ Keeps(working, working')
    /\ \E f \in Fill :
          /\ f.order = working[c.order].intent.id
          /\ f.at = now
          /\ f.price = FillPrice(c)
          /\ f.symbol = sym
          /\ fills' = Append(fills, f)

LEMMA KeepsItself ==
    ASSUME TypeOK
    PROVE  Keeps(working, working)
BY DEF Keeps, TypeOK

LEMMA LiquidateAdds ==
    ASSUME IndInv, NEW m \in Marks, Liquidate(m)
    PROVE  AddsLiquidation
<1> DEFINE side == IF positions[sym].quantity > 0 THEN SELL ELSE BUY
           q == Abs(positions[sym].quantity)
           price == RoundAdverse(m, 1, sym, side)
           f == [order |-> -(liquidations + 1), symbol |-> sym, side |-> side,
                 at |-> now, quantity |-> q, price |-> price,
                 liquidity |-> "LIQUIDATION",
                 fee |-> q * price * FeeRate("LIQUIDATION")]
<1>1. /\ TypeOK /\ sym \in Symbols /\ now \in Nat /\ liquidations \in Nat
      /\ positions[sym].quantity \in Int /\ m \in Int
  BY RequestAssumption DEF IndInv, TypeOK, sym, now
<1>2. fills' = Append(fills, f)
  BY DEF Liquidate, Execute
<1>3. q \in Nat /\ side \in Sides /\ price \in Int
  BY <1>1, RoundAdverseType DEF Abs, Sides
<1>4. "LIQUIDATION" \in Liquidities /\ FeeRate("LIQUIDATION") \in Nat
  BY FeeRateType DEF Liquidities
<1>5. q * price * FeeRate("LIQUIDATION") \in Int
  <2> HIDE DEF q, price
  <2> QED BY <1>3, <1>4
<1>6. f \in Fill /\ f.order < 0
  <2>1. -(liquidations + 1) \in Int /\ -(liquidations + 1) < 0
    BY <1>1
  <2> HIDE DEF q, price, side
  <2> QED BY <1>1, <1>3, <1>4, <1>5, <2>1 DEF Fill
<1>7. Keeps(working, working')
  BY <1>1, CancelAllKeeps DEF Liquidate, TypeOK
<1> HIDE DEF f
<1> QED BY <1>2, <1>6, <1>7 DEF AddsLiquidation

LEMMA FillCandidateAdds ==
    ASSUME IndInv, NEW c \in queue, FillCandidate(c)
    PROVE  AddsFillOf(c)
<1> DEFINE i == working[c.order].intent
           q == FillQuantity(c)
           price == FillPrice(c)
           f == [order |-> i.id, symbol |-> sym, side |-> i.side,
                 at |-> now, quantity |-> q, price |-> price,
                 liquidity |-> c.liquidity,
                 fee |-> q * price * FeeRate(c.liquidity)]
<1>1. /\ c.order \in DOMAIN working /\ q \in Nat \ {0}
      /\ Keeps(working, working')
  BY FillCandidateOrders
<1>2. sym \in Symbols /\ now \in Nat /\ c \in Candidate
  BY DEF IndInv, TypeOK, sym, now
<1>3. SoundIntent(i)
  BY <1>1 DEF IndInv, OrdersSound
<1>4. i.side \in Sides /\ i.id \in Nat
  BY <1>3 DEF SoundIntent, OrderIntent
<1>5. c.raw \in Int /\ c.liquidity \in Liquidities /\ FeeRate(c.liquidity) \in Nat
  BY <1>2, FeeRateType DEF Candidate, Liquidities
<1>6. price \in Int
  BY <1>3, <1>5, ExecutionPriceType DEF FillPrice
<1>7. fills' = Append(fills, f)
  BY DEF FillCandidate, Execute
<1> HIDE DEF i, q, price
<1>8. q * price * FeeRate(c.liquidity) \in Int
  BY <1>1, <1>5, <1>6
<1>9. f \in Fill
  BY <1>1, <1>2, <1>4, <1>5, <1>6, <1>8 DEF Fill
<1>10. f.order = i.id /\ f.at = now /\ f.price = price /\ f.symbol = sym
  OBVIOUS
<1> HIDE DEF f
<1> QED BY <1>1, <1>7, <1>9, <1>10 DEF AddsFillOf, i, price

LEMMA NextAdds ==
    ASSUME IndInv, PreparedFirst, [Next]_vars
    PROVE  /\ \/ AddsNothing
              \/ AddsLiquidation
              \/ \E c \in queue : FillCandidate(c) /\ AddsFillOf(c)
           /\ PreparedFirst'
<1>1. Keeps(working, working)
  BY KeepsItself DEF IndInv
<1>2. ASSUME NEW i \in pending, AcceptIntent(i)
      PROVE  AddsNothing /\ PreparedFirst'
  BY <1>2 DEF AcceptIntent, AddsNothing, PreparedFirst, accountVars, loopVars
<1>3. ASSUME NEW m \in Marks, Liquidate(m)
      PROVE  AddsLiquidation /\ PreparedFirst'
  BY <1>3, LiquidateAdds DEF Liquidate, AtEvent, PreparedFirst
<1>4. ASSUME NEW c \in queue, FillCandidate(c)
      PROVE  AddsFillOf(c) /\ PreparedFirst'
  BY <1>4, FillCandidateAdds DEF FillCandidate, IsNextCandidate, PreparedFirst
<1>5. working \in Seq(WorkingOrders) /\ now \in Nat
  BY DEF IndInv, TypeOK, now
<1>6. ASSUME NEW b \in Bars, OpenBar(b)
      PROVE  AddsNothing /\ PreparedFirst'
  BY <1>5, <1>6, CancelAllKeeps DEF OpenBar, AddsNothing, PreparedFirst, accountVars
<1>7. ASSUME NEW c \in queue, CancelCandidate(c)
      PROVE  AddsNothing /\ PreparedFirst'
  BY <1>5, <1>7, CancelAllKeeps
     DEF CancelCandidate, AddsNothing, PreparedFirst, accountVars
<1>8. CASE \/ \E i \in pending : RejectIntent(i)
           \/ StartEvents
           \/ NoEvent
           \/ \E f \in FundingEvents : SettleFunding(f)
           \/ \E m \in Marks : RefuseMark(m) \/ ApplyMark(m)
           \/ CloseBar
           \/ Finish
           \/ UNCHANGED vars
  <2>1. UNCHANGED <<fills, working>> /\ (phase' = "prepare" => phase = "prepare")
    BY <1>8 DEF RejectIntent, StartEvents, NoEvent, SettleFunding, RefuseMark,
       ApplyMark, CloseBar, Finish, AtEvent, orderVars, loopVars, accountVars, vars
  <2> QED BY <1>1, <2>1 DEF AddsNothing, PreparedFirst
<1> QED BY <1>2, <1>3, <1>4, <1>6, <1>7, <1>8 DEF Next, Returned

(***************************************************************************)
(* A property of each fill and the order it belongs to holds of all fills  *)
(* when the fill of a candidate brings it along: the ids of the orders are *)
(* unique, and a liquidation's is none of them.                            *)
(***************************************************************************)
LEMMA FillOfNewFill ==
    ASSUME IndInv, NEW f \in Fill, fills' = Append(fills, f),
           Keeps(working, working'),
           NEW i \in DOMAIN fills', NEW k \in DOMAIN working', FillOf(i, k)'
    PROVE  /\ k \in DOMAIN working
           /\ working'[k].intent = working[k].intent
           /\ \/ i \in DOMAIN fills /\ FillOf(i, k) /\ fills'[i] = fills[i]
              \/ fills'[i] = f /\ f.order = working[k].intent.id
<1>1. k \in DOMAIN working /\ working'[k].intent = working[k].intent
  BY DEF Keeps
<1>2. /\ Len(fills) \in Nat /\ DOMAIN fills = 1..Len(fills)
      /\ DOMAIN fills' = 1..(Len(fills) + 1)
      /\ \A j \in 1..Len(fills) : fills'[j] = fills[j]
      /\ fills'[Len(fills) + 1] = f
  BY AppendProperties, LenProperties DEF IndInv, TypeOK
<1>3. CASE i \in DOMAIN fills
  BY <1>1, <1>2, <1>3 DEF FillOf
<1>4. CASE i = Len(fills) + 1
  BY <1>1, <1>2, <1>4 DEF FillOf
<1> QED BY <1>1, <1>2, <1>3, <1>4

LEMMA IdentifiersAreNat ==
    ASSUME IndInv, NEW k \in DOMAIN working
    PROVE  working[k].intent.id \in Nat
BY DEF IndInv, OrdersSound, SoundIntent, OrderIntent

(***************************************************************************)
(* No order fills before its submission plus the latency, for any latency, *)
(* bars and book (the eligibility test of _apply_bar).                     *)
(***************************************************************************)
LEMMA NextActive ==
    ASSUME IndInv, PreparedFirst, NoFillBeforeActive, [Next]_vars
    PROVE  NoFillBeforeActive'
<1>1. CASE AddsNothing
  BY <1>1 DEF AddsNothing, Keeps, NoFillBeforeActive, FillOf
<1>2. CASE AddsLiquidation
  <2>1. PICK f \in Fill : f.order < 0 /\ fills' = Append(fills, f)
    BY <1>2 DEF AddsLiquidation
  <2>2. SUFFICES ASSUME NEW i \in DOMAIN fills', NEW k \in DOMAIN working', FillOf(i, k)'
                 PROVE  working'[k].intent.submitted + Latency <= fills'[i].at
    BY DEF NoFillBeforeActive
  <2>3. /\ k \in DOMAIN working
        /\ working'[k].intent = working[k].intent
        /\ \/ i \in DOMAIN fills /\ FillOf(i, k) /\ fills'[i] = fills[i]
           \/ fills'[i] = f /\ f.order = working[k].intent.id
    BY <1>2, <2>1, <2>2, FillOfNewFill DEF AddsLiquidation
  <2>4. f.order # working[k].intent.id
    BY <2>1, <2>3, IdentifiersAreNat
  <2> QED BY <2>3, <2>4 DEF NoFillBeforeActive
<1>3. ASSUME NEW c \in queue, FillCandidate(c), AddsFillOf(c)
      PROVE  NoFillBeforeActive'
  <2>1. PICK f \in Fill : /\ f.order = working[c.order].intent.id
                          /\ f.at = now
                          /\ fills' = Append(fills, f)
    BY <1>3 DEF AddsFillOf
  <2>2. SUFFICES ASSUME NEW i \in DOMAIN fills', NEW k \in DOMAIN working', FillOf(i, k)'
                 PROVE  working'[k].intent.submitted + Latency <= fills'[i].at
    BY DEF NoFillBeforeActive
  <2>3. /\ k \in DOMAIN working
        /\ working'[k].intent = working[k].intent
        /\ \/ i \in DOMAIN fills /\ FillOf(i, k) /\ fills'[i] = fills[i]
           \/ fills'[i] = f /\ f.order = working[k].intent.id
    BY <1>3, <2>1, <2>2, FillOfNewFill DEF AddsFillOf
  <2>4. CASE i \in DOMAIN fills /\ FillOf(i, k) /\ fills'[i] = fills[i]
    BY <2>3, <2>4 DEF NoFillBeforeActive
  <2>5. CASE fills'[i] = f /\ f.order = working[k].intent.id
    <3>1. k = c.order
      BY <2>1, <2>3, <2>5 DEF IndInv, IdentifiersUnique, QueueSound
    <3> QED BY <2>1, <2>3, <2>5, <3>1 DEF IndInv, QueueSound
  <2> QED BY <2>3, <2>4, <2>5
<1> QED BY <1>1, <1>2, <1>3, NextAdds

LEMMA InitHasNoFills ==
    ASSUME Init
    PROVE  fills = << >> /\ DOMAIN fills = {} /\ queue = {}
BY DEF Init

THEOREM FillsAreActive == Spec => []NoFillBeforeActive
<1>1. Init => PreparedFirst /\ NoFillBeforeActive
  BY InitHasNoFills DEF PreparedFirst, NoFillBeforeActive
<1>2. IndInv /\ PreparedFirst /\ NoFillBeforeActive /\ [Next]_vars
        => (PreparedFirst /\ NoFillBeforeActive)'
  BY NextAdds, NextActive
<1> QED BY <1>1, <1>2, Invariance, PTL DEF Spec

(***************************************************************************)
(* No fill of a limit order is worse than its limit, for every tick, cost  *)
(* rate and bar: the strengthening says what the queue offers a limit      *)
(* order as a maker is its limit.                                          *)
(***************************************************************************)
MakersAtLimit ==
    \A c \in queue :
        working[c.order].intent.type = "LIMIT" /\ c.liquidity = "MAKER"
          => c.raw = working[c.order].intent.limit

LEMMA NextMakersAtLimit ==
    ASSUME IndInv, PreparedFirst, MakersAtLimit, [Next]_vars
    PROVE  MakersAtLimit'
<1>1. ASSUME NEW b \in Bars, OpenBar(b) PROVE MakersAtLimit'
  <2>1. TypeOK /\ OrdersSound /\ now \in Nat
    BY DEF IndInv, TypeOK, now
  <2>2. Keeps(working, working')
    BY <1>1, <2>1, CancelAllKeeps DEF OpenBar, TypeOK
  <2>3. ASSUME NEW c \in queue', working'[c.order].intent.type = "LIMIT",
               c.liquidity = "MAKER"
        PROVE  c.raw = working'[c.order].intent.limit
    <3>1. c \in Candidates(b)
      BY <1>1 DEF OpenBar, ResolveOco
    <3>2. /\ c.order \in DOMAIN working
          /\ Offer(c.raw, c.liquidity) \in Offers(working[c.order].intent, b)
      BY <2>1, <3>1, CandidatesSound
    <3>3. working'[c.order].intent = working[c.order].intent
      BY <2>2, <3>2 DEF Keeps
    <3>4. /\ Offer(c.raw, c.liquidity).raw = c.raw
          /\ Offer(c.raw, c.liquidity).liquidity = c.liquidity
      BY DEF Offer
    <3> QED BY <2>3, <3>2, <3>3, <3>4, MakerOfferIsLimit
  <2> QED BY <2>3 DEF MakersAtLimit
<1>2. CASE queue' \subseteq queue /\ Keeps(working, working')
  BY <1>2 DEF MakersAtLimit, Keeps, IndInv, QueueSound
<1>3. CASE queue' = {}
  BY <1>3 DEF MakersAtLimit
<1>4. ASSUME ~\E b \in Bars : OpenBar(b)
      PROVE  (queue' \subseteq queue /\ Keeps(working, working')) \/ queue' = {}
  <2>1. phase # "bar" => queue = {}
    BY DEF IndInv, QueueSound
  <2>2. Keeps(working, working)
    BY KeepsItself DEF IndInv
  <2>3. ASSUME NEW c \in queue, FillCandidate(c)
        PROVE  queue' \subseteq queue /\ Keeps(working, working')
    BY <2>3, FillCandidateOrders DEF FillCandidate
  <2>4. ASSUME NEW c \in queue, CancelCandidate(c)
        PROVE  queue' \subseteq queue /\ Keeps(working, working')
    BY <2>4, CancelAllKeeps DEF CancelCandidate, IndInv, TypeOK, now
  <2> QED
    BY <1>4, <2>1, <2>2, <2>3, <2>4 DEF Next, AcceptIntent, RejectIntent,
       StartEvents, NoEvent, SettleFunding, RefuseMark, ApplyMark, Liquidate,
       CloseBar, Finish, Returned, AtEvent, orderVars, loopVars, vars
<1> QED BY <1>1, <1>2, <1>3, <1>4

LEMMA NextLimit ==
    ASSUME IndInv, PreparedFirst, MakersAtLimit, LimitNeverWorse, [Next]_vars
    PROVE  LimitNeverWorse'
<1> DEFINE Within(i, k) ==
        LET intent == working[k].intent
        IN  intent.type = "LIMIT" /\ intent.limit # 0
              => intent.side * (intent.limit - fills[i].price) >= 0
<1>1. CASE AddsNothing
  BY <1>1 DEF AddsNothing, Keeps, LimitNeverWorse, FillOf
<1>2. CASE AddsLiquidation
  <2>1. PICK f \in Fill : f.order < 0 /\ fills' = Append(fills, f)
    BY <1>2 DEF AddsLiquidation
  <2>2. SUFFICES ASSUME NEW i \in DOMAIN fills', NEW k \in DOMAIN working', FillOf(i, k)'
                 PROVE  Within(i, k)'
    BY DEF LimitNeverWorse
  <2>3. /\ k \in DOMAIN working
        /\ working'[k].intent = working[k].intent
        /\ \/ i \in DOMAIN fills /\ FillOf(i, k) /\ fills'[i] = fills[i]
           \/ fills'[i] = f /\ f.order = working[k].intent.id
    BY <1>2, <2>1, <2>2, FillOfNewFill DEF AddsLiquidation
  <2>4. f.order # working[k].intent.id
    BY <2>1, <2>3, IdentifiersAreNat
  <2> QED BY <2>3, <2>4 DEF LimitNeverWorse
<1>3. ASSUME NEW c \in queue, FillCandidate(c), AddsFillOf(c)
      PROVE  LimitNeverWorse'
  <2>1. PICK f \in Fill : /\ f.order = working[c.order].intent.id
                          /\ f.price = FillPrice(c)
                          /\ fills' = Append(fills, f)
    BY <1>3 DEF AddsFillOf
  <2>2. SUFFICES ASSUME NEW i \in DOMAIN fills', NEW k \in DOMAIN working', FillOf(i, k)'
                 PROVE  Within(i, k)'
    BY DEF LimitNeverWorse
  <2>3. /\ k \in DOMAIN working
        /\ working'[k].intent = working[k].intent
        /\ \/ i \in DOMAIN fills /\ FillOf(i, k) /\ fills'[i] = fills[i]
           \/ fills'[i] = f /\ f.order = working[k].intent.id
    BY <1>3, <2>1, <2>2, FillOfNewFill DEF AddsFillOf
  <2>4. CASE i \in DOMAIN fills /\ FillOf(i, k) /\ fills'[i] = fills[i]
    BY <2>3, <2>4 DEF LimitNeverWorse
  <2>5. CASE fills'[i] = f /\ f.order = working[k].intent.id
    <3>1. k = c.order
      BY <2>1, <2>3, <2>5 DEF IndInv, IdentifiersUnique, QueueSound
    <3>2. SoundIntent(working[k].intent) /\ c.raw \in Int
      <4>1. c \in Candidate
        BY DEF IndInv, TypeOK
      <4> QED BY <2>3, <4>1 DEF IndInv, OrdersSound, Candidate
    <3>3. working[k].intent.type = "LIMIT" /\ c.liquidity = "MAKER"
            => c.raw = working[k].intent.limit
      BY <3>1 DEF MakersAtLimit
    <3>4. fills'[i].price = ExecutionPrice(working[k].intent, c)
      BY <2>1, <2>5, <3>1 DEF FillPrice
    <3> QED BY <2>3, <3>2, <3>3, <3>4, ExecutionWithinLimit
  <2> QED BY <2>3, <2>4, <2>5
<1> QED BY <1>1, <1>2, <1>3, NextAdds

THEOREM LimitsHold == Spec => []LimitNeverWorse
<1>1. Init => PreparedFirst /\ MakersAtLimit /\ LimitNeverWorse
  BY InitHasNoFills DEF PreparedFirst, MakersAtLimit, LimitNeverWorse
<1>2. IndInv /\ PreparedFirst /\ MakersAtLimit /\ LimitNeverWorse /\ [Next]_vars
        => (PreparedFirst /\ MakersAtLimit /\ LimitNeverWorse)'
  BY NextAdds, NextMakersAtLimit, NextLimit
<1> QED BY <1>1, <1>2, Invariance, PTL DEF Spec

-----------------------------------------------------------------------------
(***************************************************************************)
(* The life of an order and of a bar: how often an order fills, what a     *)
(* cancellation, a liquidation and an OCO group leave, and what a bar      *)
(* takes and serves.                                                       *)
(***************************************************************************)
\* A step of the run that leaves the orders, their fills and the positions
\* alone: it is in no bar afterwards, or changes nothing.  The event advances
\* unless the run starts with its events or ends.
Idle ==
    /\ UNCHANGED <<working, fills, positions>>
    /\ \/ UNCHANGED vars
       \/ /\ queue' = {} /\ phase' # "bar"
          /\ \/ event' = NextEvent
             \/ event' = event /\ (phase' # "events" \/ phase = "prepare")

LEMMA Steps ==
    ASSUME IndInv, [Next]_vars
    PROVE  \/ Idle
           \/ \E i \in pending : AcceptIntent(i)
           \/ \E m \in Marks : Liquidate(m)
           \/ \E b \in Bars : OpenBar(b)
           \/ \E c \in queue : CancelCandidate(c) \/ FillCandidate(c)
<1> USE DEF orderVars, loopVars, accountVars
<1>1. phase # "bar" => queue = {}
  BY DEF IndInv, QueueSound
<1>2. CASE \/ \E i \in pending : RejectIntent(i)
           \/ StartEvents
           \/ NoEvent
           \/ \E f \in FundingEvents : SettleFunding(f)
           \/ \E m \in Marks : RefuseMark(m) \/ ApplyMark(m)
           \/ CloseBar
           \/ Finish
           \/ UNCHANGED vars
  BY <1>1, <1>2 DEF Idle, RejectIntent, StartEvents, NoEvent, SettleFunding,
     RefuseMark, ApplyMark, CloseBar, Finish, AtEvent, vars
<1> QED BY <1>2 DEF Next, Returned

\* What canceling does, order by order.
LEMMA CancelAllAt ==
    ASSUME IndInv, NEW ks, working' = CancelAll(ks, now)
    PROVE  /\ Keeps(working, working')
           /\ \A k \in DOMAIN working :
                 /\ working[k] \in WorkingOrders
                 /\ k \notin ks => working'[k] = working[k]
                 /\ k \in ks => /\ working'[k] = Cancel(working[k], now)
                                /\ working'[k].closed
<1>1. working \in Seq(WorkingOrders) /\ now \in Nat
  BY DEF IndInv, TypeOK, now
<1>2. \A k \in DOMAIN working : working[k] \in WorkingOrders
  BY <1>1, ElementOfSeq, LenProperties
<1>3. Keeps(working, working')
  BY <1>1, CancelAllKeeps
<1>4. ASSUME NEW k \in DOMAIN working, k \in ks
      PROVE  working'[k] = Cancel(working[k], now) /\ working'[k].closed
  <2>1. working'[k] = Cancel(working[k], now)
    BY <1>4 DEF CancelAll
  <2> QED BY <1>1, <1>2, <2>1, CancelType
<1>5. \A k \in DOMAIN working : k \notin ks => working'[k] = working[k]
  BY DEF CancelAll
<1> QED BY <1>2, <1>3, <1>4, <1>5

\* The fill of a candidate, and that of a liquidation.
FillRecord(c) ==
    LET i == working[c.order].intent
    IN  [order |-> i.id, symbol |-> sym, side |-> i.side, at |-> now,
         quantity |-> FillQuantity(c), price |-> FillPrice(c),
         liquidity |-> c.liquidity,
         fee |-> FillQuantity(c) * FillPrice(c) * FeeRate(c.liquidity)]

LiquidationRecord(m) ==
    LET p == positions[sym]
        side == IF p.quantity > 0 THEN SELL ELSE BUY
        price == RoundAdverse(m, 1, sym, side)
    IN  [order |-> -(liquidations + 1), symbol |-> sym, side |-> side,
         at |-> now, quantity |-> Abs(p.quantity), price |-> price,
         liquidity |-> "LIQUIDATION",
         fee |-> Abs(p.quantity) * price * FeeRate("LIQUIDATION")]

\* f is appended to the fills.
Appends(f) ==
    /\ f \in Fill
    /\ fills' = Append(fills, f)
    /\ Len(fills) \in Nat
    /\ DOMAIN fills = 1..Len(fills)
    /\ DOMAIN fills' = 1..(Len(fills) + 1)
    /\ \A i \in 1..Len(fills) : fills'[i] = fills[i] /\ fills[i] \in Fill
    /\ fills'[Len(fills) + 1] = f

LEMMA AppendingFill ==
    ASSUME IndInv, NEW f, fills' = Append(fills, f), fills' \in Seq(Fill)
    PROVE  Appends(f)
<1>1. fills \in Seq(Fill)
  BY DEF IndInv, TypeOK
<1>2. /\ Len(fills) \in Nat /\ DOMAIN fills = 1..Len(fills)
      /\ \A i \in 1..Len(fills) : fills[i] \in Fill
  BY <1>1, LenProperties, ElementOfSeq
<1>3. /\ Len(fills') = Len(fills) + 1
      /\ \A i \in 1..Len(fills) : fills'[i] = fills[i]
      /\ fills'[Len(fills) + 1] = f
  BY <1>1
<1>4. DOMAIN fills' = 1..(Len(fills) + 1)
  BY <1>3, LenProperties
<1>5. f \in Fill
  BY <1>2, <1>3, ElementOfSeq
<1> QED BY <1>2, <1>3, <1>4, <1>5 DEF Appends

LEMMA LiquidateStep ==
    ASSUME IndInv, NEW m \in Marks, Liquidate(m)
    PROVE  /\ phase = "events" /\ queue = {} /\ queue' = {} /\ UNCHANGED phase
           /\ event.priority = MARK
           /\ event' = NextEvent
           /\ Appends(LiquidationRecord(m))
           /\ positions[sym].quantity # 0
           /\ working' = CancelAll(OpenOrders(sym), now)
           /\ positions' = [positions EXCEPT ![sym] =
                 ApplyTrade(positions[sym], LiquidationRecord(m).side,
                            LiquidationRecord(m).quantity, LiquidationRecord(m).price)]
<1>1. IndInv'
  BY LiquidateInv
<1>2. fills' = Append(fills, LiquidationRecord(m)) /\ fills' \in Seq(Fill)
  BY <1>1 DEF Liquidate, Execute, LiquidationRecord, IndInv, TypeOK
<1>3. Appends(LiquidationRecord(m))
  BY <1>2, AppendingFill
<1> QED BY <1>3 DEF Liquidate, Execute, LiquidationRecord, Breached, AtEvent,
           IndInv, QueueSound

LEMMA FillStep ==
    ASSUME IndInv, NEW c \in queue, FillCandidate(c)
    PROVE  /\ phase = "bar" /\ UNCHANGED <<phase, event, bar>>
           /\ queue' = queue \ {c}
           /\ \A d \in queue' : d.order # c.order
           /\ Appends(FillRecord(c))
           /\ c \in Candidate
           /\ c.order \in DOMAIN working
           /\ working[c.order] \in WorkingOrders
           /\ Keeps(working, working')
           /\ working'[c.order] = Filled(working[c.order], FillQuantity(c))
           /\ \A k \in DOMAIN working \ {c.order} :
                 working'[k] = CancelAll(Siblings(c.order), now)[k]
           /\ positions' = [positions EXCEPT ![sym] =
                 ApplyTrade(positions[sym], FillRecord(c).side,
                            FillRecord(c).quantity, FillRecord(c).price)]
<1>1. IndInv'
  BY FillCandidateInv
<1>2. fills' = Append(fills, FillRecord(c)) /\ fills' \in Seq(Fill)
  BY <1>1 DEF FillCandidate, Execute, FillRecord, IndInv, TypeOK
<1>3. Appends(FillRecord(c))
  BY <1>2, AppendingFill
<1>4. c.order \in DOMAIN working /\ c \in Candidate /\ Keeps(working, working')
  BY FillCandidateOrders DEF IndInv, TypeOK
<1>5. working[c.order] \in WorkingOrders
  BY <1>4, ElementOfSeq, LenProperties DEF IndInv, TypeOK
<1>6. IsNextCandidate(c) /\ queue' = queue \ {c}
  BY DEF FillCandidate
<1>7. \A d \in queue' : d.order # c.order
  BY <1>6, NextCandidateIsAlone
<1>8. /\ working' = [CancelAll(Siblings(c.order), now)
                       EXCEPT ![c.order] = Filled(working[c.order], FillQuantity(c))]
      /\ DOMAIN CancelAll(Siblings(c.order), now) = DOMAIN working
  BY DEF FillCandidate, CancelAll
<1>9. /\ working'[c.order] = Filled(working[c.order], FillQuantity(c))
      /\ \A k \in DOMAIN working \ {c.order} :
            working'[k] = CancelAll(Siblings(c.order), now)[k]
  BY <1>4, <1>8
<1>10. /\ phase = "bar" /\ UNCHANGED <<phase, event, bar>>
       /\ positions' = [positions EXCEPT ![sym] =
             ApplyTrade(positions[sym], FillRecord(c).side,
                        FillRecord(c).quantity, FillRecord(c).price)]
  BY DEF FillCandidate, IsNextCandidate, Execute, FillRecord
<1> QED BY <1>3, <1>4, <1>5, <1>6, <1>7, <1>9, <1>10

\* A client order id names one order; a liquidation's number names none.
LEMMA FillNamesOrder ==
    ASSUME IndInv, NEW k \in DOMAIN working
    PROVE  /\ \A c \in queue : FillRecord(c).order = working[k].intent.id
                                 => k = c.order
           /\ \A m \in Marks : LiquidationRecord(m).order # working[k].intent.id
<1>1. \A c \in queue : c.order \in DOMAIN working
  BY DEF IndInv, QueueSound
<1>2. \A m \in Marks : LiquidationRecord(m).order < 0
  BY DEF LiquidationRecord, IndInv, TypeOK
<1>3. working[k].intent.id \in Nat
  BY IdentifiersAreNat
<1> QED BY <1>1, <1>2, <1>3 DEF FillRecord, IndInv, IdentifiersUnique

LEMMA FillOfAppended ==
    ASSUME NEW f, Appends(f), Keeps(working, working'),
           NEW k \in DOMAIN working', NEW i \in DOMAIN fills'
    PROVE  /\ k \in DOMAIN working
           /\ working'[k].intent = working[k].intent
           /\ i \in DOMAIN fills =>
                 fills'[i] = fills[i] /\ (FillOf(i, k)' <=> FillOf(i, k))
           /\ i \notin DOMAIN fills =>
                 /\ i = Len(fills) + 1
                 /\ fills'[i] = f
                 /\ FillOf(i, k)' <=> f.order = working[k].intent.id
BY DEF Appends, Keeps, FillOf

\* Orders are accepted before anything fills.
LEMMA AcceptStep ==
    ASSUME IndInv, PreparedFirst, NEW i \in pending, AcceptIntent(i)
    PROVE  /\ DOMAIN fills' = {} /\ queue' = {} /\ fills' = << >>
           /\ DOMAIN working' = 1..(Len(working) + 1)
           /\ Len(working) \in Nat /\ DOMAIN working = 1..Len(working)
           /\ \A k \in DOMAIN working : working'[k] = working[k]
           /\ working'[Len(working) + 1] = WorkingOrder(book[i])
           /\ UNCHANGED <<positions, phase>> /\ phase = "prepare"
<1>1. working \in Seq(WorkingOrders)
  BY DEF IndInv, TypeOK
<1>2. working' = Append(working, WorkingOrder(book[i])) /\ phase = "prepare"
  BY DEF AcceptIntent
<1>3. fills' = << >> /\ queue' = {} /\ UNCHANGED <<positions, phase>>
  BY <1>2 DEF AcceptIntent, PreparedFirst, accountVars, loopVars, IndInv, QueueSound
<1>4. Len(working) \in Nat /\ DOMAIN working = 1..Len(working)
  BY <1>1, LenProperties
<1>5. /\ DOMAIN working' = 1..(Len(working) + 1)
      /\ \A k \in DOMAIN working : working'[k] = working[k]
      /\ working'[Len(working) + 1] = WorkingOrder(book[i])
  <2> DEFINE o == WorkingOrder(book[i])
  <2>1. Len(working') = Len(working) + 1
    BY <1>1, <1>2
  <2>2. working' \in Seq(WorkingOrders \cup {o})
    <3>1. working \in Seq(WorkingOrders \cup {o})
      BY <1>1
    <3> HIDE DEF o
    <3>2. working' = Append(working, o)
      BY <1>2 DEF o
    <3> QED BY <3>1, <3>2
  <2>3. DOMAIN working' = 1..(Len(working) + 1)
    BY <2>1, <2>2, LenProperties
  <2> QED BY <1>1, <1>2, <1>4, <2>3
<1> QED BY <1>2, <1>3, <1>4, <1>5

LEMMA PreparedFirstKept ==
    ASSUME IndInv, PreparedFirst, [Next]_vars PROVE PreparedFirst'
BY NextAdds
-----------------------------------------------------------------------------
(***************************************************************************)
(* A market or IOC order fills once: while it is open or a candidate it    *)
(* has not filled, and its fill closes it (_fill_candidate).               *)
(***************************************************************************)
OneShot(k) == working[k].intent.type = "MARKET" \/ working[k].intent.ioc

Queued(k) == \E c \in queue : c.order = k

Unfilled(k) == \A i \in DOMAIN fills : ~FillOf(i, k)

OneShotInv ==
    \A k \in DOMAIN working : OneShot(k) =>
        /\ ~working[k].closed \/ Queued(k) => Unfilled(k)
        /\ \A i, j \in DOMAIN fills : FillOf(i, k) /\ FillOf(j, k) => i = j

\* A step that adds no fill, reopens no order and queues only open orders
\* or those queued before.
LEMMA QueueOfOpen ==
    ASSUME IndInv, NEW b \in Bars, OpenBar(b), NEW k \in DOMAIN working, Queued(k)'
    PROVE  /\ ~working[k].closed /\ Active(k)
           /\ Offers(working[k].intent, b) # {}
           /\ working'[k] = working[k]
<1>1. PICK c \in queue' : c.order = k
  BY DEF Queued
<1>2. c \in Candidates(b)
  BY <1>1 DEF OpenBar, ResolveOco
<1>3. Active(k) /\ Offers(working[k].intent, b) # {}
  BY <1>1, <1>2, CandidatesSound DEF IndInv
<1>4. working'[k] = working[k]
  BY <1>3, CancelAllAt DEF OpenBar
<1> QED BY <1>3, <1>4 DEF Active, OpenOrders

LEMMA NextOneShot ==
    ASSUME IndInv, PreparedFirst, OneShotInv, [Next]_vars
    PROVE  OneShotInv'
<1>1. CASE Idle
  BY <1>1 DEF Idle, OneShotInv, OneShot, Queued, Unfilled, FillOf,
     vars, orderVars, loopVars, accountVars
<1>2. ASSUME NEW i \in pending, AcceptIntent(i) PROVE OneShotInv'
  BY <1>2, AcceptStep DEF OneShotInv, Unfilled
<1>3. ASSUME NEW m \in Marks, Liquidate(m) PROVE OneShotInv'
  <2> DEFINE f == LiquidationRecord(m)
  <2>1. Appends(f) /\ Keeps(working, working') /\ queue' = {}
    BY <1>3, LiquidateStep, CancelAllAt
  <2>2. \A k \in DOMAIN working : f.order # working[k].intent.id
    BY FillNamesOrder
  <2> HIDE DEF f
  <2>3. ASSUME NEW k \in DOMAIN working'
        PROVE  /\ k \in DOMAIN working
               /\ working'[k].intent = working[k].intent
               /\ \A i \in DOMAIN fills' :
                     FillOf(i, k)' => i \in DOMAIN fills /\ FillOf(i, k)
    BY <2>1, <2>2, FillOfAppended DEF Keeps
  <2> QED BY <2>1, <2>3 DEF OneShotInv, OneShot, Queued, Unfilled, Keeps
<1>4. ASSUME NEW b \in Bars, OpenBar(b) PROVE OneShotInv'
  <2>1. Keeps(working, working') /\ UNCHANGED fills
    BY <1>4, CancelAllAt DEF OpenBar, accountVars
  <2>2. \A k \in DOMAIN working : Queued(k)' => ~working[k].closed
    BY <1>4, QueueOfOpen
  <2> QED BY <2>1, <2>2 DEF OneShotInv, OneShot, Unfilled, FillOf, Keeps
<1>5. ASSUME NEW c \in queue, CancelCandidate(c) PROVE OneShotInv'
  <2>1. /\ Keeps(working, working') /\ UNCHANGED fills
        /\ queue' \subseteq queue
    BY <1>5, CancelAllAt DEF CancelCandidate, accountVars
  <2> QED BY <2>1 DEF OneShotInv, OneShot, Unfilled, FillOf, Keeps, Queued
<1>6. ASSUME NEW c \in queue, FillCandidate(c) PROVE OneShotInv'
  <2> DEFINE f == FillRecord(c)
             n == Len(fills) + 1
  <2>1. /\ Appends(f) /\ Keeps(working, working')
        /\ queue' \subseteq queue
        /\ \A d \in queue' : d.order # c.order
        /\ c.order \in DOMAIN working
    BY <1>6, FillStep
  <2>2. OneShot(c.order) => working'[c.order].closed
    <3>1. working'[c.order] = Filled(working[c.order], FillQuantity(c))
          /\ working[c.order] \in WorkingOrders
      BY <1>6, FillStep
    <3> QED BY <3>1 DEF OneShot, Filled, WorkingOrders
  <2>3. \A k \in DOMAIN working : f.order = working[k].intent.id => k = c.order
    BY FillNamesOrder
  <2> HIDE DEF f
  <2>4. SUFFICES ASSUME NEW k \in DOMAIN working', OneShot(k)'
                 PROVE  /\ ~working'[k].closed \/ Queued(k)' => Unfilled(k)'
                        /\ \A i, j \in DOMAIN fills' :
                              FillOf(i, k)' /\ FillOf(j, k)' => i = j
    BY DEF OneShotInv
  <2>5. k \in DOMAIN working /\ OneShot(k)
    BY <2>1, <2>4 DEF Keeps, OneShot
  <2>6. ASSUME NEW i \in DOMAIN fills', FillOf(i, k)'
        PROVE  \/ i \in DOMAIN fills /\ FillOf(i, k)
               \/ i = n /\ k = c.order
    BY <2>1, <2>3, <2>6, FillOfAppended
  <2>7. CASE k = c.order
    <3>1. Unfilled(k)
      BY <2>5, <2>7 DEF OneShotInv, Queued
    <3> QED BY <2>1, <2>2, <2>5, <2>6, <2>7, <3>1 DEF Queued, Unfilled
  <2>8. CASE k # c.order
    <3>1. ~working'[k].closed \/ Queued(k)' => ~working[k].closed \/ Queued(k)
      BY <2>1, <2>5 DEF Keeps, Queued
    <3> QED BY <2>5, <2>6, <2>8, <3>1 DEF OneShotInv, Unfilled
  <2> QED BY <2>7, <2>8
<1> QED BY <1>1, <1>2, <1>3, <1>4, <1>5, <1>6, Steps

LEMMA OneShotOnce ==
    ASSUME OneShotInv PROVE OneShotFillsOnce
<1> SUFFICES ASSUME NEW k \in DOMAIN working, OneShot(k)
             PROVE  Cardinality({i \in DOMAIN fills : FillOf(i, k)}) <= 1
  BY DEF OneShotFillsOnce, OneShot
<1> DEFINE F == {i \in DOMAIN fills : FillOf(i, k)}
<1>1. ASSUME NEW i \in F PROVE F = {i}
  BY DEF OneShotInv
<1> HIDE DEF F
<1>2. Cardinality(F) <= 1
  <2>1. CASE F = {}
    <3>1. Cardinality(F) = 0
      BY <2>1, FS_EmptySet, Zenon
    <3> QED BY <3>1
  <2>2. CASE F # {}
    <3>1. PICK i \in F : TRUE
      BY <2>2
    <3>2. Cardinality(F) = 1
      BY <1>1, <3>1, FS_Singleton, Zenon
    <3> QED BY <3>2
  <2> QED BY <2>1, <2>2
<1> QED BY <1>2 DEF F

THEOREM OneShotsFillOnce == Spec => []OneShotFillsOnce
<1>1. Init => PreparedFirst /\ OneShotInv
  BY InitHasNoFills DEF PreparedFirst, OneShotInv, Unfilled
<1>2. IndInv /\ PreparedFirst /\ OneShotInv /\ [Next]_vars
        => (PreparedFirst /\ OneShotInv)'
  BY PreparedFirstKept, NextOneShot
<1> QED BY <1>1, <1>2, OneShotOnce, Invariance, PTL DEF Spec
-----------------------------------------------------------------------------
(***************************************************************************)
(* Liquidation is final: it leaves the symbol flat, its orders closed and  *)
(* none of them among a bar's candidates, and no step undoes that          *)
(* (_check_liquidation cancels every open order of the symbol, also those  *)
(* not submitted yet).                                                     *)
(***************************************************************************)
DeadSymbol(x) ==
    /\ positions[x].quantity = 0
    /\ \A k \in DOMAIN working :
          working[k].intent.symbol = x => working[k].closed /\ ~Queued(k)

LiquidatedInv ==
    \A i \in DOMAIN fills :
        fills[i].liquidity = "LIQUIDATION" => DeadSymbol(fills[i].symbol)

\* A symbol stays dead when no order is added, its position is left alone
\* and only open orders enter the queue.
LEMMA DeadSymbolKept ==
    ASSUME NEW x, DeadSymbol(x), Keeps(working, working'),
           positions'[x] = positions[x],
           \A k \in DOMAIN working : Queued(k)' => Queued(k) \/ ~working[k].closed
    PROVE  DeadSymbol(x)'
<1> SUFFICES ASSUME NEW k \in DOMAIN working', working'[k].intent.symbol = x
             PROVE  working'[k].closed /\ ~Queued(k)'
  BY DEF DeadSymbol
<1>1. k \in DOMAIN working /\ working[k].intent.symbol = x
  BY DEF Keeps
<1>2. working[k].closed /\ ~Queued(k)
  BY <1>1 DEF DeadSymbol
<1> QED BY <1>1, <1>2 DEF Keeps

\* A fill and what it leaves of the invariant and of the property.
LEMMA FillOutsideDead ==
    ASSUME LiquidatedInv, LiquidationIsFinal, NEW f, Appends(f),
           Keeps(working, working'),
           ~DeadSymbol(f.symbol),
           f.liquidity = "LIQUIDATION" => DeadSymbol(f.symbol)',
           \A x : x # f.symbol => positions'[x] = positions[x],
           \A k \in DOMAIN working : Queued(k)' => Queued(k) \/ ~working[k].closed
    PROVE  LiquidatedInv' /\ LiquidationIsFinal'
<1>1. ASSUME NEW i \in DOMAIN fills, fills[i].liquidity = "LIQUIDATION",
             NEW x, x = fills[i].symbol
      PROVE  x # f.symbol /\ DeadSymbol(x)'
  <2>1. DeadSymbol(x)
    BY <1>1 DEF LiquidatedInv
  <2>2. x # f.symbol
    BY <2>1
  <2> QED BY <2>1, <2>2, DeadSymbolKept
<1>2. \A i \in DOMAIN fills' :
         \/ i \in DOMAIN fills /\ fills'[i] = fills[i]
         \/ i = Len(fills) + 1 /\ fills'[i] = f
  BY DEF Appends
<1>3. LiquidatedInv'
  <2> SUFFICES ASSUME NEW i \in DOMAIN fills', fills'[i].liquidity = "LIQUIDATION",
                      NEW x, x = fills'[i].symbol
               PROVE  DeadSymbol(x)'
    BY DEF LiquidatedInv, DeadSymbol, Queued
  <2> QED BY <1>1, <1>2
<1>4. ASSUME NEW i \in DOMAIN fills', NEW j \in DOMAIN fills', i < j,
             fills'[i].liquidity = "LIQUIDATION"
      PROVE  fills'[j].symbol # fills'[i].symbol
  <2>1. i \in DOMAIN fills /\ fills'[i] = fills[i]
    BY <1>4 DEF Appends
  <2>2. CASE j \in DOMAIN fills
    BY <1>4, <2>1, <2>2 DEF Appends, LiquidationIsFinal
  <2>3. CASE j \notin DOMAIN fills
    BY <1>1, <1>2, <1>4, <2>1, <2>3
  <2> QED BY <2>2, <2>3
<1> QED BY <1>3, <1>4 DEF LiquidationIsFinal

LEMMA NextLiquidated ==
    ASSUME IndInv, PreparedFirst, LiquidatedInv, LiquidationIsFinal, [Next]_vars
    PROVE  LiquidatedInv' /\ LiquidationIsFinal'
<1>1. CASE Idle
  BY <1>1 DEF Idle, LiquidatedInv, LiquidationIsFinal, DeadSymbol, Queued,
     vars, orderVars, loopVars, accountVars
<1>2. ASSUME NEW i \in pending, AcceptIntent(i)
      PROVE  LiquidatedInv' /\ LiquidationIsFinal'
  BY <1>2, AcceptStep DEF LiquidatedInv, LiquidationIsFinal
<1>3. CASE /\ UNCHANGED <<fills, positions>>
           /\ Keeps(working, working')
           /\ \A k \in DOMAIN working : Queued(k)' => Queued(k) \/ ~working[k].closed
  BY <1>3, DeadSymbolKept DEF LiquidatedInv, LiquidationIsFinal
<1>4. ASSUME NEW m \in Marks, Liquidate(m)
      PROVE  LiquidatedInv' /\ LiquidationIsFinal'
  <2>0. PICK f, p, x : f = LiquidationRecord(m) /\ p = positions[sym] /\ x = sym
    OBVIOUS
  <2>1. /\ Appends(f) /\ queue' = {} /\ p.quantity # 0
        /\ f.symbol = x /\ f.quantity = Abs(p.quantity)
        /\ f.side = IF p.quantity > 0 THEN SELL ELSE BUY
        /\ positions' = [positions EXCEPT ![x] =
                            ApplyTrade(p, f.side, f.quantity, f.price)]
        /\ working' = CancelAll(OpenOrders(sym), now)
    BY <1>4, <2>0, LiquidateStep DEF LiquidationRecord
  <2>2. x \in Symbols /\ p.quantity \in Int /\ x \in DOMAIN positions
    BY <2>0 DEF IndInv, TypeOK, sym
  <2>3. positions'[x].quantity = 0
    <3>1. positions'[x].quantity = p.quantity + f.side * f.quantity
      BY <2>1, <2>2 DEF ApplyTrade
    <3> QED BY <2>1, <2>2, <3>1 DEF Abs, BUY, SELL
  <2>4. Keeps(working, working') /\ \A k \in DOMAIN working : ~Queued(k)'
    BY <2>1, CancelAllAt DEF Queued
  <2>5. ASSUME NEW k \in DOMAIN working', working'[k].intent.symbol = x
        PROVE  working'[k].closed
    <3>1. k \in DOMAIN working /\ working[k].intent.symbol = sym
      BY <2>0, <2>4, <2>5 DEF Keeps
    <3>2. k \notin OpenOrders(sym) => working[k].closed
      BY <3>1 DEF OpenOrders
    <3> QED BY <2>1, <3>1, <3>2, CancelAllAt
  <2>6. DeadSymbol(x)'
    BY <2>3, <2>4, <2>5 DEF DeadSymbol, Keeps
  <2>7. ~DeadSymbol(x)
    BY <2>0, <2>1 DEF DeadSymbol
  <2>8. \A y : y # x => positions'[y] = positions[y]
    BY <2>1
  <2> QED BY <2>1, <2>4, <2>6, <2>7, <2>8, FillOutsideDead
<1>5. ASSUME NEW b \in Bars, OpenBar(b)
      PROVE  LiquidatedInv' /\ LiquidationIsFinal'
  <2>1. Keeps(working, working') /\ UNCHANGED <<fills, positions>>
    BY <1>5, CancelAllAt DEF OpenBar, accountVars
  <2> QED BY <1>3, <1>5, <2>1, QueueOfOpen
<1>6. ASSUME NEW c \in queue, CancelCandidate(c)
      PROVE  LiquidatedInv' /\ LiquidationIsFinal'
  <2>1. /\ Keeps(working, working') /\ UNCHANGED <<fills, positions>>
        /\ queue' \subseteq queue
    BY <1>6, CancelAllAt DEF CancelCandidate, accountVars
  <2> QED BY <1>3, <2>1 DEF Queued
<1>7. ASSUME NEW c \in queue, FillCandidate(c)
      PROVE  LiquidatedInv' /\ LiquidationIsFinal'
  <2>0. PICK f, x : f = FillRecord(c) /\ x = sym
    OBVIOUS
  <2>1. /\ Appends(f) /\ Keeps(working, working')
        /\ queue' \subseteq queue
        /\ f.symbol = x /\ f.liquidity # "LIQUIDATION"
        /\ positions' = [positions EXCEPT ![x] =
                            ApplyTrade(positions[x], f.side, f.quantity, f.price)]
    BY <1>7, <2>0, FillStep DEF FillRecord, Candidate
  <2>2. ~DeadSymbol(x)
    BY <2>0 DEF DeadSymbol, Queued, IndInv, QueueSound
  <2>3. \A y : y # x => positions'[y] = positions[y]
    BY <2>1
  <2> QED BY <2>1, <2>2, <2>3, FillOutsideDead DEF Queued
<1> QED BY <1>1, <1>2, <1>4, <1>5, <1>6, <1>7, Steps

THEOREM LiquidationEndsSymbol == Spec => []LiquidationIsFinal
<1>1. Init => PreparedFirst /\ LiquidatedInv /\ LiquidationIsFinal
  BY InitHasNoFills DEF PreparedFirst, LiquidatedInv, LiquidationIsFinal
<1>2. IndInv /\ PreparedFirst /\ LiquidatedInv /\ LiquidationIsFinal /\ [Next]_vars
        => (PreparedFirst /\ LiquidatedInv /\ LiquidationIsFinal)'
  BY PreparedFirstKept, NextLiquidated
<1> QED BY <1>1, <1>2, Invariance, PTL DEF Spec
-----------------------------------------------------------------------------
(***************************************************************************)
(* A canceled order outside OCO groups never fills: its cancellation       *)
(* closes it and takes it out of the candidates of the bar.                *)
(***************************************************************************)
HasCancel(ledger) == \E i \in DOMAIN ledger : ledger[i].kind = "CANCELED"

CancelThenFill(ledger) ==
    \E i, j \in DOMAIN ledger :
        i < j /\ ledger[i].kind = "CANCELED" /\ ledger[j].kind = "FILLED"

CanceledInv ==
    \A k \in DOMAIN working : HasCancel(working[k].ledger) =>
        /\ working[k].closed
        /\ working[k].intent.oco = None => ~Queued(k)

\* A row appended to a ledger.
LEMMA RowAppended ==
    ASSUME NEW s \in Seq(LedgerRow), NEW row \in LedgerRow, row.kind # "ACCEPTED"
    PROVE  /\ HasCancel(Append(s, row)) => HasCancel(s) \/ row.kind = "CANCELED"
           /\ CancelThenFill(Append(s, row))
                => CancelThenFill(s) \/ (HasCancel(s) /\ row.kind = "FILLED")
<1> DEFINE n == Len(s)
           v == Append(s, row)
<1>1. n \in Nat /\ DOMAIN s = 1..n
  BY LenProperties
<1>2. /\ DOMAIN v = 1..(n + 1)
      /\ \A i \in 1..n : v[i] = s[i]
      /\ v[n + 1] = row
  BY AppendProperties, LenProperties
<1> HIDE DEF n, v
<1>3. HasCancel(v) => HasCancel(s) \/ row.kind = "CANCELED"
  BY <1>1, <1>2 DEF HasCancel
<1>4. CancelThenFill(v)
         => CancelThenFill(s) \/ (HasCancel(s) /\ row.kind = "FILLED")
  <2> SUFFICES ASSUME NEW i \in 1..(n + 1), NEW j \in 1..(n + 1), i < j,
                      v[i].kind = "CANCELED", v[j].kind = "FILLED"
               PROVE  CancelThenFill(s) \/ (HasCancel(s) /\ row.kind = "FILLED")
    BY <1>2 DEF CancelThenFill
  <2>1. i \in 1..n
    BY <1>1
  <2>2. CASE j = n + 1
    BY <1>1, <1>2, <2>1, <2>2 DEF HasCancel
  <2>3. CASE j \in 1..n
    BY <1>1, <1>2, <2>1, <2>3 DEF CancelThenFill
  <2> QED BY <1>1, <2>2, <2>3
<1> QED BY <1>3, <1>4 DEF v

LEMMA RowType ==
    ASSUME NEW at \in Nat
    PROVE  /\ Row(at, "FILLED") \in LedgerRow /\ Row(at, "FILLED").kind = "FILLED"
           /\ Row(at, "CANCELED") \in LedgerRow /\ Row(at, "CANCELED").kind = "CANCELED"
BY DEF Row, LedgerRow

LEMMA LedgerOfCancel ==
    ASSUME NEW o \in WorkingOrders, NEW at \in Nat,
           CancelThenFill(Cancel(o, at).ledger)
    PROVE  CancelThenFill(o.ledger)
<1>1. Cancel(o, at).ledger = Append(o.ledger, Row(at, "CANCELED"))
  BY DEF Cancel, WorkingOrders
<1>2. o.ledger \in Seq(LedgerRow)
  BY DEF WorkingOrders
<1> QED BY <1>1, <1>2, RowAppended, RowType

\* A fill's rows: the fill, and the cancellation of what remains.
LEMMA LedgerOfFill ==
    ASSUME NEW o \in WorkingOrders, NEW q, now \in Nat
    PROVE  /\ HasCancel(Filled(o, q).ledger)
                => HasCancel(o.ledger) \/ Filled(o, q).closed
           /\ CancelThenFill(Filled(o, q).ledger) => HasCancel(o.ledger)
<1> DEFINE s == o.ledger
           fill == Row(now, "FILLED")
           cancel == Row(now, "CANCELED")
           ends == o.intent.type = "MARKET" \/ o.intent.ioc
           v == Append(s, fill)
<1>1. s \in Seq(LedgerRow)
  BY DEF WorkingOrders
<1>2. /\ fill \in LedgerRow /\ fill.kind = "FILLED"
      /\ cancel \in LedgerRow /\ cancel.kind = "CANCELED"
  BY RowType
<1>3. /\ Filled(o, q).ledger = s \o IF o.remaining - q > 0 /\ ends
                                       THEN <<fill>> \o <<cancel>> ELSE <<fill>>
      /\ ends => Filled(o, q).closed
  BY DEF Filled, WorkingOrders
<1> HIDE DEF s, fill, cancel, ends
<1>4. v \in Seq(LedgerRow)
  BY <1>1, <1>2, AppendProperties
<1>5. s \o <<fill>> = v /\ s \o (<<fill>> \o <<cancel>>) = Append(v, cancel)
  BY <1>1, <1>2
<1>6. /\ HasCancel(v) => HasCancel(s)
      /\ CancelThenFill(v) => CancelThenFill(s) \/ HasCancel(s)
  BY <1>1, <1>2, RowAppended
<1>7. CancelThenFill(s) => HasCancel(s)
  BY DEF CancelThenFill, HasCancel
<1>8. CancelThenFill(Append(v, cancel)) => CancelThenFill(v)
  BY <1>2, <1>4, RowAppended
<1> QED BY <1>3, <1>5, <1>6, <1>7, <1>8 DEF s

LEMMA CancelsAreFinal ==
    StandaloneCancelIsFinal
      <=> \A k \in DOMAIN working :
             working[k].intent.oco = None => ~CancelThenFill(working[k].ledger)
BY DEF StandaloneCancelIsFinal, CanceledThenFilled, CancelThenFill

\* Canceling a set of orders, none of which is left in the queue unless it
\* belongs to a group.
LEMMA CancelAllCanceled ==
    ASSUME IndInv, CanceledInv, StandaloneCancelIsFinal,
           NEW ks, working' = CancelAll(ks, now),
           \A k \in DOMAIN working :
              Queued(k)' /\ working[k].intent.oco = None
                => k \notin ks /\ (Queued(k) \/ ~working[k].closed)
    PROVE  CanceledInv' /\ StandaloneCancelIsFinal'
<1>1. /\ Keeps(working, working') /\ now \in Nat
      /\ \A k \in DOMAIN working :
            /\ working[k] \in WorkingOrders
            /\ k \notin ks => working'[k] = working[k]
            /\ k \in ks => working'[k] = Cancel(working[k], now) /\ working'[k].closed
  BY CancelAllAt DEF IndInv, TypeOK, now
<1>2. ASSUME NEW k \in DOMAIN working', HasCancel(working'[k].ledger)
      PROVE  /\ working'[k].closed
             /\ working'[k].intent.oco = None => ~Queued(k)'
  <2>1. k \in DOMAIN working /\ working'[k].intent = working[k].intent
    BY <1>1 DEF Keeps
  <2>2. CASE k \in ks
    BY <1>1, <2>1, <2>2
  <2>3. CASE k \notin ks
    <3>1. HasCancel(working[k].ledger) /\ working'[k] = working[k]
      BY <1>1, <1>2, <2>1, <2>3
    <3> QED BY <2>1, <3>1 DEF CanceledInv
  <2> QED BY <2>2, <2>3
<1>3. ASSUME NEW k \in DOMAIN working', working'[k].intent.oco = None
      PROVE  ~CancelThenFill(working'[k].ledger)
  <2>1. k \in DOMAIN working /\ working[k].intent.oco = None
    BY <1>1, <1>3 DEF Keeps
  <2>2. ~CancelThenFill(working[k].ledger)
    BY <2>1, CancelsAreFinal
  <2>3. k \in ks => working'[k] = Cancel(working[k], now)
    BY <1>1, <2>1
  <2>4. k \notin ks => working'[k] = working[k]
    BY <1>1, <2>1
  <2> QED BY <1>1, <2>1, <2>2, <2>3, <2>4, LedgerOfCancel
<1>4. StandaloneCancelIsFinal'
  BY <1>3 DEF StandaloneCancelIsFinal, CanceledThenFilled, CancelThenFill
<1> QED BY <1>2, <1>4 DEF CanceledInv

LEMMA NextCanceled ==
    ASSUME IndInv, PreparedFirst, CanceledInv, StandaloneCancelIsFinal, [Next]_vars
    PROVE  CanceledInv' /\ StandaloneCancelIsFinal'
<1>1. CASE Idle
  BY <1>1 DEF Idle, CanceledInv, StandaloneCancelIsFinal, CanceledThenFilled, Queued,
     vars, orderVars, loopVars, accountVars
<1>2. ASSUME NEW i \in pending, AcceptIntent(i)
      PROVE  CanceledInv' /\ StandaloneCancelIsFinal'
  <2> DEFINE n == Len(working)
             o == WorkingOrder(book[i])
  <2>1. /\ queue' = {} /\ n \in Nat
        /\ DOMAIN working = 1..n /\ DOMAIN working' = 1..(n + 1)
        /\ \A k \in DOMAIN working : working'[k] = working[k]
        /\ working'[n + 1] = o
    BY <1>2, AcceptStep
  <2>2. ~HasCancel(o.ledger)
    BY DEF HasCancel, WorkingOrder, Row
  <2>3. ~CancelThenFill(o.ledger)
    BY <2>2 DEF HasCancel, CancelThenFill
  <2> HIDE DEF n, o
  <2>4. CanceledInv'
    BY <2>1, <2>2 DEF CanceledInv, Queued
  <2>5. \A k \in DOMAIN working' :
           working'[k].intent.oco = None => ~CancelThenFill(working'[k].ledger)
    BY <2>1, <2>3, CancelsAreFinal
  <2>6. StandaloneCancelIsFinal'
    BY <2>5 DEF StandaloneCancelIsFinal, CanceledThenFilled, CancelThenFill
  <2> QED BY <2>4, <2>6
<1>3. ASSUME NEW m \in Marks, Liquidate(m)
      PROVE  CanceledInv' /\ StandaloneCancelIsFinal'
  <2>1. working' = CancelAll(OpenOrders(sym), now) /\ queue' = {}
    BY <1>3, LiquidateStep
  <2> QED BY <2>1, CancelAllCanceled DEF Queued
<1>4. ASSUME NEW b \in Bars, OpenBar(b)
      PROVE  CanceledInv' /\ StandaloneCancelIsFinal'
  <2> DEFINE missed == {k \in DOMAIN working :
                          /\ Active(k)
                          /\ Offers(working[k].intent, b) = {}
                          /\ working[k].intent.ioc}
  <2>1. working' = CancelAll(missed, now)
    BY <1>4 DEF OpenBar
  <2>2. \A k \in DOMAIN working :
           Queued(k)' => k \notin missed /\ ~working[k].closed
    BY <1>4, QueueOfOpen
  <2> HIDE DEF missed
  <2> QED BY <2>1, <2>2, CancelAllCanceled
<1>5. ASSUME NEW c \in queue, CancelCandidate(c)
      PROVE  CanceledInv' /\ StandaloneCancelIsFinal'
  <2>1. /\ working' = CancelAll({c.order}, now)
        /\ queue' = queue \ {c} /\ IsNextCandidate(c)
    BY <1>5 DEF CancelCandidate
  <2>2. \A d \in queue' : d.order # c.order
    BY <2>1, NextCandidateIsAlone
  <2>3. \A k \in DOMAIN working : Queued(k)' => k \notin {c.order} /\ Queued(k)
    BY <2>1, <2>2 DEF Queued
  <2> QED BY <2>1, <2>3, CancelAllCanceled
<1>6. ASSUME NEW c \in queue, FillCandidate(c)
      PROVE  CanceledInv' /\ StandaloneCancelIsFinal'
  <2> DEFINE o == working[c.order]
             q == FillQuantity(c)
  <2>1. /\ Keeps(working, working') /\ queue' \subseteq queue
        /\ \A d \in queue' : d.order # c.order
        /\ c.order \in DOMAIN working /\ o \in WorkingOrders
        /\ working'[c.order] = Filled(o, q)
        /\ \A k \in DOMAIN working \ {c.order} :
              working'[k] = CancelAll(Siblings(c.order), now)[k]
    BY <1>6, FillStep
  <2>2. now \in Nat /\ \A k \in DOMAIN working : working[k] \in WorkingOrders
    BY ElementOfSeq, LenProperties DEF IndInv, TypeOK, now
  <2>3. ASSUME NEW k \in DOMAIN working, k # c.order
        PROVE  \/ working'[k] = working[k]
               \/ /\ working'[k] = Cancel(working[k], now)
                  /\ working'[k].closed
                  /\ working[k].intent.oco # None
    <3>1. working'[k] = IF k \in Siblings(c.order) THEN Cancel(working[k], now)
                                                   ELSE working[k]
      BY <2>1, <2>3 DEF CancelAll
    <3>2. k \in Siblings(c.order) => working[k].intent.oco # None
      BY DEF Siblings
    <3> QED BY <2>2, <3>1, <3>2, CancelType
  <2>4. /\ HasCancel(Filled(o, q).ledger) => HasCancel(o.ledger) \/ Filled(o, q).closed
        /\ CancelThenFill(Filled(o, q).ledger) => HasCancel(o.ledger)
    BY <2>1, <2>2, LedgerOfFill
  <2>5. HasCancel(o.ledger) => o.closed /\ o.intent.oco # None
    BY <2>1 DEF CanceledInv, Queued
  <2> HIDE DEF o, q
  <2>6. ASSUME NEW k \in DOMAIN working', HasCancel(working'[k].ledger)
        PROVE  /\ working'[k].closed
               /\ working'[k].intent.oco = None => ~Queued(k)'
    <3>1. k \in DOMAIN working /\ working'[k].intent = working[k].intent
      BY <2>1 DEF Keeps
    <3>2. CASE k = c.order
      <4>1. working'[k].closed
        BY <2>1, <2>4, <2>5, <2>6, <3>1, <3>2 DEF Keeps, o
      <4> QED BY <2>1, <3>2, <4>1 DEF Queued
    <3>3. CASE k # c.order
      <4>1. CASE working'[k] = working[k]
        <5>1. HasCancel(working[k].ledger)
          BY <2>6, <4>1
        <5> QED BY <2>1, <3>1, <4>1, <5>1 DEF CanceledInv, Queued
      <4> QED BY <2>3, <3>1, <3>3, <4>1
    <3> QED BY <3>2, <3>3
  <2>7. ASSUME NEW k \in DOMAIN working', working'[k].intent.oco = None
        PROVE  ~CancelThenFill(working'[k].ledger)
    <3>1. k \in DOMAIN working /\ working[k].intent.oco = None
      BY <2>1, <2>7 DEF Keeps
    <3>2. CASE k = c.order
      BY <2>1, <2>4, <2>5, <3>1, <3>2 DEF o
    <3>3. CASE k # c.order
      BY <2>3, <3>1, <3>3, CancelsAreFinal
    <3> QED BY <3>2, <3>3
  <2>8. StandaloneCancelIsFinal'
    BY <2>7 DEF StandaloneCancelIsFinal, CanceledThenFilled, CancelThenFill
  <2> QED BY <2>6, <2>8 DEF CanceledInv
<1> QED BY <1>1, <1>2, <1>3, <1>4, <1>5, <1>6, Steps

THEOREM CancellationIsFinal == Spec => []StandaloneCancelIsFinal
<1>1. Init => PreparedFirst /\ CanceledInv /\ StandaloneCancelIsFinal
  <2>1. Init => DOMAIN working = {}
    BY DEF Init
  <2> QED BY <2>1, InitHasNoFills DEF PreparedFirst, CanceledInv, StandaloneCancelIsFinal
<1>2. IndInv /\ PreparedFirst /\ CanceledInv /\ StandaloneCancelIsFinal /\ [Next]_vars
        => (PreparedFirst /\ CanceledInv /\ StandaloneCancelIsFinal)'
  BY PreparedFirstKept, NextCanceled
<1> QED BY <1>1, <1>2, Invariance, PTL DEF Spec
-----------------------------------------------------------------------------
(***************************************************************************)
(* A fill of a group closes its other members, and only those that are     *)
(* candidates of the same symbol's same bar may still fill.                *)
(***************************************************************************)
SameGroup(k, l) ==
    /\ k # l
    /\ working[k].intent.oco \notin {None, 0}
    /\ working[k].intent.oco = working[l].intent.oco

GroupInv ==
    \A k, l \in DOMAIN working : SameGroup(k, l) =>
        \A i \in DOMAIN fills : FillOf(i, k) =>
            /\ working[l].closed
            /\ Queued(l) => fills[i].at = now /\ fills[i].symbol = sym

\* Steps that add no fill of an order.
LEMMA GroupKept ==
    ASSUME GroupInv, OcoFillsShareBar, Keeps(working, working'),
           \A k \in DOMAIN working, i \in DOMAIN fills' :
              FillOf(i, k)' => i \in DOMAIN fills /\ FillOf(i, k) /\ fills'[i] = fills[i],
           \A l \in DOMAIN working :
              Queued(l)' => \/ ~working[l].closed
                            \/ Queued(l) /\ now' = now /\ sym' = sym
    PROVE  GroupInv' /\ OcoFillsShareBar'
<1>1. /\ DOMAIN working' = DOMAIN working
      /\ \A k \in DOMAIN working : /\ working'[k].intent = working[k].intent
                                   /\ working[k].closed => working'[k].closed
  BY DEF Keeps
<1>2. \A k, l \in DOMAIN working : SameGroup(k, l)' => SameGroup(k, l)
  BY <1>1 DEF SameGroup
<1>3. GroupInv'
  BY <1>1, <1>2 DEF GroupInv
<1>4. OcoFillsShareBar'
  BY <1>1 DEF OcoFillsShareBar
<1> QED BY <1>3, <1>4

LEMMA NextGroup ==
    ASSUME IndInv, PreparedFirst, GroupInv, OcoFillsShareBar, [Next]_vars
    PROVE  GroupInv' /\ OcoFillsShareBar'
<1>1. CASE Idle
  BY <1>1 DEF Idle, GroupInv, OcoFillsShareBar, SameGroup, Queued, FillOf,
     vars, orderVars, loopVars, accountVars, now, sym
<1>2. ASSUME NEW i \in pending, AcceptIntent(i) PROVE GroupInv' /\ OcoFillsShareBar'
  BY <1>2, AcceptStep DEF GroupInv, OcoFillsShareBar
<1>3. ASSUME NEW m \in Marks, Liquidate(m) PROVE GroupInv' /\ OcoFillsShareBar'
  <2> DEFINE f == LiquidationRecord(m)
  <2>1. Appends(f) /\ Keeps(working, working') /\ queue' = {}
    BY <1>3, LiquidateStep, CancelAllAt
  <2>2. \A k \in DOMAIN working : f.order # working[k].intent.id
    BY FillNamesOrder
  <2> HIDE DEF f
  <2>3. \A k \in DOMAIN working, i \in DOMAIN fills' :
           FillOf(i, k)' => i \in DOMAIN fills /\ FillOf(i, k) /\ fills'[i] = fills[i]
    BY <2>1, <2>2, FillOfAppended DEF Keeps
  <2> QED BY <2>1, <2>3, GroupKept DEF Queued
<1>4. ASSUME NEW b \in Bars, OpenBar(b) PROVE GroupInv' /\ OcoFillsShareBar'
  <2>1. Keeps(working, working') /\ UNCHANGED fills
    BY <1>4, CancelAllAt DEF OpenBar, accountVars
  <2>2. \A k \in DOMAIN working : Queued(k)' => ~working[k].closed
    BY <1>4, QueueOfOpen
  <2> QED BY <2>1, <2>2, GroupKept DEF FillOf, Keeps
<1>5. ASSUME NEW c \in queue, CancelCandidate(c) PROVE GroupInv' /\ OcoFillsShareBar'
  <2>1. /\ Keeps(working, working') /\ UNCHANGED <<fills, event>>
        /\ queue' \subseteq queue
    BY <1>5, CancelAllAt DEF CancelCandidate, accountVars
  <2> QED BY <2>1, GroupKept DEF FillOf, Keeps, Queued, now, sym
<1>6. ASSUME NEW c \in queue, FillCandidate(c) PROVE GroupInv' /\ OcoFillsShareBar'
  <2> DEFINE f == FillRecord(c)
             n == Len(fills) + 1
  <2>1. /\ Appends(f) /\ Keeps(working, working')
        /\ queue' \subseteq queue /\ UNCHANGED event
        /\ c.order \in DOMAIN working
        /\ f.at = now /\ f.symbol = sym
    BY <1>6, FillStep DEF FillRecord
  <2>2. \A k \in DOMAIN working : f.order = working[k].intent.id => k = c.order
    BY FillNamesOrder
  <2>3. ASSUME NEW l \in DOMAIN working, SameGroup(c.order, l)
        PROVE  working'[l].closed
    <3>1. CASE working[l].closed
      BY <2>1, <3>1 DEF Keeps
    <3>2. CASE ~working[l].closed
      <4>1. l \in Siblings(c.order) /\ l # c.order
        BY <2>3, <3>2 DEF Siblings, SameGroup
      <4>2. working'[l] = Cancel(working[l], now)
        BY <1>6, <4>1, FillStep DEF CancelAll
      <4>3. working[l] \in WorkingOrders /\ now \in Nat
        BY ElementOfSeq, LenProperties DEF IndInv, TypeOK, now
      <4> QED BY <4>2, <4>3, CancelType
    <3> QED BY <3>1, <3>2
  <2> HIDE DEF f
  <2>4. \A k \in DOMAIN working, i \in DOMAIN fills' : FillOf(i, k)' =>
           \/ i \in DOMAIN fills /\ FillOf(i, k) /\ fills'[i] = fills[i]
           \/ i = n /\ k = c.order /\ fills'[i].at = now /\ fills'[i].symbol = sym
    BY <2>1, <2>2, FillOfAppended DEF Keeps
  <2>5. /\ DOMAIN working' = DOMAIN working /\ now' = now /\ sym' = sym
        /\ \A k, l \in DOMAIN working : SameGroup(k, l)' <=> SameGroup(k, l)
        /\ \A k \in DOMAIN working : Queued(k)' => Queued(k)
        /\ \A k \in DOMAIN working : working[k].closed => working'[k].closed
    BY <2>1 DEF Keeps, SameGroup, Queued, now, sym
  <2>6. GroupInv'
    BY <2>3, <2>4, <2>5 DEF GroupInv
  <2>7. ASSUME NEW i \in DOMAIN fills', NEW j \in DOMAIN fills',
               NEW k \in DOMAIN working, NEW l \in DOMAIN working,
               FillOf(i, k)', FillOf(j, l)', SameGroup(k, l)
        PROVE  fills'[i].at = fills'[j].at /\ fills'[i].symbol = fills'[j].symbol
    <3>1. SameGroup(l, k) /\ k # l
      BY <2>7 DEF SameGroup
    <3>2. Queued(c.order)
      BY DEF Queued
    <3>3. CASE FillOf(i, k) /\ i \in DOMAIN fills /\ FillOf(j, l) /\ j \in DOMAIN fills
      <4>1. fills[i].at = fills[j].at /\ fills[i].symbol = fills[j].symbol
        BY <2>7, <3>3 DEF OcoFillsShareBar, SameGroup
      <4> QED BY <2>1, <3>3, <4>1 DEF Appends
    <3>4. CASE i = n /\ k = c.order /\ fills'[i].at = now /\ fills'[i].symbol = sym
      <4>1. j \in DOMAIN fills /\ FillOf(j, l) /\ fills'[j] = fills[j]
        BY <2>4, <2>7, <3>1, <3>4
      <4> QED BY <3>1, <3>2, <3>4, <4>1 DEF GroupInv
    <3>5. CASE j = n /\ l = c.order /\ fills'[j].at = now /\ fills'[j].symbol = sym
      <4>1. i \in DOMAIN fills /\ FillOf(i, k) /\ fills'[i] = fills[i]
        BY <2>4, <2>7, <3>1, <3>5
      <4> QED BY <2>7, <3>2, <3>5, <4>1 DEF GroupInv
    <3> QED BY <2>4, <2>7, <3>3, <3>4, <3>5
  <2>8. OcoFillsShareBar'
    BY <2>1, <2>5, <2>7 DEF OcoFillsShareBar, SameGroup, Keeps
  <2> QED BY <2>6, <2>8
<1> QED BY <1>1, <1>2, <1>3, <1>4, <1>5, <1>6, Steps

THEOREM GroupFillsInOneBar == Spec => []OcoFillsShareBar
<1>1. Init => PreparedFirst /\ GroupInv /\ OcoFillsShareBar
  BY InitHasNoFills DEF PreparedFirst, GroupInv, OcoFillsShareBar
<1>2. IndInv /\ PreparedFirst /\ GroupInv /\ OcoFillsShareBar /\ [Next]_vars
        => (PreparedFirst /\ GroupInv /\ OcoFillsShareBar)'
  BY PreparedFirstKept, NextGroup
<1> QED BY <1>1, <1>2, Invariance, PTL DEF Spec
-----------------------------------------------------------------------------
(***************************************************************************)
(* While a bar has liquidity left, every standalone order it reaches is    *)
(* still a candidate, or is reduce-only and has filled in the bar.         *)
(***************************************************************************)
Reached(k) ==
    /\ Active(k)
    /\ working[k].intent.oco = None
    /\ Offers(working[k].intent, bar) # {}

FilledNow(k) == \E i \in DOMAIN fills : FillOf(i, k) /\ fills[i].at = now

ServedInv ==
    phase = "bar" /\ available > 0 =>
        \A k \in DOMAIN working : Reached(k) =>
            Queued(k) \/ (working[k].intent.reduceOnly /\ FilledNow(k))

LEMMA ServedAtEnd == ASSUME ServedInv PROVE ReachedOrdersServed
BY DEF ServedInv, ReachedOrdersServed, Reached, FilledNow, Queued

\* Within a bar the orders it reaches become fewer.
LEMMA ReachedKept ==
    ASSUME Keeps(working, working'), UNCHANGED event,
           NEW k \in DOMAIN working, Active(k)'
    PROVE  Active(k) /\ working'[k].intent = working[k].intent /\ ~working'[k].closed
BY DEF Keeps, Active, OpenOrders, sym, now

LEMMA NextServed ==
    ASSUME IndInv, ServedInv, [Next]_vars
    PROVE  ServedInv'
<1>1. CASE Idle
  <2>1. CASE UNCHANGED vars
    BY <2>1 DEF ServedInv, Reached, FilledNow, Active, OpenOrders, Queued, FillOf,
       vars, orderVars, loopVars, accountVars, sym, now
  <2>2. CASE phase' # "bar"
    BY <2>2 DEF ServedInv
  <2> QED BY <1>1, <2>1, <2>2 DEF Idle
<1>2. ASSUME NEW i \in pending, AcceptIntent(i) PROVE ServedInv'
  BY <1>2 DEF AcceptIntent, loopVars, ServedInv
<1>3. ASSUME NEW m \in Marks, Liquidate(m) PROVE ServedInv'
  BY <1>3 DEF Liquidate, AtEvent, ServedInv
<1>4. ASSUME NEW b \in Bars, OpenBar(b) PROVE ServedInv'
  <2>1. /\ Keeps(working, working') /\ UNCHANGED event /\ bar' = b
        /\ queue' = ResolveOco(Candidates(b))
    BY <1>4, CancelAllAt DEF OpenBar
  <2>2. ASSUME NEW k \in DOMAIN working, Reached(k)' PROVE Queued(k)'
    <3>1. /\ Active(k) /\ working[k].intent.oco = None
          /\ Offers(working[k].intent, b) # {}
      BY <2>1, <2>2, ReachedKept DEF Reached
    <3>2. PICK o \in Offers(working[k].intent, b) : TRUE
      BY <3>1
    <3> DEFINE c == [order |-> k, raw |-> o.raw, liquidity |-> o.liquidity]
    <3>3. c \in Candidates(b)
      BY <3>1 DEF Candidates
    <3>4. c.order = k /\ Oco(c) = None
      BY <3>1 DEF Oco
    <3> QED BY <2>1, <3>3, <3>4 DEF ResolveOco, Queued
  <2>3. DOMAIN working' = DOMAIN working
    BY <2>1 DEF Keeps
  <2> QED BY <2>2, <2>3 DEF ServedInv
<1>5. ASSUME NEW c \in queue, CancelCandidate(c) PROVE ServedInv'
  <2>1. /\ Keeps(working, working') /\ UNCHANGED <<fills, event, bar, available, phase>>
        /\ queue' = queue \ {c}
        /\ c.order \in DOMAIN working => working'[c.order].closed
    BY <1>5, CancelAllAt DEF CancelCandidate, accountVars
  <2>2. ASSUME NEW k \in DOMAIN working, Reached(k)', phase = "bar", available > 0
        PROVE  Queued(k)' \/ (working'[k].intent.reduceOnly /\ FilledNow(k)')
    <3>1. /\ Reached(k) /\ k # c.order
          /\ working'[k].intent = working[k].intent
      BY <2>1, <2>2, ReachedKept DEF Reached
    <3>2. Queued(k) => Queued(k)'
      BY <2>1, <3>1 DEF Queued
    <3>3. FilledNow(k) => FilledNow(k)'
      BY <2>1, <3>1 DEF FilledNow, FillOf, now
    <3> QED BY <2>2, <3>1, <3>2, <3>3 DEF ServedInv
  <2> QED BY <2>1, <2>2 DEF ServedInv, Keeps
<1>6. ASSUME NEW c \in queue, FillCandidate(c) PROVE ServedInv'
  <2>0. PICK l, n, f : l = c.order /\ n = Len(fills) + 1 /\ f = FillRecord(c)
    OBVIOUS
  <2> DEFINE o == working[l]
             q == FillQuantity(c)
  <2>1. /\ Appends(f) /\ Keeps(working, working')
        /\ UNCHANGED <<event, bar, phase>> /\ queue' = queue \ {c}
        /\ l \in DOMAIN working /\ o \in WorkingOrders
        /\ working'[l] = Filled(o, q)
        /\ f.at = now /\ f.order = o.intent.id
        /\ available' = available - q /\ phase = "bar" /\ available > 0
    BY <1>6, <2>0, FillStep DEF FillRecord, FillCandidate, IsNextCandidate
  <2>2. ASSUME ~o.intent.reduceOnly, available' > 0
        PROVE  working'[l].closed
    <3>1. o.remaining \in Nat /\ available \in Nat
      BY <2>1 DEF IndInv, TypeOK, WorkingOrders
    <3>2. q = IF o.remaining < available THEN o.remaining ELSE available
      BY <2>0, <2>2 DEF FillQuantity
    <3> HIDE DEF q
    <3>3. o.remaining - q = 0
      BY <2>1, <2>2, <3>1, <3>2
    <3> QED BY <2>1, <3>3 DEF Filled, WorkingOrders
  <2> HIDE DEF q, o
  <2>3. n \in DOMAIN fills' /\ fills'[n] = f
    BY <2>0, <2>1 DEF Appends
  <2>4. FilledNow(l)'
    BY <2>1, <2>3 DEF FilledNow, FillOf, Keeps, now, o
  <2>5. ASSUME NEW k \in DOMAIN working, Reached(k)', available' > 0
        PROVE  Queued(k)' \/ (working'[k].intent.reduceOnly /\ FilledNow(k)')
    <3>1. Reached(k) /\ working'[k].intent = working[k].intent /\ ~working'[k].closed
      BY <2>1, <2>5, ReachedKept DEF Reached
    <3>2. CASE k = l
      BY <2>1, <2>2, <2>4, <2>5, <3>1, <3>2 DEF o
    <3>3. CASE k # l
      <4>1. Queued(k) => Queued(k)'
        BY <2>0, <2>1, <3>3 DEF Queued
      <4>2. ASSUME FilledNow(k) PROVE FilledNow(k)'
        <5>1. PICK i \in DOMAIN fills : FillOf(i, k) /\ fills[i].at = now
          BY <4>2 DEF FilledNow
        <5>2. i \in DOMAIN fills' /\ fills'[i] = fills[i] /\ now' = now
          BY <2>1 DEF Appends, now
        <5> QED BY <3>1, <5>1, <5>2 DEF FilledNow, FillOf
      <4> QED BY <2>1, <3>1, <4>1, <4>2 DEF ServedInv
    <3> QED BY <3>2, <3>3
  <2> QED BY <2>1, <2>5 DEF ServedInv, Keeps
<1> QED BY <1>1, <1>2, <1>3, <1>4, <1>5, <1>6, Steps

THEOREM ReachedServed == Spec => []ReachedOrdersServed
<1>1. Init => ServedInv
  BY DEF Init, ServedInv
<1>2. IndInv /\ ServedInv /\ [Next]_vars => ServedInv'
  BY NextServed
<1> QED BY <1>1, <1>2, Invariance, ServedAtEnd, PTL DEF Spec
-----------------------------------------------------------------------------
(***************************************************************************)
(* Sums over the fills, and what the next fill adds to them.               *)
(***************************************************************************)
Signed == [i \in DOMAIN fills |-> fills[i].side * fills[i].quantity]

LEMMA FillsSummed ==
    ASSUME NEW f, Appends(f), NEW S \in SUBSET (DOMAIN fills)
    PROVE  /\ SumFunctionOnSet(Quantities, S) \in Int
           /\ SumFunctionOnSet(Quantities', S) = SumFunctionOnSet(Quantities, S)
           /\ SumFunctionOnSet(Quantities', S \cup {Len(fills) + 1})
                = SumFunctionOnSet(Quantities, S) + f.quantity
           /\ SumFunctionOnSet(Signed, S) \in Int
           /\ SumFunctionOnSet(Signed', S) = SumFunctionOnSet(Signed, S)
           /\ SumFunctionOnSet(Signed', S \cup {Len(fills) + 1})
                = SumFunctionOnSet(Signed, S) + f.side * f.quantity
<1>0. PICK n : n = Len(fills)
  OBVIOUS
<1>1. n \in Nat /\ S \in SUBSET (1..n)
  BY <1>0 DEF Appends
<1>2. /\ \A i \in 1..n : Quantities[i] \in Int /\ Quantities'[i] = Quantities[i]
      /\ Quantities'[n + 1] = f.quantity /\ f.quantity \in Int
  BY <1>0 DEF Appends, Quantities, Fill
<1>3. /\ \A i \in 1..n : Signed[i] \in Int /\ Signed'[i] = Signed[i]
      /\ Signed'[n + 1] = f.side * f.quantity /\ f.side * f.quantity \in Int
  <2>1. /\ DOMAIN fills = 1..n /\ DOMAIN fills' = 1..(n + 1)
        /\ \A i \in 1..n : fills'[i] = fills[i] /\ fills[i] \in Fill
        /\ fills'[n + 1] = f /\ f \in Fill
    BY <1>0 DEF Appends
  <2>2. \A r \in Fill : r.side \in Int /\ r.quantity \in Int /\ r.side * r.quantity \in Int
    BY DEF Fill, Sides, BUY, SELL
  <2> QED BY <1>1, <2>1, <2>2 DEF Signed
<1> DEFINE Grows(a, b) ==
              /\ SumFunctionOnSet(a, S) \in Int
              /\ SumFunctionOnSet(b, S) = SumFunctionOnSet(a, S)
              /\ SumFunctionOnSet(b, S \cup {n + 1}) = SumFunctionOnSet(a, S) + b[n + 1]
<1>4. ASSUME NEW a, NEW b, b[n + 1] \in Int,
             \A i \in 1..n : a[i] \in Int /\ b[i] = a[i]
      PROVE  Grows(a, b)
  BY <1>1, <1>4, SumAppended
<1> HIDE DEF Grows
<1>5. Grows(Quantities, Quantities') /\ Grows(Signed, Signed')
  BY <1>2, <1>3, <1>4
<1>6. /\ SumFunctionOnSet(Quantities, S) \in Int
      /\ SumFunctionOnSet(Quantities', S) = SumFunctionOnSet(Quantities, S)
      /\ SumFunctionOnSet(Quantities', S \cup {n + 1})
           = SumFunctionOnSet(Quantities, S) + f.quantity
  BY <1>2, <1>5 DEF Grows
<1>7. /\ SumFunctionOnSet(Signed, S) \in Int
      /\ SumFunctionOnSet(Signed', S) = SumFunctionOnSet(Signed, S)
      /\ SumFunctionOnSet(Signed', S \cup {n + 1})
           = SumFunctionOnSet(Signed, S) + f.side * f.quantity
  BY <1>3, <1>5 DEF Grows
<1> QED BY <1>0, <1>6, <1>7

(***************************************************************************)
(* The two halves of QuantitiesReconcile: of a position, and of an order.  *)
(***************************************************************************)
FillsOn(x) == {i \in DOMAIN fills : fills[i].symbol = x}
FillsOfOrder(k) == {i \in DOMAIN fills : FillOf(i, k)}

NetOfFills(x) == positions[x].quantity = SumFunctionOnSet(Signed, FillsOn(x))

Accounted(k) ==
    working[k].intent.quantity = working[k].remaining +
       SumFunctionOnSet(Quantities, FillsOfOrder(k))

Reconciled ==
    /\ \A x \in Symbols : NetOfFills(x)
    /\ \A k \in DOMAIN working : Accounted(k)

LEMMA ReconcileParts == QuantitiesReconcile <=> Reconciled
BY DEF QuantitiesReconcile, Reconciled, NetOfFills, Accounted, Signed, FillsOn,
   FillsOfOrder

\* A trade of a symbol, by a candidate or a liquidation.
LEMMA NetAfterTrade ==
    ASSUME IndInv, NEW f, Appends(f), NEW s \in Symbols, f.symbol = s,
           positions' = [positions EXCEPT ![s] =
                            ApplyTrade(positions[s], f.side, f.quantity, f.price)],
           NEW x \in Symbols, NetOfFills(x)
    PROVE  NetOfFills(x)'
<1>0. PICK n, S : n = Len(fills) + 1 /\ S = FillsOn(x)
  OBVIOUS
<1>1. S \in SUBSET (DOMAIN fills)
  BY <1>0 DEF FillsOn
<1>2. FillsOn(x)' = IF x = s THEN S \cup {n} ELSE S
  <2>1. n \notin DOMAIN fills /\ DOMAIN fills' = DOMAIN fills \cup {n}
    BY <1>0 DEF Appends
  <2>2. fills'[n] = f /\ \A i \in DOMAIN fills : fills'[i] = fills[i]
    BY <1>0 DEF Appends
  <2> QED BY <1>0, <2>1, <2>2 DEF FillsOn
<1>3. positions'[x].quantity = positions[x].quantity
                                 + IF x = s THEN f.side * f.quantity ELSE 0
  <2>1. positions \in [Symbols -> [quantity : Int, average : Int]]
    BY DEF IndInv, TypeOK
  <2> QED BY <2>1 DEF ApplyTrade
<1>4. positions[x].quantity = SumFunctionOnSet(Signed, S)
  BY <1>0 DEF NetOfFills
<1>5. SumFunctionOnSet(Signed', FillsOn(x)')
        = SumFunctionOnSet(Signed, S) + IF x = s THEN f.side * f.quantity ELSE 0
  <2>1. /\ SumFunctionOnSet(Signed, S) \in Int
        /\ SumFunctionOnSet(Signed', S) = SumFunctionOnSet(Signed, S)
        /\ SumFunctionOnSet(Signed', S \cup {n})
             = SumFunctionOnSet(Signed, S) + f.side * f.quantity
    BY <1>0, <1>1, FillsSummed
  <2> QED BY <1>2, <2>1
<1> QED BY <1>3, <1>4, <1>5 DEF NetOfFills

\* What a fill leaves of an order that it is, or is not, booked to.
LEMMA AccountedAfterFill ==
    ASSUME NEW f, Appends(f), Keeps(working, working'),
           NEW k \in DOMAIN working, Accounted(k), working[k].remaining \in Int,
           NEW q \in Int,
           working'[k].remaining = working[k].remaining - q,
           \/ f.order = working[k].intent.id /\ f.quantity = q
           \/ f.order # working[k].intent.id /\ q = 0
    PROVE  Accounted(k)'
<1>0. PICK n, S : n = Len(fills) + 1 /\ S = FillsOfOrder(k)
  OBVIOUS
<1>1. S \in SUBSET (DOMAIN fills)
  BY <1>0 DEF FillsOfOrder
<1>2. working'[k].intent = working[k].intent
  BY DEF Keeps
<1>3. FillsOfOrder(k)' = IF f.order = working[k].intent.id THEN S \cup {n} ELSE S
  <2>1. n \notin DOMAIN fills /\ DOMAIN fills' = DOMAIN fills \cup {n}
    BY <1>0 DEF Appends
  <2>2. fills'[n] = f /\ \A i \in DOMAIN fills : fills'[i] = fills[i]
    BY <1>0 DEF Appends
  <2> QED BY <1>0, <1>2, <2>1, <2>2 DEF FillsOfOrder, FillOf
<1>4. /\ SumFunctionOnSet(Quantities, S) \in Int
      /\ SumFunctionOnSet(Quantities', FillsOfOrder(k)')
           = SumFunctionOnSet(Quantities, S) + q
  <2>1. /\ SumFunctionOnSet(Quantities, S) \in Int
        /\ SumFunctionOnSet(Quantities', S) = SumFunctionOnSet(Quantities, S)
        /\ SumFunctionOnSet(Quantities', S \cup {n})
             = SumFunctionOnSet(Quantities, S) + f.quantity
    BY <1>0, <1>1, FillsSummed
  <2> QED BY <1>3, <2>1
<1>5. working[k].intent.quantity = working[k].remaining + SumFunctionOnSet(Quantities, S)
  BY <1>0 DEF Accounted
<1> QED BY <1>2, <1>4, <1>5 DEF Accounted

\* Steps that trade nothing.
LEMMA ReconcileKept ==
    ASSUME QuantitiesReconcile, UNCHANGED <<fills, positions>>,
           Keeps(working, working'),
           \A k \in DOMAIN working : working'[k].remaining = working[k].remaining
    PROVE  QuantitiesReconcile'
BY DEF QuantitiesReconcile, Quantities, FillOf, Keeps

LEMMA NextReconcile ==
    ASSUME IndInv, PreparedFirst, QuantitiesReconcile, [Next]_vars
    PROVE  QuantitiesReconcile'
<1>0. /\ \A k \in DOMAIN working : working[k] \in WorkingOrders
      /\ \A x \in Symbols : NetOfFills(x)
      /\ \A k \in DOMAIN working : Accounted(k)
  BY ReconcileParts, ElementOfSeq, LenProperties DEF IndInv, TypeOK, Reconciled
<1>9. Reconciled' => QuantitiesReconcile'
  BY ReconcileParts, PTL
<1>1. CASE Idle
  BY <1>1 DEF Idle, QuantitiesReconcile, Quantities, FillOf
<1>2. ASSUME NEW i \in pending, AcceptIntent(i) PROVE QuantitiesReconcile'
  <2>1. fills = << >>
    BY <1>2 DEF PreparedFirst, AcceptIntent
  <2>3. /\ UNCHANGED <<positions, fills>>
        /\ \A k \in DOMAIN working : working'[k] = working[k]
    BY <1>2, <2>1, AcceptStep
  <2>4. \A x \in Symbols : NetOfFills(x)'
    BY <1>0, <2>3 DEF NetOfFills, Signed, FillsOn
  <2>5. \A k \in DOMAIN working : Accounted(k)'
    BY <1>0, <2>3 DEF Accounted, Quantities, FillsOfOrder, FillOf
  <2>6. ASSUME NEW k, k = Len(working) + 1 PROVE Accounted(k)'
    <3>1. /\ working'[k].intent.quantity = working'[k].remaining
          /\ working'[k].intent.quantity \in Int
      <4>1. working'[k] = WorkingOrder(book[i])
        BY <1>2, <2>6, AcceptStep
      <4>2. book \in Seq(OrderIntent) /\ i \in DOMAIN book
        BY RequestAssumption DEF IndInv, TypeOK
      <4>3. book[i] \in OrderIntent
        BY <4>2, ElementOfSeq, LenProperties
      <4> QED BY <4>1, <4>3 DEF WorkingOrder, OrderIntent
    <3>2. FillsOfOrder(k)' = {}
      BY <2>1, <2>3 DEF FillsOfOrder
    <3> QED BY <3>1, <3>2, SumEmpty DEF Accounted
  <2>7. \A k \in DOMAIN working' : k \in DOMAIN working \/ k = Len(working) + 1
    BY <1>2, AcceptStep
  <2>8. \A k \in DOMAIN working' : Accounted(k)'
    BY <2>5, <2>6, <2>7
  <2> QED BY <1>9, <2>4, <2>8 DEF Reconciled
<1>3. ASSUME NEW m \in Marks, Liquidate(m) PROVE QuantitiesReconcile'
  <2>0. PICK f, s : f = LiquidationRecord(m) /\ s = sym
    OBVIOUS
  <2>1. /\ Appends(f) /\ Keeps(working, working')
        /\ positions' = [positions EXCEPT ![s] =
              ApplyTrade(positions[s], f.side, f.quantity, f.price)]
        /\ f.symbol = s
    BY <1>3, <2>0, LiquidateStep, CancelAllAt DEF LiquidationRecord
  <2>2. s \in Symbols
    BY <2>0 DEF IndInv, TypeOK, sym
  <2>3. \A x \in Symbols : NetOfFills(x)'
    BY <1>0, <2>1, <2>2, NetAfterTrade
  <2>4. ASSUME NEW k \in DOMAIN working PROVE Accounted(k)'
    <3>1. f.order # working[k].intent.id
      BY <2>0, FillNamesOrder
    <3>2. working'[k].remaining = working[k].remaining
      BY <1>3, LiquidateStep, CancelAllKeeps DEF IndInv, TypeOK, now
    <3>3. working[k].remaining \in Int
      BY <1>0 DEF WorkingOrders
    <3> QED BY <1>0, <2>1, <3>1, <3>2, <3>3, AccountedAfterFill
  <2> QED BY <1>9, <2>1, <2>3, <2>4 DEF Reconciled, Keeps
<1>4. ASSUME NEW b \in Bars, OpenBar(b) PROVE QuantitiesReconcile'
  <2>1. Keeps(working, working') /\ UNCHANGED <<fills, positions>>
    BY <1>4, CancelAllAt DEF OpenBar, accountVars
  <2>2. \A k \in DOMAIN working : working'[k].remaining = working[k].remaining
    BY <1>4, CancelAllKeeps DEF OpenBar, IndInv, TypeOK, now
  <2> QED BY <2>1, <2>2, ReconcileKept
<1>5. ASSUME NEW c \in queue, CancelCandidate(c) PROVE QuantitiesReconcile'
  <2>1. Keeps(working, working') /\ UNCHANGED <<fills, positions>>
    BY <1>5, CancelAllAt DEF CancelCandidate, accountVars
  <2>2. \A k \in DOMAIN working : working'[k].remaining = working[k].remaining
    BY <1>5, CancelAllKeeps DEF CancelCandidate, IndInv, TypeOK, now
  <2> QED BY <2>1, <2>2, ReconcileKept
<1>6. ASSUME NEW c \in queue, FillCandidate(c) PROVE QuantitiesReconcile'
  <2>0. PICK f, s, q, l : /\ f = FillRecord(c) /\ s = sym
                          /\ q = FillQuantity(c) /\ l = c.order
    OBVIOUS
  <2>1. /\ Appends(f) /\ Keeps(working, working')
        /\ positions' = [positions EXCEPT ![s] =
              ApplyTrade(positions[s], f.side, f.quantity, f.price)]
        /\ f.symbol = s /\ f.order = working[l].intent.id /\ f.quantity = q
        /\ l \in DOMAIN working
        /\ working'[l] = Filled(working[l], q)
        /\ \A k \in DOMAIN working \ {l} : working'[k] = CancelAll(Siblings(l), now)[k]
    BY <1>6, <2>0, FillStep DEF FillRecord
  <2>2. s \in Symbols /\ now \in Nat
    BY <2>0 DEF IndInv, TypeOK, sym, now
  <2>3. \A x \in Symbols : NetOfFills(x)'
    BY <1>0, <2>1, <2>2, NetAfterTrade
  <2>4. q \in Nat /\ q <= working[l].remaining
    BY <1>6, <2>0, FillQuantityBounds
       DEF FillCandidate, IsNextCandidate, Executable, IndInv
  <2>5. ASSUME NEW k \in DOMAIN working PROVE Accounted(k)'
    <3>1. Accounted(k) /\ working[k].remaining \in Int
      BY <1>0 DEF WorkingOrders
    <3>2. CASE k = l
      <4>1. working'[k].remaining = working[k].remaining - q
        BY <1>0, <2>1, <2>2, <2>4, <3>2, FilledType
      <4> QED BY <2>1, <2>4, <3>1, <3>2, <4>1, AccountedAfterFill
    <3>3. CASE k # l
      <4>1. working'[k].remaining = working[k].remaining - 0
        <5>1. CancelAll(Siblings(l), now)[k].remaining = working[k].remaining
          BY <2>2, CancelAllKeeps DEF IndInv, TypeOK
        <5> QED BY <2>1, <3>1, <3>3, <5>1
      <4>2. f.order # working[k].intent.id
        BY <2>0, <3>3, FillNamesOrder
      <4> QED BY <2>1, <3>1, <4>1, <4>2, AccountedAfterFill
    <3> QED BY <3>2, <3>3
  <2> QED BY <1>9, <2>1, <2>3, <2>5 DEF Reconciled, Keeps
<1> QED BY <1>1, <1>2, <1>3, <1>4, <1>5, <1>6, Steps

THEOREM Reconciliation == Spec => []QuantitiesReconcile
<1>1. Init => PreparedFirst /\ QuantitiesReconcile
  <2> SUFFICES ASSUME Init PROVE PreparedFirst /\ QuantitiesReconcile
    OBVIOUS
  <2>1. DOMAIN working = {} /\ DOMAIN fills = {} /\ PreparedFirst
    BY InitHasNoFills DEF Init, PreparedFirst
  <2>2. \A x \in Symbols : positions[x].quantity = 0
    BY DEF Init, Flat
  <2> QED BY <2>1, <2>2, SumEmpty DEF QuantitiesReconcile
<1>2. IndInv /\ PreparedFirst /\ QuantitiesReconcile /\ [Next]_vars
        => (PreparedFirst /\ QuantitiesReconcile)'
  BY PreparedFirstKept, NextReconcile
<1> QED BY <1>1, <1>2, Invariance, PTL DEF Spec
-----------------------------------------------------------------------------
(***************************************************************************)
(* What a bar has left is its capacity less its fills: no bar of the       *)
(* symbol has traded at this time before, and none will again.             *)
(***************************************************************************)
Past(f) ==
    \/ f.at < now
    \/ /\ f.at = now
       /\ event.priority = BAR
       /\ f.symbol < sym \/ (f.symbol = sym /\ phase # "events")

FillsPast ==
    \A i \in DOMAIN fills : fills[i].liquidity # "LIQUIDATION" => Past(fills[i])

CapInv ==
    phase = "bar" =>
        /\ event.priority = BAR
        /\ SumFunctionOnSet(Quantities, FillsOfBar) + available = Capacity(bar, sym)

\* A fill in the past stays there.
LEMMA NextPast ==
    ASSUME IndInv, NEW f \in Fill, Past(f), phase # "prepare",
           \/ event' = NextEvent
           \/ event' = event /\ (phase' # "events" \/ phase' = phase)
    PROVE  Past(f)'
<1>1. /\ event.time \in Nat /\ event.priority \in {0, 1, 2}
      /\ event.symbol \in 1..NumSymbols /\ NumSymbols \in Nat
      /\ f.symbol \in 1..NumSymbols /\ f.at \in Nat
  BY ParametersAssumption DEF IndInv, TypeOK, FUNDING, MARK, BAR, Symbols, Fill
<1>2. CASE event' = event /\ (phase' # "events" \/ phase' = phase)
  BY <1>2 DEF Past, now, sym
<1>3. CASE event' = NextEvent
  <2>1. CASE sym < NumSymbols
    <3>1. /\ event'.time = event.time /\ event'.priority = event.priority
          /\ event'.symbol = event.symbol + 1
      BY <1>3, <2>1 DEF NextEvent, sym, IndInv, TypeOK
    <3> QED BY <1>1, <3>1 DEF Past, now, sym
  <2>2. CASE ~(sym < NumSymbols) /\ event.priority < BAR
    <3>1. f.at < now
      BY <1>1, <2>2 DEF Past, BAR
    <3>2. event'.time = event.time
      BY <1>3, <2>2 DEF NextEvent, IndInv, TypeOK
    <3> QED BY <3>1, <3>2 DEF Past, now
  <2>3. CASE ~(sym < NumSymbols) /\ ~(event.priority < BAR)
    <3>1. event'.time = event.time + 1
      BY <1>3, <2>3 DEF NextEvent, now
    <3>2. f.at <= event.time
      BY <1>1 DEF Past, now
    <3> QED BY <1>1, <3>1, <3>2 DEF Past, now
  <2> QED BY <2>1, <2>2, <2>3
<1> QED BY <1>2, <1>3

LEMMA NextFillsPast ==
    ASSUME IndInv, PreparedFirst, CapInv, FillsPast, [Next]_vars
    PROVE  FillsPast'
<1>0. /\ fills \in Seq(Fill)
      /\ \A i \in DOMAIN fills : fills[i] \in Fill
  BY ElementOfSeq, LenProperties DEF IndInv, TypeOK
<1>1. ASSUME UNCHANGED fills,
             phase = "prepare" \/ event' = NextEvent
               \/ (event' = event /\ (phase' # "events" \/ phase' = phase))
      PROVE  FillsPast'
  <2>1. CASE phase = "prepare"
    BY <1>1, <2>1 DEF PreparedFirst, FillsPast
  <2>2. CASE phase # "prepare"
    <3>1. ASSUME NEW g \in Fill, Past(g) PROVE Past(g)'
      BY <1>1, <2>2, <3>1, NextPast
    <3> QED BY <1>0, <1>1, <3>1 DEF FillsPast
  <2> QED BY <2>1, <2>2
<1>2. CASE Idle
  BY <1>1, <1>2 DEF Idle, vars, loopVars, accountVars
<1>3. ASSUME NEW i \in pending, AcceptIntent(i) PROVE FillsPast'
  BY <1>1, <1>3 DEF AcceptIntent, accountVars
<1>4. ASSUME NEW m \in Marks, Liquidate(m) PROVE FillsPast'
  <2>0. PICK f : f = LiquidationRecord(m)
    OBVIOUS
  <2>1. Appends(f) /\ event' = NextEvent /\ f.liquidity = "LIQUIDATION"
        /\ phase = "events"
    BY <1>4, <2>0, LiquidateStep DEF LiquidationRecord
  <2>2. ASSUME NEW g \in Fill, Past(g) PROVE Past(g)'
    BY <2>1, <2>2, NextPast
  <2> QED BY <1>0, <2>1, <2>2 DEF FillsPast, Appends
<1>5. ASSUME NEW b \in Bars, OpenBar(b) PROVE FillsPast'
  BY <1>1, <1>5 DEF OpenBar, accountVars
<1>6. ASSUME NEW c \in queue, CancelCandidate(c) PROVE FillsPast'
  BY <1>1, <1>6 DEF CancelCandidate, accountVars
<1>7. ASSUME NEW c \in queue, FillCandidate(c) PROVE FillsPast'
  <2>0. PICK f : f = FillRecord(c)
    OBVIOUS
  <2>1. /\ Appends(f) /\ UNCHANGED <<event, phase>> /\ phase = "bar"
        /\ f.at = now /\ f.symbol = sym
    BY <1>7, <2>0, FillStep DEF FillRecord
  <2>2. Past(f)'
    BY <2>1 DEF CapInv, Past, now, sym
  <2>3. ASSUME NEW g \in Fill, Past(g) PROVE Past(g)'
    BY <2>1, <2>3, NextPast
  <2> QED BY <1>0, <2>1, <2>2, <2>3 DEF FillsPast, Appends
<1> QED BY <1>2, <1>3, <1>4, <1>5, <1>6, <1>7, Steps

LEMMA NextCap ==
    ASSUME IndInv, CapInv, FillsPast, [Next]_vars
    PROVE  CapInv'
<1>1. CASE Idle
  BY <1>1 DEF Idle, CapInv, Quantities, FillsOfBar, vars, loopVars, accountVars,
     sym, now
<1>2. ASSUME NEW i \in pending, AcceptIntent(i) PROVE CapInv'
  BY <1>2 DEF AcceptIntent, loopVars, CapInv
<1>3. ASSUME NEW m \in Marks, Liquidate(m) PROVE CapInv'
  BY <1>3 DEF Liquidate, AtEvent, CapInv
<1>4. ASSUME NEW b \in Bars, OpenBar(b) PROVE CapInv'
  <2>1. /\ UNCHANGED <<fills, event>> /\ phase = "events" /\ event.priority = BAR
        /\ bar' = b /\ available' = Capacity(b, sym) /\ phase' = "bar"
    BY <1>4 DEF OpenBar, AtEvent, accountVars
  <2>2. FillsOfBar' = {}
    <3> SUFFICES ASSUME NEW i \in DOMAIN fills, fills[i].symbol = sym,
                        fills[i].at = now, fills[i].liquidity # "LIQUIDATION"
                 PROVE  FALSE
      BY <2>1 DEF FillsOfBar, sym, now
    <3>1. Past(fills[i])
      BY DEF FillsPast
    <3>2. sym \in Int /\ now \in Int
      BY ParametersAssumption DEF IndInv, TypeOK, sym, now, Symbols
    <3> QED BY <2>1, <3>1, <3>2 DEF Past
  <2>3. ValidBar(b) /\ sym \in Symbols
    BY RequestAssumption DEF IndInv, TypeOK, sym
  <2>4. Capacity(b, sym) \in Nat
    BY <2>3, CapacityType
  <2>5. SumFunctionOnSet(Quantities', FillsOfBar') = 0
    BY <2>2, SumEmpty
  <2>6. Capacity(bar', sym') = Capacity(b, sym)
    BY <2>1 DEF sym
  <2> QED BY <2>1, <2>4, <2>5, <2>6 DEF CapInv, sym
<1>5. ASSUME NEW c \in queue, CancelCandidate(c) PROVE CapInv'
  BY <1>5 DEF CancelCandidate, CapInv, Quantities, FillsOfBar, accountVars, sym, now
<1>6. ASSUME NEW c \in queue, FillCandidate(c) PROVE CapInv'
  <2>0. PICK f, n, S, x : /\ f = FillRecord(c) /\ n = Len(fills) + 1
                          /\ S = FillsOfBar /\ x = Capacity(bar, sym)
    OBVIOUS
  <2>1. /\ Appends(f) /\ UNCHANGED <<event, phase, bar>> /\ phase = "bar"
        /\ c \in Candidate
        /\ f.at = now /\ f.symbol = sym /\ f.liquidity = c.liquidity
        /\ available' = available - f.quantity
    BY <1>6, <2>0, FillStep DEF FillRecord, FillCandidate
  <2>2. f.liquidity # "LIQUIDATION"
    BY <2>1 DEF Candidate
  <2>3. S \in SUBSET (DOMAIN fills) /\ FillsOfBar' = S \cup {n}
    <3>1. n \notin DOMAIN fills /\ DOMAIN fills' = DOMAIN fills \cup {n}
      BY <2>0, <2>1 DEF Appends
    <3>2. fills'[n] = f /\ \A i \in DOMAIN fills : fills'[i] = fills[i]
      BY <2>0, <2>1 DEF Appends
    <3>3. sym' = sym /\ now' = now
      BY <2>1 DEF sym, now
    <3> QED BY <2>0, <2>1, <2>2, <3>1, <3>2, <3>3 DEF FillsOfBar
  <2>4. /\ SumFunctionOnSet(Quantities, S) \in Int
        /\ SumFunctionOnSet(Quantities', FillsOfBar')
             = SumFunctionOnSet(Quantities, S) + f.quantity
    BY <2>0, <2>1, <2>3, FillsSummed
  <2>5. f.quantity \in Int /\ available \in Int
    BY <2>1 DEF Appends, Fill, IndInv, TypeOK
  <2>6. Capacity(bar', sym') = x
    BY <2>0, <2>1 DEF sym
  <2>7. SumFunctionOnSet(Quantities, S) + available = x
    BY <2>0, <2>1 DEF CapInv
  <2>8. event'.priority = BAR
    BY <2>1 DEF CapInv
  <2> QED BY <2>1, <2>4, <2>5, <2>6, <2>7, <2>8 DEF CapInv
<1> QED BY <1>1, <1>2, <1>3, <1>4, <1>5, <1>6, Steps

\* The capacity of a bar is within its volume times the rate.
LEMMA CapacityBound ==
    ASSUME NEW b, ValidBar(b), NEW x \in Symbols
    PROVE  Scale * Capacity(b, x) <= b.volume * ParticipationRate
<1> DEFINE p == b.volume * ParticipationRate
           u == p \div Scale
           d == QuantityStep[x]
           w == u \div d
<1>1. Scale \in Nat \ {0} /\ d \in Nat \ {0} /\ p \in Int
  BY ParametersAssumption DEF ValidBar
<1> HIDE DEF p, d
<1>2. u \in Int /\ Scale * u <= p
  BY <1>1, Division
<1> HIDE DEF u
<1>3. w \in Int /\ d * w <= u
  BY <1>1, <1>2, Division
<1>4. Capacity(b, x) = w * d
  BY DEF Capacity, FloorStep, p, u, d
<1> HIDE DEF w
<1>5. w * d = d * w /\ d * w \in Int
  BY <1>1, <1>3
<1>6. Scale * (d * w) <= Scale * u
  <2>1. \A y, z \in Int : y <= z => Scale * y <= Scale * z
    BY <1>1
  <2> QED BY <1>2, <1>3, <1>5, <2>1
<1>7. Scale * (d * w) \in Int /\ Scale * u \in Int
  BY <1>1, <1>2, <1>5
<1> QED BY <1>1, <1>2, <1>4, <1>5, <1>6, <1>7 DEF p

LEMMA CapAtFills ==
    ASSUME IndInv, CapInv PROVE ParticipationCap
<1> DEFINE total == SumFunctionOnSet(Quantities, FillsOfBar)
<1> SUFFICES ASSUME phase = "bar"
             PROVE  Scale * total <= bar.volume * ParticipationRate
  BY DEF ParticipationCap
<1>1. /\ ValidBar(bar) /\ sym \in Symbols /\ available \in Nat
      /\ Scale \in Nat \ {0} /\ ParticipationRate \in Nat
  BY RequestAssumption, ParametersAssumption DEF IndInv, TypeOK, sym
<1>2. Capacity(bar, sym) \in Nat
      /\ Scale * Capacity(bar, sym) <= bar.volume * ParticipationRate
  BY <1>1, CapacityType, CapacityBound
<1>3. total + available = Capacity(bar, sym)
  BY DEF CapInv
<1>4. total \in Int
  <2>1. /\ IsFiniteSet(DOMAIN fills)
        /\ \A i \in DOMAIN fills : fills[i] \in Fill
    <3>1. fills \in Seq(Fill)
      BY DEF IndInv, TypeOK
    <3>2. DOMAIN fills = 1..Len(fills) /\ Len(fills) \in Nat
      BY <3>1, LenProperties
    <3>3. IsFiniteSet(1..Len(fills))
      BY <3>2, FS_Interval
    <3>4. \A i \in DOMAIN fills : fills[i] \in Fill
      BY <3>1, <3>2, ElementOfSeq
    <3> QED BY <3>2, <3>3, <3>4
  <2>2. IsFiniteSet(FillsOfBar)
    BY <2>1, FS_Subset DEF FillsOfBar
  <2>3. \A i \in FillsOfBar : Quantities[i] \in Int
    BY <2>1 DEF FillsOfBar, Quantities, Fill
  <2> QED BY <2>2, <2>3, SumType
<1> HIDE DEF total
<1>5. total <= Capacity(bar, sym)
  BY <1>1, <1>2, <1>3, <1>4
<1>6. Scale * total <= Scale * Capacity(bar, sym)
  <2>1. \A y, z \in Int : y <= z => Scale * y <= Scale * z
    BY <1>1
  <2> QED BY <1>2, <1>4, <1>5, <2>1
<1>7. bar.volume * ParticipationRate \in Int /\ Scale * total \in Int
      /\ Scale * Capacity(bar, sym) \in Int
  BY <1>1, <1>2, <1>4 DEF ValidBar
<1> QED BY <1>2, <1>6, <1>7

THEOREM BarsAreCapped == Spec => []ParticipationCap
<1>1. Init => PreparedFirst /\ CapInv /\ FillsPast
  BY InitHasNoFills DEF Init, PreparedFirst, CapInv, FillsPast
<1>2. IndInv /\ PreparedFirst /\ CapInv /\ FillsPast /\ [Next]_vars
        => (PreparedFirst /\ CapInv /\ FillsPast)'
  BY PreparedFirstKept, NextCap, NextFillsPast
<1> QED BY <1>1, <1>2, Invariance, CapAtFills, PTL DEF Spec
-----------------------------------------------------------------------------
(***************************************************************************)
(* Average-cost bookkeeping implements cash-flow accounting.  A trade that *)
(* adds to a position realizes nothing and moves its notional into the     *)
(* entry cost of what is held, less what dividing the average discards;    *)
(* one that closes realizes the difference, a flip also enters the rest.   *)
(***************************************************************************)
CostOf(p) == p.quantity * p.average

\* What AverageAfter's division drops, in the direction of the trade.
Discarded(p, side, q, price) ==
    side * ((Abs(p.quantity) * p.average + q * price) % Abs(p.quantity + side * q))

LEMMA ExtendCost ==
    ASSUME NEW p \in PositionType, NEW side \in Sides, NEW q \in Nat \ {0},
           NEW price \in Int, Extends(p, side)
    PROVE  LET n == ApplyTrade(p, side, q, price)
               dropped == Discarded(p, side, q, price)
           IN  /\ RealizedBy(p, side, q, price) = 0
               /\ dropped \in Int
               /\ Abs(dropped) < Abs(n.quantity)
               /\ CostOf(n) - CostOf(p) = side * q * price - dropped
<1> DEFINE held == Abs(p.quantity)
           size == Abs(p.quantity + side * q)
           cost == held * p.average + q * price
           n == ApplyTrade(p, side, q, price)
           dropped == Discarded(p, side, q, price)
<1>1. /\ p.quantity \in Int /\ p.average \in Int
      /\ side = 1 \/ side = -1
      /\ held \in Nat /\ p.quantity = side * held
      /\ size \in Nat \ {0} /\ p.quantity + side * q = side * size
  BY DEF Extends, Abs, Sides, BUY, SELL, PositionType
<1>2. RealizedBy(p, side, q, price) = 0
  <2>1. Closed(p, side, q) = 0
    BY DEF Closed
  <2>2. Direction(p) \in Int
    BY DEF Direction
  <2> QED BY <1>1, <2>1, <2>2 DEF RealizedBy
<1>3. cost \in Int
  BY <1>1
<1>4. n.quantity = side * size /\ n.average = cost \div size /\ dropped = side * (cost % size)
  BY <1>1 DEF ApplyTrade, AverageAfter, Discarded
<1>5. CostOf(p) = side * (held * p.average)
  BY <1>1 DEF CostOf
<1>6. side * q * price = side * (q * price)
  BY <1>1
<1>7. side * cost = side * (held * p.average) + side * (q * price)
  BY <1>1
<1> HIDE DEF held, size, cost, n, dropped
<1>8. PICK average, rest : average = cost \div size /\ rest = cost % size
  OBVIOUS
<1>9. average \in Int /\ rest \in 0..(size - 1) /\ cost = size * average + rest
  BY <1>1, <1>3, <1>8
<1>10. CostOf(n) = side * (size * average)
  <2>1. CostOf(n) = (side * size) * average
    BY <1>4, <1>8 DEF CostOf
  <2>2. CASE side = 1
    BY <1>1, <1>9, <2>1, <2>2
  <2>3. CASE side = -1
    <3>1. CostOf(n) = (-size) * average
      BY <1>1, <2>1, <2>3
    <3> QED BY <1>1, <1>9, <2>3, <3>1
  <2> QED BY <1>1, <2>2, <2>3
<1>11. PICK full : full = size * average
  OBVIOUS
<1>12. full \in Int /\ cost = full + rest /\ CostOf(n) = side * full /\ dropped = side * rest
  BY <1>1, <1>4, <1>8, <1>9, <1>10, <1>11
<1>13. side * cost - side * full = dropped
  <2>1. CASE side = 1
    BY <1>9, <1>12, <2>1
  <2>2. CASE side = -1
    BY <1>9, <1>12, <2>2
  <2> QED BY <1>1, <2>1, <2>2
<1>14. dropped \in Int /\ Abs(dropped) < Abs(n.quantity)
  BY <1>1, <1>4, <1>8, <1>9 DEF Abs
<1>15. CostOf(n) - CostOf(p) = side * q * price - dropped
  BY <1>1, <1>3, <1>5, <1>6, <1>7, <1>12, <1>13
<1> QED BY <1>2, <1>14, <1>15 DEF n, dropped

LEMMA CloseCost ==
    ASSUME NEW p \in PositionType, p.average # 0, NEW side \in Sides,
           NEW q \in Nat \ {0}, NEW price \in Int, ~Extends(p, side)
    PROVE  LET n == ApplyTrade(p, side, q, price)
           IN  CostOf(n) - CostOf(p) = side * q * price + RealizedBy(p, side, q, price)
<1> DEFINE held == Abs(p.quantity)
           n == ApplyTrade(p, side, q, price)
           gain == RealizedBy(p, side, q, price)
           new == p.quantity + side * q
<1>1. /\ p.quantity \in Int /\ p.average \in Int
      /\ side = 1 \/ side = -1
      /\ held \in Nat /\ p.quantity = -side * held
      /\ Direction(p) = -side
      /\ new = side * (q - held)
  BY DEF Extends, Abs, Sides, BUY, SELL, PositionType, Direction
<1>2. n.quantity = new
  BY DEF ApplyTrade
<1>3. CostOf(p) = -side * (held * p.average)
  BY <1>1 DEF CostOf
<1>4. side * q * price = side * (q * price)
  BY <1>1
<1>5. CASE held < q
  <2>1. n.average = price
    BY <1>1, <1>5 DEF ApplyTrade, AverageAfter
  <2>2. CostOf(n) = side * (q * price) - side * (held * price)
    BY <1>1, <1>2, <2>1 DEF CostOf
  <2>3. gain = -side * (held * price) + side * (held * p.average)
    <3>1. gain = held * (price - p.average) * (-side)
      BY <1>1, <1>5 DEF RealizedBy, Closed
    <3> QED BY <1>1, <3>1
  <2> QED BY <1>1, <1>3, <1>4, <2>2, <2>3
<1>6. CASE ~(held < q)
  <2>1. CostOf(n) = side * (q * p.average) - side * (held * p.average)
    <3>1. CASE new = 0
      <4>1. q = held
        BY <1>1, <3>1
      <4>2. CostOf(n) = 0
        BY <1>1, <1>2, <3>1 DEF CostOf, ApplyTrade, AverageAfter
      <4> QED BY <1>1, <4>1, <4>2
    <3>2. CASE new # 0
      <4>1. n.average = p.average
        BY <1>1, <1>6, <3>2 DEF ApplyTrade, AverageAfter
      <4> QED BY <1>1, <1>2, <4>1 DEF CostOf
    <3> QED BY <3>1, <3>2
  <2>2. gain = -side * (q * price) + side * (q * p.average)
    <3>1. gain = q * (price - p.average) * (-side)
      BY <1>1, <1>6 DEF RealizedBy, Closed
    <3> QED BY <1>1, <3>1
  <2> QED BY <1>1, <1>3, <1>4, <2>1, <2>2
<1> QED BY <1>5, <1>6

\* A sum of zeros.
LEMMA SumOfZeros ==
    ASSUME NEW f, \A x \in Symbols : f[x] = 0
    PROVE  SumOverSymbols(f) = 0
<1>1. IsFiniteSet(Symbols)
  BY FS_Interval, ParametersAssumption DEF Symbols
<1> DEFINE Bad == {s \in SUBSET Symbols : SumFunctionOnSet(f, s) # 0}
<1> SUFFICES ASSUME Bad # {} PROVE FALSE
  BY DEF SumOverSymbols
<1>2. Bad \in SUBSET (SUBSET Symbols)
  OBVIOUS
<1> HIDE DEF Bad
<1>3. PICK s \in Bad : \A t \in Bad : t \subseteq s => t = s
  BY <1>1, <1>2, SmallestSubset
<1> USE DEF Bad
<1>4. s \subseteq Symbols /\ IsFiniteSet(s)
  BY <1>1, <1>3, FS_Subset
<1>5. s # {}
  BY <1>3, <1>4, SumEquations
<1>6. Chosen(s) \in s
  BY <1>5, ChosenMember
<1>7. SumFunctionOnSet(f, s \ {Chosen(s)}) = 0 /\ f[Chosen(s)] = 0
  BY <1>3, <1>4, <1>6
<1>8. SumFunctionOnSet(f, s) = f[Chosen(s)] + SumFunctionOnSet(f, s \ {Chosen(s)})
  BY <1>4, <1>5, SumEquations
<1>9. SumFunctionOnSet(f, s) = 0
  BY <1>7, <1>8
<1> QED BY <1>3, <1>9

\* A sum over the symbols changes by what one symbol's value changes.
LEMMA SumAtSymbol ==
    ASSUME NEW g, NEW h, NEW s \in Symbols,
           \A x \in Symbols : g[x] \in Int /\ h[x] \in Int,
           \A x \in Symbols \ {s} : h[x] = g[x]
    PROVE  /\ SumOverSymbols(g) \in Int
           /\ SumOverSymbols(h) = SumOverSymbols(g) + h[s] - g[s]
<1> DEFINE others == Symbols \ {s}
<1>1. IsFiniteSet(Symbols) /\ IsFiniteSet(others)
  <2>1. IsFiniteSet(Symbols)
    BY FS_Interval, ParametersAssumption DEF Symbols
  <2> QED BY <2>1, FS_Subset
<1>2. others \cup {s} = Symbols /\ s \notin others
  OBVIOUS
<1>3. \A x \in others : g[x] \in Int /\ h[x] \in Int /\ h[x] = g[x]
  OBVIOUS
<1>4. \A y \in others \cup {s} : g[y] \in Int /\ h[y] \in Int
  OBVIOUS
<1> HIDE DEF others
<1>5. SumFunctionOnSet(g, others) \in Int /\ SumFunctionOnSet(g, Symbols) \in Int
  BY <1>1, <1>3, SumType
<1>6. SumFunctionOnSet(h, others) = SumFunctionOnSet(g, others)
  BY <1>1, <1>3, SumCongruence
<1>7. SumFunctionOnSet(g, others \cup {s}) = SumFunctionOnSet(g, others) + g[s]
  BY <1>1, <1>2, <1>4, SumAdd
<1>8. SumFunctionOnSet(h, others \cup {s}) = SumFunctionOnSet(h, others) + h[s]
  BY <1>1, <1>2, <1>4, SumAdd
<1>9. g[s] \in Int /\ h[s] \in Int
  OBVIOUS
<1>10. SumFunctionOnSet(h, Symbols) = SumFunctionOnSet(g, Symbols) + h[s] - g[s]
  <2>1. PICK a, b, c : a = SumFunctionOnSet(g, others) /\ b = g[s] /\ c = h[s]
    OBVIOUS
  <2>2. a \in Int /\ b \in Int /\ c \in Int
    BY <1>5, <1>9, <2>1
  <2>3. SumFunctionOnSet(g, Symbols) = a + b /\ SumFunctionOnSet(h, Symbols) = a + c
    BY <1>2, <1>6, <1>7, <1>8, <2>1
  <2>4. a + c = (a + b) + c - b
    BY <2>2
  <2> QED BY <2>1, <2>3, <2>4
<1> QED BY <1>5, <1>10 DEF SumOverSymbols

(***************************************************************************)
(* _Position.apply reads a missing average as the trade's own price        *)
(* ("old_average or price"), and reads an average of zero the same way: a  *)
(* position entered at a price that rounds down to zero would realize      *)
(* nothing when it closes.  A positive minimum notional keeps such fills   *)
(* out; the code does not ask for it, exchanges state one.                 *)
(***************************************************************************)
NotionalsPositive == \A x \in Symbols : MinNotional[x] > 0

AveragesPositive ==
    \A x \in Symbols : positions[x].quantity # 0 => positions[x].average > 0

LEMMA Remainder ==
    ASSUME NEW a \in Int, NEW d \in Nat \ {0}
    PROVE  /\ a \div d \in Int /\ a % d \in Int
           /\ a = d * (a \div d) + (a % d)
           /\ 0 <= a % d /\ a % d < d
OBVIOUS

LEMMA NaturalDivision ==
    ASSUME NEW a \in Nat, NEW d \in Nat \ {0}
    PROVE  a \div d \in Nat /\ CeilDiv(a, d) \in Nat
<1>1. a <= d * CeilDiv(a, d) /\ CeilDiv(a, d) \in Int
  BY Division
<1>2. ASSUME CeilDiv(a, d) < 0 PROVE FALSE
  <2>1. PICK n : n = CeilDiv(a, d)
    OBVIOUS
  <2>2. d * n < 0
    BY <1>1, <1>2, <2>1
  <2> QED BY <1>1, <2>1, <2>2
<1>3. a \div d \in Nat
  OBVIOUS
<1> QED BY <1>1, <1>2, <1>3

LEMMA AverageAfterTrade ==
    ASSUME NEW p \in PositionType, p.quantity # 0 => p.average > 0,
           NEW side \in Sides, NEW q \in Nat \ {0}, NEW price \in Nat,
           price > 0 \/ (~Extends(p, side) /\ q <= Abs(p.quantity))
    PROVE  LET n == ApplyTrade(p, side, q, price)
           IN  n.quantity # 0 => n.average > 0
<1> DEFINE held == Abs(p.quantity)
           size == Abs(p.quantity + side * q)
           cost == held * p.average + q * price
           n == ApplyTrade(p, side, q, price)
<1>1. /\ p.quantity \in Int /\ p.average \in Int /\ side \in Int
      /\ held \in Nat
  BY DEF Abs, Sides, BUY, SELL, PositionType
<1>2. CASE Extends(p, side)
  <2>1. size = held + q
    BY <1>1, <1>2 DEF Extends, Abs, Sides, BUY, SELL, PositionType
  <2>2. held * p.average >= held
    <3>1. CASE held = 0
      BY <1>1, <3>1
    <3>2. CASE held # 0
      <4>1. p.average >= 1
        BY <1>1, <3>2 DEF Abs
      <4> QED BY <1>1, <4>1
    <3> QED BY <3>1, <3>2
  <2>3. q * price >= q
    BY <1>2
  <2>4. cost \in Int /\ cost >= size
    <3>1. held * p.average \in Int /\ q * price \in Int
      BY <1>1
    <3> QED BY <1>1, <2>1, <2>2, <2>3, <3>1
  <2>5. n.average = cost \div size
    BY <1>2 DEF ApplyTrade, AverageAfter
  <2>6. size \in Nat \ {0}
    BY <1>1, <2>1
  <2> HIDE DEF held, size, cost, n
  <2>7. cost \div size \in Int /\ cost % size < size /\ cost = size * (cost \div size) + (cost % size)
    BY <2>4, <2>6, Remainder
  <2>8. cost \div size > 0
    <3>1. SUFFICES ASSUME cost \div size <= 0 PROVE FALSE
      BY <2>7
    <3>2. size * (cost \div size) <= 0
      BY <2>6, <2>7, <3>1
    <3> QED BY <2>4, <2>6, <2>7, <3>2
  <2> QED BY <2>5, <2>8 DEF n
<1>3. CASE ~Extends(p, side)
  <2>1. p.average > 0
    BY <1>3 DEF Extends
  <2>2. CASE held < q
    <3>1. price > 0
      BY <1>1, <2>2
    <3>2. n.quantity # 0 => n.average = price
      BY <1>3, <2>2 DEF ApplyTrade, AverageAfter
    <3> QED BY <3>1, <3>2
  <2>3. CASE ~(held < q)
    <3>1. n.quantity # 0 => n.average = p.average
      BY <1>3, <2>3 DEF ApplyTrade, AverageAfter
    <3> QED BY <2>1, <3>1
  <2> QED BY <2>2, <2>3
<1> QED BY <1>2, <1>3

\* A liquidation closes the whole position, at a price that is not negative.
LEMMA LiquidationTrade ==
    ASSUME IndInv, NEW m \in Marks, Liquidate(m)
    PROVE  LET f == LiquidationRecord(m)
           IN  /\ f.side \in Sides /\ f.quantity \in Nat \ {0} /\ f.price \in Nat
               /\ ~Extends(positions[sym], f.side)
               /\ f.quantity <= Abs(positions[sym].quantity)
               /\ Execute(f.order, f.side, f.quantity, f.price, "LIQUIDATION")
<1> DEFINE p == positions[sym]
           side == IF p.quantity > 0 THEN SELL ELSE BUY
           price == RoundAdverse(m, 1, sym, side)
<1>1. /\ sym \in Symbols /\ p.quantity \in Int
      /\ m \in Nat \ {0} /\ TickSize[sym] \in Nat \ {0}
      /\ p.quantity # 0
  <2>1. sym \in Symbols /\ p.quantity \in Int
    BY DEF IndInv, TypeOK, sym
  <2>2. m \in Nat \ {0}
    BY RequestAssumption DEF Liquidate
  <2>3. TickSize[sym] \in Nat \ {0}
    BY <2>1, ParametersAssumption
  <2>4. p.quantity # 0
    BY DEF Liquidate, Breached
  <2> QED BY <2>1, <2>2, <2>3, <2>4
<1>2. side \in Sides /\ ~Extends(p, side)
  BY <1>1 DEF Sides, Extends, BUY, SELL
<1>3. Abs(p.quantity) \in Nat \ {0}
  BY <1>1 DEF Abs
<1>4. price \in Nat
  <2>1. m \div TickSize[sym] \in Nat /\ CeilDiv(m, TickSize[sym]) \in Nat
    BY <1>1, NaturalDivision
  <2>2. 1 * TickSize[sym] = TickSize[sym]
    BY <1>1
  <2>3. \A n \in Nat : TickSize[sym] * n \in Nat
    BY <1>1
  <2> QED BY <2>1, <2>2, <2>3 DEF RoundAdverse
<1>5. Execute(-(liquidations + 1), side, Abs(p.quantity), price, "LIQUIDATION")
  BY DEF Liquidate
<1> QED BY <1>1, <1>2, <1>3, <1>4, <1>5 DEF LiquidationRecord

\* A candidate fills at a positive price: the notional is checked.
LEMMA CandidateTrade ==
    ASSUME NotionalsPositive, IndInv, NEW c \in queue, FillCandidate(c)
    PROVE  LET f == FillRecord(c)
           IN  /\ f.side \in Sides /\ f.quantity \in Nat \ {0}
               /\ f.price \in Nat /\ f.price > 0
               /\ c.liquidity \in {"MAKER", "TAKER"}
               /\ Execute(f.order, f.side, f.quantity, f.price, c.liquidity)
<1> DEFINE i == working[c.order].intent
           q == FillQuantity(c)
           price == FillPrice(c)
<1>1. Execute(i.id, i.side, q, price, c.liquidity)
  BY DEF FillCandidate
<1>2. c.order \in DOMAIN working /\ q \in Nat \ {0}
  BY FillCandidateOrders
<1>3. SoundIntent(i)
  BY <1>2 DEF IndInv, OrdersSound
<1>4. c \in Candidate /\ sym \in Symbols
  BY DEF IndInv, TypeOK, sym
<1>5. c.raw \in Int /\ c.liquidity \in {"MAKER", "TAKER"}
  BY <1>4 DEF Candidate
<1>6. i.side \in Sides
  BY <1>3 DEF SoundIntent, OrderIntent
<1>7. price \in Int
  BY <1>3, <1>5, ExecutionPriceType DEF FillPrice
<1>8. q * price >= MinNotional[sym]
  BY DEF FillCandidate, Executable
<1>9. MinNotional[sym] \in Nat \ {0}
  BY <1>4, ParametersAssumption DEF NotionalsPositive
<1> HIDE DEF i, q, price
<1>10. price > 0
  <2>1. SUFFICES ASSUME price <= 0 PROVE FALSE
    BY <1>7
  <2>2. q * price <= 0
    BY <1>2, <1>7, <2>1
  <2>3. q * price \in Int
    BY <1>2, <1>7
  <2> QED BY <1>8, <1>9, <2>2, <2>3
<1> QED BY <1>1, <1>2, <1>5, <1>6, <1>7, <1>10 DEF FillRecord, i, q, price

\* A trade at a positive price, or one that only closes, keeps averages positive.
LEMMA TradeKeepsAverages ==
    ASSUME IndInv, AveragesPositive, NEW id, NEW side \in Sides,
           NEW q \in Nat \ {0}, NEW price \in Nat, NEW liquidity,
           Execute(id, side, q, price, liquidity),
           price > 0 \/ (~Extends(positions[sym], side) /\ q <= Abs(positions[sym].quantity))
    PROVE  AveragesPositive'
<1> DEFINE p == positions[sym]
           n == ApplyTrade(p, side, q, price)
<1>1. sym \in Symbols /\ p \in PositionType /\ positions \in [Symbols -> PositionType]
  BY DEF IndInv, TypeOK, sym, PositionType
<1>2. p.quantity # 0 => p.average > 0
  BY <1>1 DEF AveragesPositive
<1> HIDE DEF p
<1>3. n.quantity # 0 => n.average > 0
  BY <1>1, <1>2, AverageAfterTrade DEF p
<1>4. positions' = [positions EXCEPT ![sym] = n]
  BY DEF Execute, p
<1> HIDE DEF n
<1>5. positions'[sym] = n /\ \A x \in Symbols \ {sym} : positions'[x] = positions[x]
  BY <1>1, <1>4
<1> QED BY <1>3, <1>5 DEF AveragesPositive

LEMMA NextAverages ==
    ASSUME NotionalsPositive, IndInv, AveragesPositive, [Next]_vars
    PROVE  AveragesPositive'
<1>1. ASSUME NEW m \in Marks, Liquidate(m) PROVE AveragesPositive'
  BY <1>1, LiquidationTrade, TradeKeepsAverages
<1>2. ASSUME NEW c \in queue, FillCandidate(c) PROVE AveragesPositive'
  BY <1>2, CandidateTrade, TradeKeepsAverages
<1>3. CASE UNCHANGED positions
  BY <1>3 DEF AveragesPositive
<1>4. CASE \/ Idle
           \/ \E i \in pending : AcceptIntent(i)
           \/ \E b \in Bars : OpenBar(b)
           \/ \E c \in queue : CancelCandidate(c)
  BY <1>3, <1>4 DEF Idle, AcceptIntent, OpenBar, CancelCandidate, accountVars
<1> QED BY <1>1, <1>2, <1>4, Steps

\* The prices Account enumerates are bounded for TLC only.
PricesUnbounded == TradePrices = Nat

Costs == [x \in Symbols |-> positions[x].quantity * positions[x].average]
Money == cash - Scale * SumOverSymbols(Costs)
Holding == [x \in Symbols |-> positions[x].quantity]

\* What a trade does to the mapped account: the money moves by the notional
\* and the fee, but for what the average's division drops.
LEMMA TradeOfAccount ==
    ASSUME IndInv, AveragesPositive, NEW id, NEW side \in Sides,
           NEW q \in Nat \ {0}, NEW price \in Nat, NEW liquidity \in Liquidities,
           Execute(id, side, q, price, liquidity)
    PROVE  LET p == positions[sym]
               dropped == IF Extends(p, side) THEN Discarded(p, side, q, price) ELSE 0
           IN  /\ Holding' = [Holding EXCEPT ![sym] = @ + side * q]
               /\ Holding[sym] = p.quantity
               /\ Holding'[sym] = p.quantity + side * q
               /\ Money \in Int /\ dropped \in Int
               /\ Money' = Money - (Scale * (side * q) * price + q * price * FeeRate(liquidity))
                             + Scale * dropped
               /\ Extends(p, side) => Abs(dropped) < Abs(p.quantity + side * q)
<1> DEFINE p == positions[sym]
           n == ApplyTrade(p, side, q, price)
           gain == RealizedBy(p, side, q, price)
           dropped == IF Extends(p, side) THEN Discarded(p, side, q, price) ELSE 0
           fee == q * price * FeeRate(liquidity)
<1>1. /\ sym \in Symbols /\ p \in PositionType
      /\ positions \in [Symbols -> PositionType]
      /\ cash \in Int
  BY DEF IndInv, TypeOK, sym, PositionType
<1>2. Scale \in Nat /\ fee \in Int /\ side * q \in Int
  BY FeeRateType, ParametersAssumption DEF Sides, BUY, SELL
<1>3. n \in PositionType /\ gain \in Int
  BY <1>1, TradeType
<1>4. /\ positions' = [positions EXCEPT ![sym] = n]
      /\ cash' = cash + Scale * gain - fee
  BY DEF Execute
<1>5. n.quantity = p.quantity + side * q
  BY DEF ApplyTrade
<1>6. /\ dropped \in Int
      /\ CostOf(n) - CostOf(p) = side * q * price + gain - dropped
      /\ Extends(p, side) => Abs(dropped) < Abs(n.quantity)
  <2>1. side * q * price \in Int
    BY <1>2
  <2>2. CASE Extends(p, side)
    <3>1. /\ gain = 0 /\ dropped = Discarded(p, side, q, price)
          /\ Discarded(p, side, q, price) \in Int
          /\ Abs(Discarded(p, side, q, price)) < Abs(n.quantity)
          /\ CostOf(n) - CostOf(p) = side * q * price - Discarded(p, side, q, price)
      BY <1>1, <2>2, ExtendCost
    <3> HIDE DEF n, gain, dropped
    <3> QED BY <2>1, <3>1
  <2>3. CASE ~Extends(p, side)
    <3>1. p.average # 0
      BY <1>1, <2>3 DEF Extends, AveragesPositive
    <3>2. CostOf(n) - CostOf(p) = side * q * price + gain
      BY <1>1, <2>3, <3>1, CloseCost
    <3>3. dropped = 0
      BY <2>3
    <3> HIDE DEF n, gain, dropped
    <3> QED BY <1>3, <2>1, <2>3, <3>2, <3>3
  <2> QED BY <2>2, <2>3
<1> HIDE DEF p, n, gain, dropped, fee
<1>7. /\ positions'[sym] = n /\ positions[sym] = p
      /\ \A x \in Symbols \ {sym} : positions'[x] = positions[x]
  BY <1>1, <1>4 DEF p
<1>8. Holding' = [Holding EXCEPT ![sym] = @ + side * q] /\ Holding[sym] = p.quantity
      /\ Holding'[sym] = p.quantity + side * q
  <2>1. \A x \in Symbols : positions'[x] = IF x = sym THEN n ELSE positions[x]
    BY <1>7
  <2> QED BY <1>1, <1>5, <1>7, <2>1 DEF Holding
<1>9. /\ \A x \in Symbols : Costs[x] \in Int /\ Costs'[x] \in Int
      /\ \A x \in Symbols \ {sym} : Costs'[x] = Costs[x]
      /\ Costs[sym] = CostOf(p) /\ Costs'[sym] = CostOf(n)
  <2>1. \A x \in Symbols : positions[x] \in PositionType /\ positions'[x] \in PositionType
    BY <1>1, <1>3, <1>7
  <2>2. \A r \in PositionType : r.quantity * r.average \in Int
    BY DEF PositionType
  <2>3. \A x \in Symbols : /\ Costs[x] = positions[x].quantity * positions[x].average
                           /\ Costs'[x] = positions'[x].quantity * positions'[x].average
    BY DEF Costs
  <2> QED BY <1>1, <1>7, <2>1, <2>2, <2>3 DEF CostOf
<1>10. /\ SumOverSymbols(Costs) \in Int
       /\ SumOverSymbols(Costs') = SumOverSymbols(Costs) + Costs'[sym] - Costs[sym]
  BY <1>1, <1>9, SumAtSymbol
<1>11. Money' = cash' - Scale * SumOverSymbols(Costs')
  BY DEF Money, SumOverSymbols, Symbols
<1>12. PICK before, old, change :
          /\ before = SumOverSymbols(Costs) /\ old = CostOf(p)
          /\ change = side * q * price
  OBVIOUS
<1>13. /\ before \in Int /\ old \in Int /\ change \in Int
       /\ CostOf(n) = old + change + gain - dropped
       /\ SumOverSymbols(Costs') = before + change + gain - dropped
  <2>1. CostOf(n) \in Int /\ old \in Int
    BY <1>1, <1>9, <1>12
  <2>2. change \in Int
    BY <1>2, <1>12
  <2> QED BY <1>3, <1>6, <1>9, <1>10, <1>12, <2>1, <2>2
<1>14. Scale * (side * q) * price = Scale * change
  BY <1>2, <1>12 DEF Sides, BUY, SELL
<1>15. Money \in Int /\ Money = cash - Scale * before
  BY <1>1, <1>2, <1>12, <1>13 DEF Money
<1>16. PICK total : total = SumOverSymbols(Costs')
  OBVIOUS
<1>17. Money' = Money - (Scale * (side * q) * price + fee) + Scale * dropped
  <2>1. total = before + change + gain - dropped /\ Money' = cash' - Scale * total
    BY <1>11, <1>13, <1>16
  <2>2. PICK a, b, c, d : a = Scale * before /\ b = Scale * change /\ c = Scale * gain
                          /\ d = Scale * dropped
    OBVIOUS
  <2>3. a \in Int /\ b \in Int /\ c \in Int /\ d \in Int
    BY <1>2, <1>3, <1>6, <1>13, <2>2
  <2>4. Scale * total = a + b + c - d
    BY <1>2, <1>3, <1>6, <1>13, <2>1, <2>2
  <2>5. cash' = cash + c - fee /\ Money = cash - a
    BY <1>4, <1>15, <2>2
  <2>6. PICK t, paid : t = Scale * total /\ paid = cash'
    OBVIOUS
  <2>7. Money' = paid - t /\ t = a + b + c - d /\ paid = cash + c - fee
    <3>1. Money' = paid - t
      BY <2>1, <2>6, Zenon
    <3>2. t = a + b + c - d
      BY <2>4, <2>6, Zenon
    <3>3. paid = cash + c - fee
      BY <2>5, <2>6, Zenon
    <3> QED BY <3>1, <3>2, <3>3
  <2>8. Money' = Money - (b + fee) + d
    BY <1>1, <1>2, <2>3, <2>5, <2>7
  <2> QED BY <1>14, <2>2, <2>8
<1> QED BY <1>5, <1>6, <1>8, <1>15, <1>17 DEF p, dropped, fee

\* Money and holding as a cash-flow account sees them.
Accounts == <<Money, Holding>>

LEMMA InitOfAccount == Init => Account!Init
<1> SUFFICES ASSUME Init PROVE Account!Init
  OBVIOUS
<1>1. \A x \in Symbols : positions[x].quantity = 0 /\ positions[x].average = 0
  BY DEF Init, Flat
<1>2. Costs = [x \in Symbols |-> 0] /\ Holding = [x \in Symbols |-> 0]
  BY <1>1 DEF Costs, Holding
<1>3. SumOverSymbols(Costs) = 0
  <2>1. \A x \in Symbols : Costs[x] = 0
    BY <1>2
  <2> QED BY <2>1, SumOfZeros
<1>4. Money = InitialCash
  BY <1>3, ParametersAssumption, RequestAssumption DEF Money, Init
<1> QED BY <1>2, <1>4 DEF Account!Init, Money, Holding, Costs

LEMMA QuietAccount ==
    ASSUME UNCHANGED <<cash, positions>>
    PROVE  UNCHANGED Accounts
BY DEF Accounts, Money, Holding, Costs

LEMMA SettleOfAccount ==
    ASSUME IndInv, NEW f \in FundingEvents, SettleFunding(f)
    PROVE  Account!Settled
<1>1. /\ sym \in Symbols /\ positions[sym].quantity \in Int
      /\ f.mark \in Int /\ f.rate \in Int /\ cash \in Int
  BY RequestAssumption DEF IndInv, TypeOK, sym
<1>2. UNCHANGED positions /\ cash' = cash - Holding[sym] * f.mark * f.rate
  <2>1. positions[sym].quantity * f.mark * f.rate \in Int
    BY <1>1
  <2>2. Holding[sym] = positions[sym].quantity
    BY <1>1 DEF Holding
  <2> QED BY <1>1, <2>1, <2>2 DEF SettleFunding
<1>3. UNCHANGED Holding /\ UNCHANGED Costs
  BY <1>2 DEF Holding, Costs
<1>4. Money' = Money - Holding[sym] * f.mark * f.rate
  <2>1. \A x \in Symbols : Costs[x] \in Int
    <3>1. \A x \in Symbols : positions[x].quantity \in Int /\ positions[x].average \in Int
      BY DEF IndInv, TypeOK
    <3> QED BY <3>1 DEF Costs
  <2>2. SumOverSymbols(Costs) \in Int
    BY <1>1, <2>1, SumAtSymbol
  <2>3. PICK entered, payment :
           entered = Scale * SumOverSymbols(Costs) /\ payment = Holding[sym] * f.mark * f.rate
    OBVIOUS
  <2>4. entered \in Int /\ payment \in Int
    BY <1>1, <2>2, <2>3, ParametersAssumption DEF Holding
  <2>5. Money' = cash' - entered /\ Money = cash - entered /\ cash' = cash - payment
    BY <1>2, <1>3, <2>3 DEF Money, SumOverSymbols, Symbols
  <2> QED BY <1>1, <2>3, <2>4, <2>5
<1> QED BY <1>1, <1>3, <1>4 DEF Account!Settled, Account!Settle, Money, Holding, Costs

LEMMA TradeImplements ==
    ASSUME PricesUnbounded, IndInv, AveragesPositive, NEW id, NEW side \in Sides,
           NEW q \in Nat \ {0}, NEW price \in Nat, NEW liquidity \in Liquidities,
           Execute(id, side, q, price, liquidity)
    PROVE  \E a \in Symbols, p \in TradePrices,
              rate \in {MakerFeeRate, TakerFeeRate, LiquidationFeeRate} :
              Account!Trade(a, Holding'[a] - Holding[a], p, rate)
<1> DEFINE held == positions[sym].quantity
           extends == Extends(positions[sym], side)
           dropped == IF extends THEN Discarded(positions[sym], side, q, price) ELSE 0
           rate == FeeRate(liquidity)
           n == side * q
           paid == Scale * n * price + q * price * rate
<1>1. /\ Holding' = [Holding EXCEPT ![sym] = @ + n]
      /\ Holding[sym] = held
      /\ Holding'[sym] = held + n
      /\ Money \in Int /\ dropped \in Int
      /\ Money' = Money - paid + Scale * dropped
      /\ extends => Abs(dropped) < Abs(held + n)
  BY TradeOfAccount
<1>2. /\ sym \in Symbols /\ held \in Int /\ n \in Int /\ n # 0
      /\ Scale \in Nat \ {0}
      /\ Account!Magnitude(n) = q
      /\ extends <=> held * n >= 0
  <2>1. sym \in Symbols /\ held \in Int
    BY DEF IndInv, TypeOK, sym
  <2>2. side = 1 \/ side = -1
    BY DEF Sides, BUY, SELL
  <2>3. n \in Int /\ n # 0 /\ Account!Magnitude(n) = q
    BY <2>2 DEF Account!Magnitude
  <2>4. held * n = (held * side) * q
    BY <2>1, <2>2
  <2>5. held * side > 0 \/ held * side = 0 \/ held * side < 0
    BY <2>1, <2>2
  <2>6. extends <=> held * side >= 0
    BY <2>1, <2>2 DEF Extends
  <2>7. held * n >= 0 <=> held * side >= 0
    <3>1. PICK h : h = held * side
      OBVIOUS
    <3>2. h \in Int
      BY <2>1, <2>2, <3>1
    <3>3. h * q >= 0 <=> h >= 0
      BY <3>2
    <3> QED BY <2>4, <3>1, <3>3
  <2> QED BY <2>1, <2>3, <2>6, <2>7, ParametersAssumption
<1>3. rate \in {MakerFeeRate, TakerFeeRate, LiquidationFeeRate} /\ rate \in Int
  BY ParametersAssumption DEF FeeRate, Liquidities
<1>4. paid \in Int /\ Account!Paid(n, price, rate) = paid
  BY <1>2, <1>3 DEF Account!Paid
<1>5. /\ ~extends => dropped = 0
      /\ price \in TradePrices
  BY DEF PricesUnbounded
<1> HIDE DEF held, extends, dropped, rate, n, paid
<1>6. Holding'[sym] - Holding[sym] = n
  BY <1>1, <1>2
<1>7. Money' - (Money - paid) = Scale * dropped
  <2>1. Scale * dropped \in Int
    BY <1>1, <1>2
  <2> QED BY <1>1, <1>4, <2>1
<1>8. IF Holding[sym] * n >= 0
        THEN Account!Magnitude(Scale * dropped) < Scale * Account!Magnitude(Holding'[sym])
        ELSE Scale * dropped = 0
  <2>1. CASE extends
    <3>1. PICK size, lost : size = Abs(held + n) /\ lost = Abs(dropped)
      OBVIOUS
    <3>2. size \in Nat /\ lost \in Nat /\ lost < size
      BY <1>1, <1>2, <2>1, <3>1 DEF Abs
    <3>3. Scale * lost < Scale * size
      BY <1>2, <3>2
    <3>4. Account!Magnitude(Scale * dropped) = Scale * lost
      BY <1>1, <1>2, <3>1 DEF Account!Magnitude, Abs
    <3>5. Account!Magnitude(Holding'[sym]) = size
      BY <1>1, <3>1 DEF Account!Magnitude, Abs
    <3> QED BY <1>1, <1>2, <2>1, <3>3, <3>4, <3>5
  <2>2. CASE ~extends
    BY <1>1, <1>2, <1>5, <2>2
  <2> QED BY <2>1, <2>2
<1>9. Account!Trade(sym, n, price, rate)
  BY <1>1, <1>2, <1>4, <1>7, <1>8 DEF Account!Trade, Money, Holding, Costs
<1> QED BY <1>2, <1>3, <1>5, <1>6, <1>9

\* Every step of a run is a trade, a settlement or nothing to the account.
LEMMA StepsOfAccount ==
    ASSUME NotionalsPositive, PricesUnbounded, IndInv, AveragesPositive, [Next]_vars
    PROVE  Account!Next \/ UNCHANGED Accounts
<1>1. ASSUME NEW m \in Marks, Liquidate(m) PROVE Account!Next
  <2>1. "LIQUIDATION" \in Liquidities
    BY DEF Liquidities
  <2> QED BY <1>1, <2>1, LiquidationTrade, TradeImplements
           DEF Account!Next, Money, Holding, Costs
<1>2. ASSUME NEW c \in queue, FillCandidate(c) PROVE Account!Next
  <2>1. {"MAKER", "TAKER"} \subseteq Liquidities
    BY DEF Liquidities
  <2> QED BY <1>2, <2>1, CandidateTrade, TradeImplements
           DEF Account!Next, Money, Holding, Costs
<1>3. ASSUME NEW f \in FundingEvents, SettleFunding(f) PROVE Account!Next
  BY <1>3, SettleOfAccount DEF Account!Next
<1>4. CASE \/ \E i \in pending : AcceptIntent(i) \/ RejectIntent(i)
           \/ StartEvents
           \/ NoEvent
           \/ \E m \in Marks : RefuseMark(m) \/ ApplyMark(m)
           \/ \E b \in Bars : OpenBar(b)
           \/ \E c \in queue : CancelCandidate(c)
           \/ CloseBar
           \/ Finish
           \/ UNCHANGED vars
  <2>1. UNCHANGED <<cash, positions>>
    BY <1>4 DEF AcceptIntent, RejectIntent, StartEvents, NoEvent, RefuseMark,
       ApplyMark, OpenBar, CancelCandidate, CloseBar, Finish, accountVars, vars
  <2> QED BY <2>1, QuietAccount
<1> QED BY <1>1, <1>2, <1>3, <1>4 DEF Next, Returned

(***************************************************************************)
(* A run whose instruments have a minimum notional keeps an account that   *)
(* pays each fill's notional and fee and each funding payment and nothing  *)
(* else, whatever is scaled into, reduced, flipped and liquidated: the     *)
(* division of an average price in _Position.apply, by less than a quantum *)
(* a unit held, is the only error, and no other trade adds to it.          *)
(***************************************************************************)
THEOREM CashFlow ==
    ASSUME NotionalsPositive, PricesUnbounded
    PROVE  Spec => ImplementsCashFlowAccount
<1>1. Init => Account!Init
  BY InitOfAccount
<1>2. Init => AveragesPositive
  BY DEF Init, Flat, AveragesPositive
<1>3. IndInv /\ AveragesPositive /\ [Next]_vars => AveragesPositive'
  BY NextAverages
<1>4. IndInv /\ AveragesPositive /\ [Next]_vars => [Account!Next]_Accounts
  BY StepsOfAccount
<1>5. [Account!Next]_Accounts <=> [Account!Next]_<<Money, Holding>>
  BY DEF Accounts
<1> QED BY <1>1, <1>2, <1>3, <1>4, <1>5, Invariance, PTL
     DEF Spec, ImplementsCashFlowAccount, Account!Spec, Money, Holding, Costs

(***************************************************************************)
(* The division is the only error: a run in which no average leaves a      *)
(* remainder, so that what a trade adds to a position enters the entry     *)
(* cost at the price of its fill, keeps the account to the last quantum.   *)
(***************************************************************************)
EvenAverages ==
    \A x \in Symbols :
        LET p == positions[x]
            n == positions'[x]
            price == fills'[Len(fills')].price
        IN  p.quantity * n.quantity >= 0 /\ Abs(n.quantity) > Abs(p.quantity)
              => n.quantity * n.average
                    = p.quantity * p.average + (n.quantity - p.quantity) * price

LEMMA EvenTradeDropsNothing ==
    ASSUME IndInv, EvenAverages, NEW id, NEW side \in Sides,
           NEW q \in Nat \ {0}, NEW price \in Nat, NEW liquidity,
           Execute(id, side, q, price, liquidity), Extends(positions[sym], side)
    PROVE  Discarded(positions[sym], side, q, price) = 0
<1> DEFINE p == positions[sym]
           n == ApplyTrade(p, side, q, price)
           dropped == Discarded(p, side, q, price)
<1>1. /\ sym \in Symbols /\ p \in PositionType
      /\ positions'[sym] = n
      /\ n.quantity = p.quantity + side * q
  BY DEF IndInv, TypeOK, sym, PositionType, Execute, ApplyTrade
<1>2. /\ dropped \in Int
      /\ CostOf(n) - CostOf(p) = side * q * price - dropped
  BY <1>1, ExtendCost
<1>3. p.quantity * n.quantity >= 0 /\ Abs(n.quantity) > Abs(p.quantity)
  <2>1. p.quantity \in Int /\ (side = 1 \/ side = -1)
    BY <1>1 DEF PositionType, Sides, BUY, SELL
  <2>2. Abs(n.quantity) > Abs(p.quantity)
    BY <1>1, <2>1 DEF Extends, Abs
  <2>3. CASE p.quantity = 0
    BY <1>1, <2>1, <2>2, <2>3
  <2>4. CASE p.quantity # 0
    <3>1. PICK a, b : a = p.quantity /\ b = n.quantity
      OBVIOUS
    <3>2. a \in Int /\ b = a + side * q /\ a # 0 /\ a * side > 0
      BY <1>1, <2>1, <2>4, <3>1 DEF Extends
    <3>3. b \in Int /\ ((a > 0 /\ b > 0) \/ (a < 0 /\ b < 0))
      BY <2>1, <3>2
    <3>4. a * b >= 0
      <4>1. CASE a > 0 /\ b > 0
        BY <3>2, <3>3, <4>1
      <4>2. CASE a < 0 /\ b < 0
        <5>1. (-a) * (-b) >= 0
          BY <3>2, <3>3, <4>2
        <5>2. (-a) * (-b) = a * b
          BY <3>2, <3>3
        <5> QED BY <5>1, <5>2
      <4> QED BY <3>3, <4>1, <4>2
    <3> QED BY <2>2, <3>1, <3>4
  <2> QED BY <2>2, <2>3, <2>4
<1>4. fills'[Len(fills')].price = price
  <2>1. PICK f : f.price = price /\ fills' = Append(fills, f)
    BY DEF Execute
  <2>2. fills \in Seq(Fill)
    BY DEF IndInv, TypeOK
  <2>3. Len(fills') = Len(fills) + 1 /\ fills'[Len(fills) + 1] = f
    BY <2>1, <2>2
  <2> QED BY <2>1, <2>3
<1>5. n.quantity * n.average
        = p.quantity * p.average + (n.quantity - p.quantity) * price
  BY <1>1, <1>3, <1>4 DEF EvenAverages
<1>6. n.quantity - p.quantity = side * q
  BY <1>1 DEF PositionType, Sides, BUY, SELL
<1>7. CostOf(n) = CostOf(p) + (side * q) * price
  BY <1>5, <1>6 DEF CostOf
<1>8. CostOf(p) \in Int /\ (side * q) * price \in Int
  BY <1>1 DEF CostOf, PositionType, Sides, BUY, SELL
<1> HIDE DEF n, dropped, p
<1>9. PICK a, b, c : a = CostOf(p) /\ b = (side * q) * price /\ c = CostOf(n)
  OBVIOUS
<1>10. a \in Int /\ b \in Int /\ c = a + b /\ c - a = b - dropped
  BY <1>2, <1>7, <1>8, <1>9
<1>11. dropped = 0
  BY <1>2, <1>10
<1> QED BY <1>11 DEF dropped, p

LEMMA EvenTradeIsExact ==
    ASSUME PricesUnbounded, IndInv, AveragesPositive, EvenAverages, NEW id,
           NEW side \in Sides, NEW q \in Nat \ {0}, NEW price \in Nat,
           NEW liquidity \in Liquidities, Execute(id, side, q, price, liquidity)
    PROVE  \E a \in Symbols, p \in TradePrices,
              rate \in {MakerFeeRate, TakerFeeRate, LiquidationFeeRate} :
              Account!ExactTrade(a, Holding'[a] - Holding[a], p, rate)
<1> DEFINE held == positions[sym].quantity
           extends == Extends(positions[sym], side)
           dropped == IF extends THEN Discarded(positions[sym], side, q, price) ELSE 0
           rate == FeeRate(liquidity)
           n == side * q
           paid == Scale * n * price + q * price * rate
<1>1. /\ Holding' = [Holding EXCEPT ![sym] = @ + n]
      /\ Holding[sym] = held
      /\ Holding'[sym] = held + n
      /\ Money \in Int /\ dropped \in Int
      /\ Money' = Money - paid + Scale * dropped
      /\ extends => Abs(dropped) < Abs(held + n)
  BY TradeOfAccount
<1>2. dropped = 0
  <2>1. CASE extends
    BY <2>1, EvenTradeDropsNothing
  <2> QED BY <2>1
<1>3. /\ sym \in Symbols /\ held \in Int /\ n \in Int /\ n # 0
      /\ Account!Magnitude(n) = q /\ Scale \in Nat
  BY ParametersAssumption
     DEF Account!Magnitude, Sides, BUY, SELL, IndInv, TypeOK, sym
<1>4. rate \in {MakerFeeRate, TakerFeeRate, LiquidationFeeRate} /\ rate \in Int
  BY ParametersAssumption DEF FeeRate, Liquidities
<1>5. paid \in Int /\ Account!Paid(n, price, rate) = paid /\ price \in TradePrices
  BY <1>3, <1>4 DEF Account!Paid, PricesUnbounded
<1> HIDE DEF held, extends, dropped, rate, n, paid
<1>6. Holding'[sym] - Holding[sym] = n
  BY <1>1, <1>3
<1>7. Money' = Money - paid
  <2>1. Scale * dropped = 0
    BY <1>2, <1>3
  <2> QED BY <1>1, <1>5, <2>1
<1>8. Account!ExactTrade(sym, n, price, rate)
  BY <1>1, <1>3, <1>5, <1>7 DEF Account!ExactTrade, Money, Holding, Costs
<1> QED BY <1>3, <1>4, <1>5, <1>6, <1>8

LEMMA EvenStepsOfAccount ==
    ASSUME NotionalsPositive, PricesUnbounded, IndInv, AveragesPositive,
           [Next]_vars, [EvenAverages]_vars
    PROVE  Account!ExactNext \/ UNCHANGED Accounts
<1>1. CASE UNCHANGED <<cash, positions>>
  BY <1>1, QuietAccount
<1>2. ASSUME NEW m \in Marks, Liquidate(m), EvenAverages PROVE Account!ExactNext
  <2>1. "LIQUIDATION" \in Liquidities
    BY DEF Liquidities
  <2> QED BY <1>2, <2>1, LiquidationTrade, EvenTradeIsExact
           DEF Account!ExactNext, Money, Holding, Costs
<1>3. ASSUME NEW c \in queue, FillCandidate(c), EvenAverages PROVE Account!ExactNext
  <2>1. {"MAKER", "TAKER"} \subseteq Liquidities
    BY DEF Liquidities
  <2> QED BY <1>3, <2>1, CandidateTrade, EvenTradeIsExact
           DEF Account!ExactNext, Money, Holding, Costs
<1>4. ASSUME NEW f \in FundingEvents, SettleFunding(f) PROVE Account!ExactNext
  BY <1>4, SettleOfAccount DEF Account!ExactNext
<1>5. CASE \/ \E i \in pending : AcceptIntent(i) \/ RejectIntent(i)
           \/ StartEvents
           \/ NoEvent
           \/ \E m \in Marks : RefuseMark(m) \/ ApplyMark(m)
           \/ \E b \in Bars : OpenBar(b)
           \/ \E c \in queue : CancelCandidate(c)
           \/ CloseBar
           \/ Finish
  BY <1>1, <1>5 DEF AcceptIntent, RejectIntent, StartEvents, NoEvent, RefuseMark,
     ApplyMark, OpenBar, CancelCandidate, CloseBar, Finish, accountVars
<1>6. CASE UNCHANGED vars
  BY <1>1, <1>6 DEF vars, accountVars
<1> QED BY <1>2, <1>3, <1>4, <1>5, <1>6 DEF Next, Returned

THEOREM ExactCashFlow ==
    ASSUME NotionalsPositive, PricesUnbounded
    PROVE  Spec /\ [][EvenAverages]_vars => Account!ExactSpec
<1>1. Init => Account!Init
  BY InitOfAccount
<1>2. Init => AveragesPositive
  BY DEF Init, Flat, AveragesPositive
<1>3. IndInv /\ AveragesPositive /\ [Next]_vars => AveragesPositive'
  BY NextAverages
<1>4. IndInv /\ AveragesPositive /\ [Next]_vars /\ [EvenAverages]_vars
        => [Account!ExactNext]_Accounts
  BY EvenStepsOfAccount
<1>5. [Account!ExactNext]_Accounts <=> [Account!ExactNext]_<<Money, Holding>>
  BY DEF Accounts
<1> QED BY <1>1, <1>2, <1>3, <1>4, <1>5, Invariance, PTL
     DEF Spec, Account!ExactSpec, Money, Holding, Costs
=============================================================================
