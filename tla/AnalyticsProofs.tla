--------------------------- MODULE AnalyticsProofs --------------------------
(***************************************************************************)
(* Theorems about what the analytics of a finished backtest say, for every *)
(* request: the trades it reconstructs from the fills explain profit and   *)
(* fees, and the reported drawdown covers the loss of the run.             *)
(***************************************************************************)
EXTENDS BacktestProofs, AnalyticsProperties

(***************************************************************************)
(* The reconstruction, one fill at a time (_reconstruct_trades).           *)
(***************************************************************************)
NothingBooked == [open |-> [s \in Symbols |-> NoPosition], trades |-> << >>]

\* h is the recursive function inside Reconstruct.
BookTable(h, executed, n) ==
    h = [k \in 0..n |-> IF k = 0 THEN NothingBooked ELSE Booked(h[k - 1], executed[k])]

LEMMA BookTableExists ==
    ASSUME NEW executed, NEW n \in Nat
    PROVE  \E h : BookTable(h, executed, n)
<1> DEFINE Bad == {m \in Nat : ~\E h : BookTable(h, executed, m)}
<1> SUFFICES ASSUME Bad # {} PROVE FALSE
  OBVIOUS
<1>1. Bad \in SUBSET Nat
  OBVIOUS
<1> HIDE DEF Bad
<1>2. PICK m \in Bad : \A k \in Bad : m <= k
  BY <1>1, LeastNatural
<1> USE DEF Bad
<1>3. m # 0
  <2> DEFINE h == [k \in 0..0 |-> NothingBooked]
  <2>1. BookTable(h, executed, 0)
    BY DEF BookTable
  <2> HIDE DEF h
  <2> QED BY <2>1
<1>4. PICK g : BookTable(g, executed, m - 1)
  BY <1>2, <1>3
<1> DEFINE h == [k \in 0..m |-> IF k < m THEN g[k] ELSE Booked(g[k - 1], executed[k])]
<1>5. ASSUME NEW k \in 0..m
      PROVE  h[k] = IF k = 0 THEN NothingBooked ELSE Booked(h[k - 1], executed[k])
  <2>1. CASE k = m
    <3>1. k - 1 \in 0..m /\ k - 1 < m /\ k # 0
      BY <1>2, <1>3, <2>1
    <3> QED BY <2>1, <3>1
  <2>2. CASE k # m
    <3>1. k \in 0..m - 1 /\ k < m
      BY <2>2
    <3>2. g[k] = IF k = 0 THEN NothingBooked ELSE Booked(g[k - 1], executed[k])
      BY <1>4, <3>1 DEF BookTable
    <3>3. k # 0 => k - 1 \in 0..m /\ k - 1 < m
      OBVIOUS
    <3> QED BY <3>1, <3>2, <3>3
  <2> QED BY <2>1, <2>2
<1>6. h = [k \in 0..m |-> h[k]]
  OBVIOUS
<1> HIDE DEF h
<1>7. BookTable(h, executed, m)
  BY <1>5, <1>6 DEF BookTable
<1> QED BY <1>2, <1>7

LEMMA BookTablesAgree ==
    ASSUME NEW d, NEW e, NEW m \in Nat, NEW n \in Nat, m <= n,
           \A k \in 1..m : d[k] = e[k],
           NEW g, BookTable(g, d, m), NEW h, BookTable(h, e, n)
    PROVE  \A k \in 0..m : g[k] = h[k]
<1> DEFINE Bad == {k \in 0..m : g[k] # h[k]}
<1> SUFFICES ASSUME Bad # {} PROVE FALSE
  OBVIOUS
<1>1. Bad \in SUBSET Nat
  OBVIOUS
<1> HIDE DEF Bad
<1>2. PICK k \in Bad : \A j \in Bad : k <= j
  BY <1>1, LeastNatural
<1> USE DEF Bad
<1>3. CASE k = 0
  BY <1>2, <1>3 DEF BookTable
<1>4. CASE k # 0
  <2>1. k - 1 \in 0..m /\ k - 1 < k /\ k \in 0..n /\ k \in 1..m
    BY <1>2, <1>4
  <2>2. g[k - 1] = h[k - 1]
    BY <1>2, <2>1
  <2>3. g[k] = Booked(g[k - 1], d[k]) /\ h[k] = Booked(h[k - 1], e[k])
    BY <1>2, <1>4, <2>1 DEF BookTable
  <2> QED BY <1>2, <2>1, <2>2, <2>3
<1> QED BY <1>3, <1>4

LEMMA ReconstructUnfolds ==
    ASSUME NEW executed
    PROVE  Reconstruct(executed)
             = (CHOOSE h : BookTable(h, executed, Len(executed)))[Len(executed)]
BY DEF Reconstruct, BookTable, NothingBooked

LEMMA NothingReconstructed ==
    Reconstruct(<< >>) = NothingBooked
<1> DEFINE h == CHOOSE h : BookTable(h, << >>, 0)
<1>1. BookTable(h, << >>, 0)
  BY BookTableExists
<1>2. Reconstruct(<< >>) = h[0]
  <2>1. Len(<< >>) = 0
    OBVIOUS
  <2> QED BY <2>1, ReconstructUnfolds
<1> HIDE DEF h
<1> QED BY <1>1, <1>2 DEF BookTable

\* One fill more is booked on what the fills before it leave.
LEMMA ReconstructAppended ==
    ASSUME NEW d, NEW e, NEW n \in Nat, Len(d) = n, Len(e) = n + 1,
           \A k \in 1..n : d[k] = e[k]
    PROVE  Reconstruct(e) = Booked(Reconstruct(d), e[n + 1])
<1> DEFINE g == CHOOSE h : BookTable(h, d, n)
           h == CHOOSE t : BookTable(t, e, n + 1)
<1>1. BookTable(g, d, n) /\ BookTable(h, e, n + 1)
  <2>1. BookTable(g, d, n)
    BY BookTableExists
  <2>2. n + 1 \in Nat
    OBVIOUS
  <2>3. \E t : BookTable(t, e, n + 1)
    BY <2>2, BookTableExists
  <2> QED BY <2>1, <2>3
<1>2. Reconstruct(d) = g[n] /\ Reconstruct(e) = h[n + 1]
  BY ReconstructUnfolds
<1> HIDE DEF g, h
<1>3. g[n] = h[n]
  BY <1>1, BookTablesAgree
<1>4. h[n + 1] = Booked(h[n], e[n + 1])
  BY <1>1 DEF BookTable
<1> QED BY <1>2, <1>3, <1>4
-----------------------------------------------------------------------------
(***************************************************************************)
(* One fill: the analytics' position follows the engine's, the trade it    *)
(* closes has the profit the engine realizes, and the fees of the position *)
(* and the fill are split without rest.                                    *)
(***************************************************************************)
OpenPosition == [quantity : Int, average : Int, since : Nat \cup {None}, fee : Int]

Trade == [symbol : Symbols, entry : Nat, exit : Nat,
          gross : Int, entryFee : Int, exitFee : Int]

\* p holds what the engine's position r holds, and knows since when.
Follows(p, r) ==
    /\ p \in OpenPosition
    /\ p.quantity = r.quantity /\ p.average = r.average
    /\ p.quantity = 0 => p.since = None
    /\ p.quantity # 0 => p.since # None

LEMMA ExactDivision ==
    ASSUME NEW a \in Int, NEW d \in Nat \ {0}
    PROVE  (a * d) \div d = a
<1>1. a * d \in Int /\ d * a <= a * d
  OBVIOUS
<1>2. a <= (a * d) \div d
  BY <1>1, FloorIsGreatest
<1>3. (a * d) \div d \in Int /\ d * ((a * d) \div d) <= a * d
  BY <1>1, Division
<1> DEFINE m == (a * d) \div d
<1> HIDE DEF m
<1>4. ASSUME a + 1 <= m PROVE FALSE
  <2>1. d * (a + 1) <= d * m
    BY <1>3, <1>4 DEF m
  <2> QED BY <1>3, <2>1 DEF m
<1> QED BY <1>2, <1>3, <1>4 DEF m

LEMMA GrownFollows ==
    ASSUME NEW p, NEW r \in PositionType, Follows(p, r),
           NEW f \in Fill, f.quantity > 0, Extends(p, f.side)
    PROVE  /\ Follows(Grown(p, f), ApplyTrade(r, f.side, f.quantity, f.price))
           /\ Grown(p, f).fee = p.fee + f.fee
           /\ RealizedBy(r, f.side, f.quantity, f.price) = 0
<1> DEFINE after == ApplyTrade(r, f.side, f.quantity, f.price)
<1>1. /\ f.side \in Sides /\ f.quantity \in Nat \ {0} /\ f.price \in Int
      /\ f.at \in Nat /\ f.fee \in Int /\ f.at # None
      /\ p.quantity = r.quantity /\ p.average = r.average
      /\ p.fee \in Int /\ p.since \in Nat \cup {None}
      /\ r.quantity \in Int /\ r.average \in Int
  BY ParametersAssumption DEF Follows, Fill, OpenPosition, PositionType
<1>2. Extends(r, f.side)
  BY <1>1 DEF Extends
<1>3. /\ Grown(p, f).quantity = after.quantity
      /\ Grown(p, f).average = after.average
  BY <1>1, <1>2 DEF Grown, ApplyTrade, AverageAfter
<1>4. after \in PositionType /\ RealizedBy(r, f.side, f.quantity, f.price) \in Int
  BY <1>1, TradeType
<1>5. after.quantity # 0
  BY <1>1, <1>2 DEF ApplyTrade, Extends, Sides, BUY, SELL
<1>6. /\ Grown(p, f).fee = p.fee + f.fee
      /\ Grown(p, f).since \in Nat /\ Grown(p, f).since # None
  BY <1>1, ParametersAssumption DEF Grown
<1>7. Grown(p, f) = [quantity |-> Grown(p, f).quantity, average |-> Grown(p, f).average,
                     since |-> Grown(p, f).since, fee |-> Grown(p, f).fee]
  BY DEF Grown
<1>8. RealizedBy(r, f.side, f.quantity, f.price) = 0
  <2>1. Closed(r, f.side, f.quantity) = 0
    BY <1>2 DEF Closed
  <2>2. Direction(r) \in Int /\ f.price - r.average \in Int
    BY <1>1 DEF Direction
  <2> QED BY <2>1, <2>2 DEF RealizedBy
<1> QED BY <1>1, <1>3, <1>4, <1>5, <1>6, <1>7, <1>8
        DEF Follows, OpenPosition, PositionType

\* The three ways a fill goes against a position.
LEMMA ReducedFollows ==
    ASSUME NEW p, NEW r \in PositionType, Follows(p, r),
           NEW f \in Fill, f.quantity > 0, ~Extends(p, f.side)
    PROVE  /\ Follows(Reduced(p, f), ApplyTrade(r, f.side, f.quantity, f.price))
           /\ TradeOf(p, f) \in Trade
           /\ TradeOf(p, f).gross = RealizedBy(r, f.side, f.quantity, f.price)
           /\ TradeOf(p, f).entryFee + TradeOf(p, f).exitFee + Reduced(p, f).fee
                = p.fee + f.fee
<1> DEFINE after == ApplyTrade(r, f.side, f.quantity, f.price)
           t == TradeOf(p, f)
           new == p.quantity + f.side * f.quantity
           held == Abs(p.quantity)
           closing == IF held < f.quantity THEN held ELSE f.quantity
<1>1. /\ f.side \in {1, -1} /\ f.side \in Sides /\ f.quantity \in Nat \ {0}
      /\ f.price \in Int /\ f.symbol \in Symbols
      /\ f.at \in Nat /\ f.fee \in Int /\ f.at # None
      /\ p.quantity = r.quantity /\ p.average = r.average
      /\ p.fee \in Int /\ p.since \in Nat \cup {None}
      /\ r.quantity \in Int /\ r.average \in Int
  BY ParametersAssumption DEF Follows, Fill, OpenPosition, PositionType, Sides, BUY, SELL
<1>2. ~Extends(r, f.side) /\ r.quantity # 0 /\ p.since # None /\ p.since \in Nat
  BY <1>1 DEF Extends, Follows
<1>3. held \in Nat \ {0} /\ new \in Int /\ closing \in Nat \ {0}
  BY <1>1, <1>2 DEF Abs
<1>4. after \in PositionType /\ after.quantity = new
  BY <1>1, TradeType DEF ApplyTrade
<1>5. /\ t.gross = RealizedBy(r, f.side, f.quantity, f.price)
      /\ t.gross \in Int
  <2>1. RealizedBy(r, f.side, f.quantity, f.price) \in Int
    BY <1>1, TradeType
  <2>2. Closed(r, f.side, f.quantity) = closing /\ Direction(r) \in {1, -1}
    BY <1>1, <1>2 DEF Closed, Direction
  <2>3. CASE p.average = 0
    <3>1. t.gross = closing * (f.price - f.price) * Direction(r)
      BY <1>1, <2>3 DEF TradeOf, Direction
    <3>2. f.price - f.price = 0 /\ closing * 0 = 0 /\ 0 * Direction(r) = 0
      BY <1>1, <1>3, <2>2
    <3> QED BY <1>1, <2>1, <2>3, <3>1, <3>2 DEF RealizedBy
  <2>4. CASE p.average # 0
    BY <1>1, <2>1, <2>2, <2>4 DEF TradeOf, Direction, RealizedBy
  <2> QED BY <2>3, <2>4
<1>6. /\ t.entryFee = (p.fee * closing) \div held
      /\ t.exitFee = (f.fee * closing) \div f.quantity
      /\ t.entryFee \in Int /\ t.exitFee \in Int
  <2>1. p.fee * closing \in Int /\ f.fee * closing \in Int
    BY <1>1, <1>3
  <2>2. (p.fee * closing) \div held \in Int /\ (f.fee * closing) \div f.quantity \in Int
    <3> HIDE DEF held, closing
    <3> QED BY <1>1, <1>3, <2>1, Division
  <2> QED BY <2>2 DEF TradeOf
<1>7. t \in Trade
  <2>1. t.symbol \in Symbols /\ t.entry \in Nat /\ t.exit \in Nat
    BY <1>1, <1>2 DEF TradeOf
  <2>2. t = [symbol |-> t.symbol, entry |-> t.entry, exit |-> t.exit,
             gross |-> t.gross, entryFee |-> t.entryFee, exitFee |-> t.exitFee]
    BY DEF TradeOf
  <2> HIDE DEF t
  <2> QED BY <1>5, <1>6, <2>1, <2>2 DEF Trade
<1>8. CASE held = f.quantity
  <2>1. new = 0
    BY <1>1, <1>2, <1>8 DEF Abs, Extends
  <2>2. Reduced(p, f) = NoPosition
    <3>1. ~(p.quantity * new < 0)
      BY <1>1, <2>1
    <3> QED BY <2>1, <3>1 DEF Reduced
  <2>3. after.average = 0
    BY <1>1, <1>2, <2>1 DEF ApplyTrade, AverageAfter
  <2>4. closing = held /\ closing = f.quantity
    BY <1>8
  <2>5. t.entryFee = p.fee /\ t.exitFee = f.fee
    <3> HIDE DEF held, closing, t
    <3> QED BY <1>1, <1>3, <1>6, <2>4, ExactDivision
  <2>6. Follows(Reduced(p, f), after) /\ Reduced(p, f).fee = 0
    BY <1>4, <2>1, <2>2, <2>3 DEF Follows, NoPosition, OpenPosition
  <2> HIDE DEF t
  <2> QED BY <1>1, <1>5, <1>7, <2>5, <2>6 DEF t
<1>9. CASE held < f.quantity
  <2>1. new # 0 /\ p.quantity * new < 0
    BY <1>1, <1>2, <1>9 DEF Abs, Extends
  <2>2. Reduced(p, f) = [quantity |-> new, average |-> f.price, since |-> f.at,
                         fee |-> f.fee - t.exitFee]
    BY <2>1 DEF Reduced
  <2>3. after.average = f.price
    BY <1>1, <1>2, <1>9, <2>1 DEF ApplyTrade, AverageAfter
  <2>4. t.entryFee = p.fee
    <3>1. closing = held
      BY <1>9
    <3> HIDE DEF held, closing, t
    <3> QED BY <1>1, <1>3, <1>6, <3>1, ExactDivision
  <2>5. f.fee - t.exitFee \in Int
    BY <1>1, <1>6
  <2>6. Follows(Reduced(p, f), after)
    BY <1>1, <1>3, <1>4, <2>1, <2>2, <2>3, <2>5 DEF Follows, OpenPosition
  <2>7. Reduced(p, f).fee = f.fee - t.exitFee
    BY <2>2
  <2> HIDE DEF t
  <2> QED BY <1>1, <1>5, <1>6, <1>7, <2>4, <2>6, <2>7 DEF t
<1>10. CASE f.quantity < held
  <2>1. new # 0 /\ ~(p.quantity * new < 0)
    BY <1>1, <1>2, <1>10 DEF Abs, Extends
  <2>2. Reduced(p, f) = [p EXCEPT !.quantity = new, !.fee = @ - t.entryFee]
    BY <2>1 DEF Reduced
  <2>3. after.average = p.average
    <3>1. held = Abs(r.quantity) /\ ~(held < f.quantity)
      <4>1. held = Abs(r.quantity)
        BY <1>1
      <4> HIDE DEF held
      <4> QED BY <1>1, <1>3, <1>10, <4>1
    <3>2. r.quantity + f.side * f.quantity # 0
      BY <1>1, <2>1
    <3> HIDE DEF held, new
    <3> QED BY <1>1, <1>2, <3>1, <3>2 DEF ApplyTrade, AverageAfter
  <2>4. t.exitFee = f.fee
    <3>1. closing = f.quantity
      <4> HIDE DEF held
      <4> QED BY <1>1, <1>3, <1>10
    <3> HIDE DEF held, closing, t
    <3> QED BY <1>1, <1>3, <1>6, <3>1, ExactDivision
  <2>5. p.fee - t.entryFee \in Int
    BY <1>1, <1>6
  <2>6. /\ Reduced(p, f).quantity = new /\ Reduced(p, f).average = p.average
        /\ Reduced(p, f).since = p.since /\ Reduced(p, f).fee = p.fee - t.entryFee
        /\ Reduced(p, f) \in OpenPosition
    <3> HIDE DEF t, new
    <3> QED BY <1>3, <2>2, <2>5 DEF Follows, OpenPosition
  <2>7. Follows(Reduced(p, f), after)
    BY <1>1, <1>2, <1>4, <2>1, <2>3, <2>6 DEF Follows
  <2> HIDE DEF t
  <2> QED BY <1>1, <1>5, <1>6, <1>7, <2>4, <2>6, <2>7 DEF t
<1> QED BY <1>1, <1>3, <1>8, <1>9, <1>10
-----------------------------------------------------------------------------
(***************************************************************************)
(* The invariant behind TradesExplainProfit: the trades and positions the  *)
(* analytics would rebuild from the fills so far explain the positions,    *)
(* the realized profit and the fees so far.                                *)
(***************************************************************************)
Gross(trades) == [i \in DOMAIN trades |-> trades[i].gross]
Fees(trades) == [i \in DOMAIN trades |-> trades[i].entryFee + trades[i].exitFee]
OpenFees(log) == [x \in Symbols |-> log.open[x].fee]

LogOf(log, held) ==
    /\ log \in [open : [Symbols -> OpenPosition], trades : Seq(Trade)]
    /\ \A x \in Symbols : Follows(log.open[x], held[x])

Explained(log, held, gained, paid) ==
    /\ LogOf(log, held)
    /\ gained = Scale * SumFunction(Gross(log.trades))
    /\ paid = SumFunction(Fees(log.trades)) + SumOverSymbols(OpenFees(log))

AnalyticsInv == Explained(Reconstruct(fills), positions, realized, totalFees)

LEMMA ExplainsAtEnd == ASSUME AnalyticsInv PROVE TradesExplainProfit
BY DEF AnalyticsInv, Explained, TradesExplainProfit, Gross, Fees, OpenFees

\* A sum over a sequence of values grows by the value appended.
LEMMA SumOfAppended ==
    ASSUME NEW n \in Nat, NEW g, NEW h, DOMAIN g = 1..n, DOMAIN h = 1..(n + 1),
           \A i \in 1..n : g[i] \in Int /\ h[i] = g[i], h[n + 1] \in Int
    PROVE  /\ SumFunction(g) \in Int
           /\ SumFunction(h) = SumFunction(g) + h[n + 1]
<1> DEFINE S == 1..n
<1>1. S \in SUBSET (1..n) /\ S \cup {n + 1} = 1..(n + 1)
  OBVIOUS
<1>2. /\ SumFunctionOnSet(g, S) \in Int
      /\ SumFunctionOnSet(h, S) = SumFunctionOnSet(g, S)
      /\ SumFunctionOnSet(h, S \cup {n + 1}) = SumFunctionOnSet(g, S) + h[n + 1]
  <2>1. IsFiniteSet(S) /\ n + 1 \notin S
    BY FS_Interval
  <2>2. \A i \in S : g[i] \in Int /\ h[i] \in Int /\ h[i] = g[i]
    OBVIOUS
  <2>3. \A i \in S \cup {n + 1} : h[i] \in Int
    OBVIOUS
  <2> HIDE DEF S
  <2>4. SumFunctionOnSet(g, S) \in Int
    BY <2>1, <2>2, SumType
  <2>5. SumFunctionOnSet(h, S) = SumFunctionOnSet(g, S)
    BY <2>1, <2>2, SumCongruence
  <2>6. SumFunctionOnSet(h, S \cup {n + 1}) = SumFunctionOnSet(h, S) + h[n + 1]
    BY <2>1, <2>3, SumAdd
  <2> QED BY <2>4, <2>5, <2>6
<1> QED BY <1>1, <1>2 DEF SumFunction

\* Booking a fill that the engine executes on symbol s.
LEMMA BookedExplains ==
    ASSUME NEW log, NEW held \in [Symbols -> PositionType], NEW gained \in Int, NEW paid \in Int,
           Explained(log, held, gained, paid),
           NEW f \in Fill, f.quantity > 0
    PROVE  Explained(Booked(log, f),
                     [held EXCEPT ![f.symbol] =
                        ApplyTrade(held[f.symbol], f.side, f.quantity, f.price)],
                     gained + Scale * RealizedBy(held[f.symbol], f.side, f.quantity, f.price),
                     paid + f.fee)
<1> DEFINE s == f.symbol
           p == log.open[s]
           r == held[s]
           after == ApplyTrade(r, f.side, f.quantity, f.price)
           now2 == [held EXCEPT ![s] = after]
           new == Booked(log, f)
           gain == RealizedBy(r, f.side, f.quantity, f.price)
<1> SUFFICES Explained(new, now2, gained + Scale * gain, paid + f.fee)
  OBVIOUS
<1>1. /\ s \in Symbols /\ f.fee \in Int /\ f.side \in Sides
      /\ f.quantity \in Nat \ {0} /\ f.price \in Int /\ Scale \in Nat
  BY ParametersAssumption DEF Fill
<1>2. r \in PositionType /\ Follows(p, r) /\ p \in OpenPosition /\ p.fee \in Int
  BY <1>1 DEF Explained, LogOf, Follows, OpenPosition
<1>3. \A x \in Symbols : OpenFees(log)[x] \in Int
  BY DEF Explained, LogOf, OpenFees, OpenPosition
<1>4. gain \in Int
  BY <1>1, <1>2, TradeType
<1>5. PICK n \in Nat : n = Len(log.trades) /\ DOMAIN log.trades = 1..n
  BY LenProperties DEF Explained, LogOf
<1>6. /\ DOMAIN Gross(log.trades) = 1..n /\ DOMAIN Fees(log.trades) = 1..n
      /\ \A i \in 1..n : Gross(log.trades)[i] \in Int /\ Fees(log.trades)[i] \in Int
  <2>1. \A i \in 1..n : log.trades[i] \in Trade
    BY <1>5, ElementOfSeq DEF Explained, LogOf
  <2>2. \A t \in Trade : t.gross \in Int /\ t.entryFee + t.exitFee \in Int
    BY DEF Trade
  <2> QED BY <1>5, <2>1, <2>2 DEF Gross, Fees
<1>7. SumFunction(Gross(log.trades)) \in Int /\ SumFunction(Fees(log.trades)) \in Int
  <2>1. IsFiniteSet(1..n)
    BY FS_Interval
  <2> QED BY <1>6, <2>1, SumType DEF SumFunction
<1> DEFINE Rest(g) == /\ g \in OpenPosition
                      /\ Follows(g, after)
                      /\ new.open = [log.open EXCEPT ![s] = g]
<1>8. ASSUME NEW g, Rest(g)
      PROVE  /\ new.open \in [Symbols -> OpenPosition]
             /\ \A x \in Symbols : Follows(new.open[x], now2[x])
             /\ SumOverSymbols(OpenFees(log)) \in Int
             /\ SumOverSymbols(OpenFees(new)) = SumOverSymbols(OpenFees(log)) + g.fee - p.fee
  <2>1. new.open \in [Symbols -> OpenPosition] /\ new.open[s] = g
    BY <1>1, <1>8 DEF Explained, LogOf
  <2>2. \A x \in Symbols \ {s} : new.open[x] = log.open[x] /\ now2[x] = held[x]
    BY <1>1, <1>8 DEF Explained, LogOf
  <2>3. \A x \in Symbols : Follows(new.open[x], now2[x])
    BY <1>1, <1>8, <2>1, <2>2 DEF Explained, LogOf
  <2>4. \A x \in Symbols : OpenFees(new)[x] \in Int /\ OpenFees(log)[x] \in Int
    BY <1>3, <2>1 DEF OpenFees, OpenPosition
  <2>5. /\ OpenFees(new)[s] = g.fee /\ OpenFees(log)[s] = p.fee
        /\ \A x \in Symbols \ {s} : OpenFees(new)[x] = OpenFees(log)[x]
    BY <1>1, <2>1, <2>2 DEF OpenFees
  <2> HIDE DEF new
  <2>6. /\ SumOverSymbols(OpenFees(log)) \in Int
        /\ SumOverSymbols(OpenFees(new))
             = SumOverSymbols(OpenFees(log)) + OpenFees(new)[s] - OpenFees(log)[s]
    BY <1>1, <2>4, <2>5, SumAtSymbol
  <2> QED BY <2>1, <2>3, <2>5, <2>6
<1>9. /\ gained = Scale * SumFunction(Gross(log.trades))
      /\ paid = SumFunction(Fees(log.trades)) + SumOverSymbols(OpenFees(log))
      /\ log.trades \in Seq(Trade) /\ log.open \in [Symbols -> OpenPosition]
  BY DEF Explained, LogOf
<1>10. CASE Extends(p, f.side)
  <2>1. /\ Follows(Grown(p, f), after) /\ Grown(p, f).fee = p.fee + f.fee /\ gain = 0
        /\ Grown(p, f) \in OpenPosition
    BY <1>1, <1>2, <1>10, GrownFollows DEF Follows
  <2>2. new = [log EXCEPT !.open[s] = Grown(p, f)]
    BY <1>10 DEF Booked, Extends
  <2>3. /\ new.trades = log.trades /\ new.open = [log.open EXCEPT ![s] = Grown(p, f)]
        /\ new = [open |-> new.open, trades |-> new.trades]
    <3> HIDE DEF new, p
    <3> QED BY <2>2 DEF Explained, LogOf
  <2>4. PICK g : g = Grown(p, f)
    OBVIOUS
  <2>5. Rest(g) /\ g.fee = p.fee + f.fee
    BY <2>1, <2>3, <2>4
  <2> HIDE DEF new, now2, gain, p, Rest
  <2>6. LogOf(new, now2)
    BY <1>8, <1>9, <2>3, <2>5 DEF LogOf
  <2>7. gained + Scale * gain = Scale * SumFunction(Gross(new.trades))
    BY <1>1, <1>7, <1>9, <2>1, <2>3
  <2>8. paid + f.fee = SumFunction(Fees(new.trades)) + SumOverSymbols(OpenFees(new))
    <3>1. PICK a, b, c, d : /\ a = SumFunction(Fees(log.trades))
                            /\ b = SumOverSymbols(OpenFees(log))
                            /\ c = p.fee /\ d = f.fee
      OBVIOUS
    <3>2. a \in Int /\ b \in Int /\ c \in Int /\ d \in Int
      BY <1>1, <1>2, <1>7, <1>8, <2>5, <3>1
    <3>3. SumOverSymbols(OpenFees(new)) = b + (c + d) - c
      BY <1>8, <2>5, <3>1
    <3>4. (a + b) + d = a + (b + (c + d) - c)
      BY <3>2
    <3> QED BY <1>9, <2>3, <3>1, <3>3, <3>4
  <2> QED BY <2>6, <2>7, <2>8 DEF Explained
<1>11. CASE ~Extends(p, f.side)
  <2> DEFINE t == TradeOf(p, f)
             g == Reduced(p, f)
  <2>1. /\ Follows(g, after) /\ t \in Trade /\ t.gross = gain
        /\ t.entryFee + t.exitFee + g.fee = p.fee + f.fee
        /\ g \in OpenPosition
    BY <1>1, <1>2, <1>11, ReducedFollows DEF Follows
  <2>2. new = [open |-> [log.open EXCEPT ![s] = g], trades |-> Append(log.trades, t)]
    BY <1>11 DEF Booked, Extends
  <2>3. /\ new.trades = Append(log.trades, t) /\ new.open = [log.open EXCEPT ![s] = g]
        /\ new = [open |-> new.open, trades |-> new.trades]
    <3> HIDE DEF new, p
    <3> QED BY <2>2
  <2> HIDE DEF t, g
  <2>4. Rest(g)
    BY <2>1, <2>3
  <2> HIDE DEF new, now2, gain, p, Rest
  <2>5. /\ new.trades \in Seq(Trade) /\ DOMAIN new.trades = 1..(n + 1)
        /\ \A i \in 1..n : new.trades[i] = log.trades[i]
        /\ new.trades[n + 1] = t
    <3>1. new.trades \in Seq(Trade) /\ Len(new.trades) = n + 1
      BY <1>5, <1>9, <2>1, <2>3
    <3>2. DOMAIN new.trades = 1..(n + 1)
      BY <3>1, LenProperties
    <3>3. new.trades[n + 1] = t /\ \A i \in 1..n : new.trades[i] = log.trades[i]
      BY <1>5, <1>9, <2>1, <2>3
    <3> QED BY <3>1, <3>2, <3>3
  <2>6. LogOf(new, now2)
    BY <1>8, <2>3, <2>4, <2>5 DEF LogOf
  <2>7. t.gross \in Int /\ t.entryFee + t.exitFee \in Int
    BY <2>1 DEF Trade
  <2>8. SumFunction(Gross(new.trades)) = SumFunction(Gross(log.trades)) + t.gross
    <3>1. /\ DOMAIN Gross(new.trades) = 1..(n + 1)
          /\ Gross(new.trades)[n + 1] = t.gross
          /\ \A i \in 1..n : Gross(new.trades)[i] = Gross(log.trades)[i]
      BY <1>5, <2>5 DEF Gross
    <3>2. PICK a, b : a = Gross(log.trades) /\ b = Gross(new.trades)
      OBVIOUS
    <3>3. /\ DOMAIN a = 1..n /\ DOMAIN b = 1..(n + 1) /\ b[n + 1] \in Int
          /\ \A i \in 1..n : a[i] \in Int /\ b[i] = a[i]
      BY <1>6, <2>7, <3>1, <3>2
    <3>4. SumFunction(b) = SumFunction(a) + b[n + 1]
      BY <3>3, SumOfAppended
    <3> QED BY <3>1, <3>2, <3>4
  <2>9. SumFunction(Fees(new.trades)) = SumFunction(Fees(log.trades)) + (t.entryFee + t.exitFee)
    <3>1. /\ DOMAIN Fees(new.trades) = 1..(n + 1)
          /\ Fees(new.trades)[n + 1] = t.entryFee + t.exitFee
          /\ \A i \in 1..n : Fees(new.trades)[i] = Fees(log.trades)[i]
      BY <1>5, <2>5 DEF Fees
    <3>2. PICK a, b : a = Fees(log.trades) /\ b = Fees(new.trades)
      OBVIOUS
    <3>3. /\ DOMAIN a = 1..n /\ DOMAIN b = 1..(n + 1) /\ b[n + 1] \in Int
          /\ \A i \in 1..n : a[i] \in Int /\ b[i] = a[i]
      BY <1>6, <2>7, <3>1, <3>2
    <3>4. SumFunction(b) = SumFunction(a) + b[n + 1]
      BY <3>3, SumOfAppended
    <3> QED BY <3>1, <3>2, <3>4
  <2>10. gained + Scale * gain = Scale * SumFunction(Gross(new.trades))
    <3>1. PICK a : a = SumFunction(Gross(log.trades))
      OBVIOUS
    <3>2. Scale * a + Scale * gain = Scale * (a + gain)
      BY <1>1, <1>4, <1>7, <3>1
    <3> QED BY <1>9, <2>1, <2>8, <3>1, <3>2
  <2>11. paid + f.fee = SumFunction(Fees(new.trades)) + SumOverSymbols(OpenFees(new))
    <3>1. PICK a, b, c, d, e, h : /\ a = SumFunction(Fees(log.trades))
                                  /\ b = SumOverSymbols(OpenFees(log))
                                  /\ c = p.fee /\ d = f.fee /\ h = g.fee
                                  /\ e = t.entryFee + t.exitFee
      OBVIOUS
    <3>2. a \in Int /\ b \in Int /\ c \in Int /\ d \in Int /\ e \in Int /\ h \in Int
      BY <1>1, <1>2, <1>7, <1>8, <2>1, <2>4, <2>7, <3>1 DEF OpenPosition
    <3>3. SumOverSymbols(OpenFees(new)) = b + h - c
      BY <1>8, <2>4, <3>1
    <3>4. e + h = c + d
      BY <2>1, <3>1
    <3>5. (a + b) + d = (a + e) + (b + h - c)
      BY <3>2, <3>4
    <3> QED BY <1>9, <2>9, <3>1, <3>3, <3>5
  <2> QED BY <2>6, <2>10, <2>11 DEF Explained
<1> QED BY <1>10, <1>11

(***************************************************************************)
(* Only _execute moves a position, the realized profit or the fees, and it *)
(* appends the fill it books.                                              *)
(***************************************************************************)
LEMMA ExecuteExplained ==
    ASSUME IndInv, AnalyticsInv, NEW f, Appends(f), f.quantity > 0,
           NEW s, s = f.symbol,
           positions' = [positions EXCEPT ![s] =
                            ApplyTrade(positions[s], f.side, f.quantity, f.price)],
           realized' = realized + Scale * RealizedBy(positions[s], f.side, f.quantity, f.price),
           totalFees' = totalFees + f.fee
    PROVE  AnalyticsInv'
<1>1. PICK d, e, held, gained, paid :
         /\ d = fills /\ e = fills' /\ held = positions
         /\ gained = realized /\ paid = totalFees
  OBVIOUS
<1>2. PICK n \in Nat : n = Len(d) /\ Len(e) = n + 1 /\ e[n + 1] = f
                       /\ \A k \in 1..n : d[k] = e[k]
  <2>1. /\ Len(fills) \in Nat /\ \A k \in 1..Len(fills) : fills'[k] = fills[k]
        /\ fills'[Len(fills) + 1] = f /\ fills' = Append(fills, f)
    BY DEF Appends
  <2>2. fills \in Seq(Fill) /\ f \in Fill
    BY DEF Appends, IndInv, TypeOK
  <2>3. Len(fills') = Len(fills) + 1
    BY <2>1, <2>2
  <2> QED BY <1>1, <2>1, <2>3
<1>3. Reconstruct(e) = Booked(Reconstruct(d), f)
  BY <1>2, ReconstructAppended
<1>4. /\ held \in [Symbols -> PositionType] /\ gained \in Int /\ paid \in Int
      /\ f \in Fill
  BY <1>1 DEF IndInv, TypeOK, PositionType, Appends
<1>5. Explained(Reconstruct(d), held, gained, paid)
  BY <1>1 DEF AnalyticsInv
<1>6. PICK log : log = Reconstruct(d)
  OBVIOUS
<1>7. Explained(Booked(log, f),
                [held EXCEPT ![f.symbol] =
                   ApplyTrade(held[f.symbol], f.side, f.quantity, f.price)],
                gained + Scale * RealizedBy(held[f.symbol], f.side, f.quantity, f.price),
                paid + f.fee)
  BY <1>4, <1>5, <1>6, BookedExplains
<1>8. Explained(Reconstruct(e), positions', realized', totalFees')
  BY <1>1, <1>3, <1>6, <1>7
<1> QED BY <1>1, <1>8 DEF AnalyticsInv

LEMMA NextAnalytics ==
    ASSUME IndInv, AnalyticsInv, [Next]_vars
    PROVE  AnalyticsInv'
<1>1. ASSUME NEW m \in Marks, Liquidate(m) PROVE AnalyticsInv'
  <2>0. PICK f, s : f = LiquidationRecord(m) /\ s = sym
    OBVIOUS
  <2>1. /\ Appends(f) /\ positions[s].quantity # 0
        /\ positions' = [positions EXCEPT ![s] =
              ApplyTrade(positions[s], f.side, f.quantity, f.price)]
    BY <1>1, <2>0, LiquidateStep
  <2>2. s = f.symbol
    BY <2>0 DEF LiquidationRecord
  <2>3. f.quantity > 0
    <3>1. positions[s].quantity \in Int /\ f.quantity = Abs(positions[s].quantity)
      BY <2>0 DEF IndInv, TypeOK, sym, LiquidationRecord
    <3> QED BY <2>1, <3>1 DEF Abs
  <2>4. /\ realized' = realized
              + Scale * RealizedBy(positions[s], f.side, f.quantity, f.price)
        /\ totalFees' = totalFees + f.fee
    BY <1>1, <2>0 DEF Liquidate, Execute, LiquidationRecord
  <2> QED BY <2>1, <2>2, <2>3, <2>4, ExecuteExplained
<1>2. ASSUME NEW c \in queue, FillCandidate(c) PROVE AnalyticsInv'
  <2>0. PICK f, s : f = FillRecord(c) /\ s = sym
    OBVIOUS
  <2>1. /\ Appends(f)
        /\ positions' = [positions EXCEPT ![s] =
              ApplyTrade(positions[s], f.side, f.quantity, f.price)]
    BY <1>2, <2>0, FillStep
  <2>2. s = f.symbol
    BY <2>0 DEF FillRecord
  <2>3. f.quantity > 0
    <3>1. FillQuantity(c) \in Nat \ {0}
      BY <1>2, FillQuantityBounds
         DEF FillCandidate, IsNextCandidate, Executable, IndInv
    <3> QED BY <2>0, <3>1 DEF FillRecord
  <2>4. /\ realized' = realized
              + Scale * RealizedBy(positions[s], f.side, f.quantity, f.price)
        /\ totalFees' = totalFees + f.fee
    BY <1>2, <2>0 DEF FillCandidate, Execute, FillRecord
  <2> QED BY <2>1, <2>2, <2>3, <2>4, ExecuteExplained
<1>3. CASE UNCHANGED <<fills, positions, realized, totalFees>>
  BY <1>3 DEF AnalyticsInv
<1>4. CASE \/ \E i \in pending : AcceptIntent(i) \/ RejectIntent(i)
           \/ StartEvents
           \/ NoEvent
           \/ \E f \in FundingEvents : SettleFunding(f)
           \/ \E m \in Marks : RefuseMark(m) \/ ApplyMark(m)
           \/ \E b \in Bars : OpenBar(b)
           \/ \E c \in queue : CancelCandidate(c)
           \/ CloseBar
           \/ Finish
           \/ UNCHANGED vars
  BY <1>3, <1>4 DEF AcceptIntent, RejectIntent, StartEvents, NoEvent, SettleFunding,
     RefuseMark, ApplyMark, OpenBar, CancelCandidate, CloseBar, Finish, accountVars, vars
<1> QED BY <1>1, <1>2, <1>4 DEF Next, Returned

\* At every moment the log rebuilt from the fills explains the account.
THEOREM Explaining == Spec => []AnalyticsInv
<1>1. Init => AnalyticsInv
  <2> SUFFICES ASSUME Init PROVE AnalyticsInv
    OBVIOUS
  <2>1. /\ fills = << >> /\ realized = 0 /\ totalFees = 0
        /\ positions = [x \in Symbols |-> Flat]
    BY DEF Init
  <2>2. Reconstruct(fills) = NothingBooked
    BY <2>1, NothingReconstructed
  <2>3. LogOf(NothingBooked, positions)
    BY <2>1 DEF LogOf, NothingBooked, NoPosition, OpenPosition, Follows, Flat
  <2>4. SumFunction(Gross(<< >>)) = 0 /\ SumFunction(Fees(<< >>)) = 0
    <3>1. DOMAIN Gross(<< >>) = {} /\ DOMAIN Fees(<< >>) = {}
      BY DEF Gross, Fees
    <3> QED BY <3>1, SumEmpty DEF SumFunction
  <2>5. SumOverSymbols(OpenFees(NothingBooked)) = 0
    <3>1. \A x \in Symbols : OpenFees(NothingBooked)[x] = 0
      BY DEF OpenFees, NothingBooked, NoPosition
    <3> QED BY <3>1, SumOfZeros
  <2> QED BY <2>1, <2>2, <2>3, <2>4, <2>5, ParametersAssumption
          DEF AnalyticsInv, Explained, NothingBooked
<1>2. IndInv /\ AnalyticsInv /\ [Next]_vars => AnalyticsInv'
  BY NextAnalytics
<1> QED BY <1>1, <1>2, Invariance, PTL DEF Spec

(***************************************************************************)
(* For every request, the trades the analytics rebuild from the fills of a *)
(* result add up to its realized profit and, with the fees of the          *)
(* positions still open, to the fees it paid: _validate_accounting never   *)
(* refuses a result of the engine over its realized profit.                *)
(***************************************************************************)
THEOREM TradesExplain == Spec => []TradesExplainProfit
BY Explaining, ExplainsAtEnd, PTL
-----------------------------------------------------------------------------
(***************************************************************************)
(* Greatest and least of the numbers the drawdown is computed from.        *)
(***************************************************************************)
LEMMA MaxOfValues ==
    ASSUME NEW n \in Nat, NEW v \in [1..n -> Int], NEW I \in SUBSET (1..n),
           NEW z \in Int, NEW S, S = {z} \cup {v[i] : i \in I}
    PROVE  Max(S) \in S /\ Max(S) \in Int /\ \A y \in S : Max(S) >= y
<1>1. S \subseteq Int
  OBVIOUS
<1>2. \E x \in S : \A y \in S : x >= y
  <2>1. CASE I = {}
    BY <2>1
  <2>2. CASE I # {}
    <3>1. PICK m \in I : \A i \in I : v[i] <= v[m]
      BY <2>2, GreatestAt
    <3>2. CASE z <= v[m]
      BY <3>1, <3>2
    <3>3. CASE ~(z <= v[m])
      <4>1. v[m] \in Int /\ \A i \in I : v[i] \in Int
        OBVIOUS
      <4>2. \A i \in I : v[i] <= z
        BY <3>1, <3>3, <4>1
      <4> QED BY <4>2
    <3> QED BY <3>2, <3>3
  <2> QED BY <2>1, <2>2
<1>3. Max(S) \in S /\ \A y \in S : Max(S) >= y
  BY <1>2 DEF Max
<1> QED BY <1>1, <1>3

LEMMA MinOfTwo ==
    ASSUME NEW a \in Int, NEW b \in Int
    PROVE  Min({a, b}) \in Int /\ Min({a, b}) <= a /\ Min({a, b}) <= b
<1>1. \E x \in {a, b} : \A y \in {a, b} : x =< y
  OBVIOUS
<1>2. Min({a, b}) \in {a, b} /\ \A y \in {a, b} : Min({a, b}) =< y
  BY <1>1 DEF Min
<1> QED BY <1>2

CurvePoint == [at : Nat, equity : Int]

\* The equity at a recorded time is a whole number, and at the time of the
\* last point it is that of the last point.
LEMMA EquityAtRecorded ==
    ASSUME NEW points, NEW n \in Nat, DOMAIN points = 1..n,
           \A i \in 1..n : points[i] \in CurvePoint,
           NEW i \in 1..n
    PROVE  /\ EquityAt(points, points[i].at) \in Int
           /\ i = n => EquityAt(points, points[i].at) = points[n].equity
<1> DEFINE v == [j \in 1..n |-> j]
           I == {j \in 1..n : points[j].at = points[i].at}
           S == {j \in DOMAIN points : points[j].at = points[i].at}
<1>1. v \in [1..n -> Int] /\ I \in SUBSET (1..n) /\ i \in Int /\ S = {i} \cup {v[j] : j \in I}
  OBVIOUS
<1>2. S \subseteq 1..n /\ i \in S
  OBVIOUS
<1>3. EquityAt(points, points[i].at) = points[Max(S)].equity
  BY DEF EquityAt
<1> HIDE DEF v, I, S
<1>4. Max(S) \in S /\ Max(S) \in Int /\ \A y \in S : Max(S) >= y
  BY <1>1, MaxOfValues
<1>5. Max(S) \in 1..n /\ (i = n => Max(S) = n)
  BY <1>2, <1>4
<1>6. points[Max(S)].equity \in Int
  BY <1>5 DEF CurvePoint
<1>7. i = n => points[Max(S)].equity = points[n].equity
  BY <1>5
<1> QED BY <1>3, <1>6, <1>7

\* The peak before any time is at least the initial cash.
Peak(points, initial, at) == Max(ValuesUpTo(points, initial, at))

LEMMA PeakBounds ==
    ASSUME NEW points, NEW n \in Nat, DOMAIN points = 1..n,
           \A i \in 1..n : points[i] \in CurvePoint,
           NEW initial \in Int, NEW at
    PROVE  Peak(points, initial, at) \in Int /\ Peak(points, initial, at) >= initial
<1> DEFINE v == [j \in 1..n |-> EquityAt(points, points[j].at)]
           I == {j \in 1..n : points[j].at <= at}
           S == ValuesUpTo(points, initial, at)
<1>1. v \in [1..n -> Int]
  BY EquityAtRecorded
<1>2. S = {initial} \cup {v[j] : j \in I}
  <2>1. {EquityAt(points, t) : t \in {u \in {points[i].at : i \in DOMAIN points} : u <= at}}
          = {v[j] : j \in I}
    OBVIOUS
  <2> QED BY <2>1 DEF ValuesUpTo
<1>3. I \in SUBSET (1..n) /\ initial \in S
  BY DEF ValuesUpTo
<1> HIDE DEF v, I, S
<1>4. Max(S) \in Int /\ \A y \in S : Max(S) >= y
  BY <1>1, <1>2, <1>3, MaxOfValues
<1> QED BY <1>3, <1>4 DEF Peak, S

Fall(points, initial, at) ==
    (Scale * (Peak(points, initial, at) - EquityAt(points, at)))
        \div Peak(points, initial, at)

\* The maximum drawdown is not negative, and at least the fall to the last
\* equity of the curve.
LEMMA DrawdownBounds ==
    ASSUME NEW points, NEW n \in Nat, DOMAIN points = 1..n,
           \A i \in 1..n : points[i] \in CurvePoint,
           NEW initial \in Nat \ {0}
    PROVE  /\ MaxDrawdown(points, initial) \in Int
           /\ MaxDrawdown(points, initial) >= 0
           /\ n > 0 => MaxDrawdown(points, initial) >= Fall(points, initial, points[n].at)
<1> DEFINE peak(t) == Peak(points, initial, t)
           fall(t) == Fall(points, initial, t)
           v == [j \in 1..n |-> fall(points[j].at)]
           I == 1..n
           times == {points[i].at : i \in DOMAIN points}
           S == {0} \cup {fall(t) : t \in {u \in times : peak(u) > 0}}
<1>1. \A j \in 1..n : peak(points[j].at) \in Nat \ {0}
  <2>1. \A j \in 1..n : peak(points[j].at) \in Int /\ peak(points[j].at) >= initial
    BY PeakBounds
  <2> QED BY <2>1
<1>2. v \in [1..n -> Int]
  <2>1. ASSUME NEW j \in 1..n PROVE fall(points[j].at) \in Int
    <3>1. EquityAt(points, points[j].at) \in Int
      BY EquityAtRecorded
    <3>2. PICK p, e : p = peak(points[j].at) /\ e = EquityAt(points, points[j].at)
      OBVIOUS
    <3>3. p \in Nat \ {0} /\ e \in Int /\ Scale \in Int
      BY <1>1, <3>1, <3>2, ParametersAssumption
    <3>4. (Scale * (p - e)) \in Int
      BY <3>3
    <3>5. (Scale * (p - e)) \div p \in Int
      BY <3>3, <3>4, Division
    <3> QED BY <3>2, <3>5 DEF Fall
  <2> QED BY <2>1
<1>3. S = {0} \cup {v[j] : j \in I}
  <2> HIDE DEF peak, fall
  <2>1. {u \in times : peak(u) > 0} = times
    BY <1>1
  <2> QED BY <2>1
<1>4. MaxDrawdown(points, initial) = Max(S)
  BY DEF MaxDrawdown, Peak, Fall
<1>5. I \in SUBSET (1..n) /\ (n > 0 => n \in I) /\ 0 \in Int
  OBVIOUS
<1>6. n > 0 => v[n] = Fall(points, initial, points[n].at)
  OBVIOUS
<1> HIDE DEF v, I, S
<1>7. 0 \in S /\ (n > 0 => v[n] \in S)
  BY <1>3, <1>5
<1>8. Max(S) \in S /\ Max(S) \in Int /\ \A y \in S : Max(S) >= y
  BY <1>2, <1>3, <1>5, MaxOfValues
<1> QED BY <1>4, <1>6, <1>7, <1>8

\* A fall from a peak not below the initial cash is as deep a part of the
\* peak as the loss is of the initial cash, up to all of it.
LEMMA FallCoversLoss ==
    ASSUME NEW p \in Int, NEW e \in Int, NEW initial \in Nat \ {0}, p >= initial
    PROVE  (Scale * (p - e)) \div p
             >= Min({Scale, (Scale * (initial - e)) \div initial})
<1> DEFINE m == (Scale * (initial - e)) \div initial
           w == Min({Scale, m})
<1>1. Scale \in Int /\ Scale * (initial - e) \in Int /\ Scale * (p - e) \in Int
      /\ p \in Nat \ {0}
  BY ParametersAssumption
<1>2. m \in Int /\ initial * m <= Scale * (initial - e)
  BY <1>1, Division
<1> HIDE DEF m
<1>3. w \in Int /\ w <= Scale /\ w <= m
  BY <1>1, <1>2, MinOfTwo
<1> HIDE DEF w
<1>4. initial * w <= Scale * (initial - e)
  <2>1. initial * w <= initial * m
    BY <1>2, <1>3
  <2> QED BY <1>1, <1>2, <1>3, <2>1
<1>5. (p - initial) * w <= (p - initial) * Scale
  BY <1>1, <1>3
<1>6. p * w <= Scale * (p - e)
  <2>1. p * w = initial * w + (p - initial) * w
    BY <1>3
  <2>2. Scale * (p - e) = Scale * (initial - e) + (p - initial) * Scale
    BY <1>1
  <2> QED BY <1>1, <1>3, <1>4, <1>5, <2>1, <2>2
<1>7. w <= (Scale * (p - e)) \div p
  BY <1>1, <1>3, <1>6, FloorIsGreatest
<1>8. (Scale * (p - e)) \div p \in Int
  BY <1>1, Division
<1> QED BY <1>3, <1>7, <1>8 DEF w, m
-----------------------------------------------------------------------------
(***************************************************************************)
(* The invariant behind DrawdownCoversLoss: outside a bar, the curve ends  *)
(* with the equity of the account, or is empty and the account is as it    *)
(* started (_record_equity follows every change, but for the fills of a    *)
(* bar, which its close records).                                          *)
(***************************************************************************)
Recorded(points, equity) ==
    /\ points = << >> => equity = InitialCash
    /\ points # << >> => points[Len(points)].equity = equity

CurveInv ==
    /\ curve \in Seq(CurvePoint)
    /\ phase # "bar" => Recorded(curve, EquityOf(cash, positions, lastPrices))

LEMMA EquityType ==
    ASSUME NEW money \in Int, NEW pos \in [Symbols -> PositionType],
           NEW last \in [Symbols -> Int \cup {None}]
    PROVE  EquityOf(money, pos, last) \in Int
<1> DEFINE g == [s \in Symbols |-> pos[s].quantity * (MarkOf(pos, last, s) - pos[s].average)]
<1>1. IsFiniteSet(Symbols) /\ Scale \in Int
  BY FS_Interval, ParametersAssumption DEF Symbols
<1>2. \A s \in Symbols : g[s] \in Int
  <2>1. ASSUME NEW s \in Symbols PROVE g[s] \in Int
    <3>1. pos[s].quantity \in Int /\ pos[s].average \in Int /\ MarkOf(pos, last, s) \in Int
      BY DEF MarkOf, PositionType
    <3> QED BY <3>1
  <2> QED BY <2>1
<1>3. Unrealized(pos, last) = Scale * SumFunctionOnSet(g, Symbols)
  BY DEF Unrealized, SumOverSymbols
<1> HIDE DEF g
<1>4. SumFunctionOnSet(g, Symbols) \in Int
  BY <1>1, <1>2, SumType
<1> QED BY <1>1, <1>3, <1>4 DEF EquityOf

LEMMA RecordingKeeps ==
    ASSUME IndInv, IndInv', CurveInv, NEW at \in Nat, RecordEquity(at)
    PROVE  CurveInv'
<1>1. PICK e : e = EquityOf(cash', positions', lastPrices')
  OBVIOUS
<1>2. e \in Int
  <2>1. /\ cash' \in Int /\ positions' \in [Symbols -> PositionType]
        /\ lastPrices' \in [Symbols -> Int \cup {None}]
    BY DEF IndInv, TypeOK, PositionType
  <2> QED BY <1>1, <2>1, EquityType
<1>3. PICK p : p = [at |-> at, equity |-> e]
  OBVIOUS
<1>4. p \in CurvePoint /\ p.equity = e /\ curve \in Seq(CurvePoint)
  BY <1>2, <1>3 DEF CurvePoint, CurveInv
<1>5. curve' = Append(curve, p)
  BY <1>1, <1>3 DEF RecordEquity
<1>6. /\ curve' \in Seq(CurvePoint) /\ curve' # << >>
      /\ curve'[Len(curve')] = p
  BY <1>4, <1>5
<1> QED BY <1>1, <1>4, <1>6 DEF CurveInv, Recorded

LEMMA NextCurve ==
    ASSUME IndInv, IndInv', CurveInv, [Next]_vars
    PROVE  CurveInv'
<1>0. now \in Nat /\ \A x \in Symbols : BarLength[x] \in Nat
  BY RequestAssumption DEF IndInv, TypeOK, now
<1>1. CASE \/ \E f \in FundingEvents : SettleFunding(f)
           \/ \E m \in Marks : ApplyMark(m) \/ Liquidate(m)
  BY <1>0, <1>1, RecordingKeeps DEF SettleFunding, ApplyMark, Liquidate
<1>2. CASE CloseBar
  <2>1. now + BarLength[sym] \in Nat
    <3>1. sym \in Symbols
      BY DEF IndInv, TypeOK, sym
    <3>2. BarLength[sym] \in Nat
      BY <1>0, <3>1
    <3> HIDE DEF sym, now
    <3> QED BY <1>0, <3>2
  <2> QED BY <1>2, <2>1, RecordingKeeps DEF CloseBar
<1>3. CASE \/ \E b \in Bars : OpenBar(b)
           \/ \E c \in queue : CancelCandidate(c) \/ FillCandidate(c)
  <2>1. UNCHANGED curve /\ phase' = "bar"
    BY <1>3 DEF OpenBar, CancelCandidate, FillCandidate, IsNextCandidate, accountVars
  <2> QED BY <2>1 DEF CurveInv
<1>4. CASE \/ \E i \in pending : AcceptIntent(i) \/ RejectIntent(i)
           \/ StartEvents
           \/ NoEvent
           \/ \E m \in Marks : RefuseMark(m)
           \/ Finish
           \/ UNCHANGED vars
  <2>1. /\ UNCHANGED <<curve, cash, positions, lastPrices>>
        /\ phase' # "bar" => phase # "bar"
    BY <1>4 DEF AcceptIntent, RejectIntent, StartEvents, NoEvent, RefuseMark,
       AtEvent, Finish, accountVars, loopVars, vars
  <2> QED BY <2>1 DEF CurveInv
<1> QED BY <1>1, <1>2, <1>3, <1>4 DEF Next, Returned

LEMMA CurveCovers ==
    ASSUME IndInv, CurveInv
    PROVE  DrawdownCoversLoss
<1> SUFFICES ASSUME phase = "done" PROVE DrawdownCoversLoss
  BY DEF DrawdownCoversLoss
<1>1. PICK points, e : points = curve /\ e = EquityOf(cash, positions, lastPrices)
  OBVIOUS
<1>2. /\ e \in Int /\ InitialCash \in Nat \ {0} /\ Scale \in Nat \ {0}
      /\ points \in Seq(CurvePoint) /\ Recorded(points, e)
  <2>1. /\ cash \in Int /\ positions \in [Symbols -> PositionType]
        /\ lastPrices \in [Symbols -> Int \cup {None}]
    BY DEF IndInv, TypeOK, PositionType
  <2>2. e \in Int
    BY <1>1, <2>1, EquityType
  <2> QED BY <1>1, <2>2, RequestAssumption, ParametersAssumption DEF CurveInv
<1>3. PICK n \in Nat : n = Len(points)
  BY <1>2, LenProperties
<1>4. DOMAIN points = 1..n /\ \A i \in 1..n : points[i] \in CurvePoint
  BY <1>2, <1>3, LenProperties, ElementOfSeq
<1>5. PICK m : m = MaxDrawdown(points, InitialCash)
  OBVIOUS
<1>6. m \in Int /\ m >= 0 /\ (n > 0 => m >= Fall(points, InitialCash, points[n].at))
  BY <1>2, <1>4, <1>5, DrawdownBounds
<1>7. PICK w : w = Min({Scale, (Scale * (InitialCash - e)) \div InitialCash})
  OBVIOUS
<1>8. w \in Int /\ w <= (Scale * (InitialCash - e)) \div InitialCash
  <2>1. Scale \in Int /\ (Scale * (InitialCash - e)) \in Int
    BY <1>2
  <2>2. (Scale * (InitialCash - e)) \div InitialCash \in Int
    BY <1>2, <2>1, Division
  <2> QED BY <1>7, <2>1, <2>2, MinOfTwo
<1>9. m >= w
  <2>1. CASE n = 0
    <3>1. points = << >>
      BY <1>2, <1>3, <2>1, EmptySeq
    <3>2. e = InitialCash
      BY <1>2, <3>1 DEF Recorded
    <3>3. (Scale * (InitialCash - e)) \div InitialCash = 0
      BY <1>2, <3>2
    <3> QED BY <1>6, <1>8, <3>3
  <2>2. CASE n # 0
    <3>1. points # << >> /\ n \in 1..n
      BY <1>3, <2>2
    <3>2. points[n].equity = e
      BY <1>2, <1>3, <3>1 DEF Recorded
    <3>3. EquityAt(points, points[n].at) = e
      BY <1>4, <3>1, <3>2, EquityAtRecorded
    <3>4. PICK p : p = Peak(points, InitialCash, points[n].at)
      OBVIOUS
    <3>5. p \in Int /\ p >= InitialCash
      BY <1>2, <1>4, <3>4, PeakBounds
    <3>6. Fall(points, InitialCash, points[n].at) = (Scale * (p - e)) \div p
      BY <3>3, <3>4 DEF Fall
    <3>7. (Scale * (p - e)) \div p >= w
      BY <1>2, <1>7, <3>5, FallCoversLoss
    <3>8. m >= (Scale * (p - e)) \div p
      BY <1>6, <2>2, <3>6
    <3>9. (Scale * (p - e)) \div p \in Int
      <4>1. Scale * (p - e) \in Int /\ p \in Nat \ {0}
        BY <1>2, <3>5
      <4> QED BY <4>1, Division
    <3> HIDE DEF Fall
    <3> QED BY <1>6, <1>8, <3>7, <3>8, <3>9
  <2> QED BY <2>1, <2>2
<1> QED BY <1>1, <1>5, <1>7, <1>9 DEF DrawdownCoversLoss

(***************************************************************************)
(* For every request, the drawdown the analytics report is at least the    *)
(* part of the initial cash the run has lost, up to all of it.             *)
(***************************************************************************)
THEOREM DrawdownCovers == Spec => []DrawdownCoversLoss
<1>1. Init => CurveInv
  <2> SUFFICES ASSUME Init PROVE CurveInv
    OBVIOUS
  <2>1. /\ curve = << >> /\ cash = InitialCash
        /\ positions = [x \in Symbols |-> Flat]
        /\ lastPrices = [x \in Symbols |-> None]
    BY DEF Init
  <2>2. Unrealized(positions, lastPrices) = 0
    <3> DEFINE g == [s \in Symbols |-> positions[s].quantity
                        * (MarkOf(positions, lastPrices, s) - positions[s].average)]
    <3>1. \A s \in Symbols : g[s] = 0
      BY <2>1 DEF Flat, MarkOf
    <3>2. Unrealized(positions, lastPrices) = Scale * SumOverSymbols(g)
      BY DEF Unrealized
    <3> HIDE DEF g
    <3>3. SumOverSymbols(g) = 0
      BY <3>1, SumOfZeros
    <3> QED BY <3>2, <3>3, ParametersAssumption
  <2>3. EquityOf(cash, positions, lastPrices) = InitialCash
    BY <2>1, <2>2, RequestAssumption DEF EquityOf
  <2> QED BY <2>1, <2>3 DEF CurveInv, Recorded
<1>2. IndInv /\ IndInv' /\ CurveInv /\ [Next]_vars => CurveInv'
  BY NextCurve
<1>3. IndInv /\ CurveInv => DrawdownCoversLoss
  BY CurveCovers
<1> QED BY <1>1, <1>2, <1>3, Invariance, PTL DEF Spec
-----------------------------------------------------------------------------
(***************************************************************************)
(* The time in market.  A moment is spanned when a trade or an open        *)
(* position covers it; a fill changes what is spanned from its own time    *)
(* on, and there all depends on whether anything is held afterwards.       *)
(***************************************************************************)
Spans(log, t) ==
    \/ \E i \in DOMAIN log.trades : log.trades[i].entry <= t /\ t < log.trades[i].exit
    \/ \E x \in Symbols : log.open[x].since # None /\ log.open[x].since <= t

Spanned(log, start, end) == {t \in start..end - 1 : Spans(log, t)}

NotAfter(log, last) ==
    /\ \A i \in DOMAIN log.trades : log.trades[i].exit <= last
    /\ \A x \in Symbols : log.open[x].since # None => log.open[x].since <= last

Holds(log) == \E x \in Symbols : log.open[x].quantity # 0

LEMMA BookedSpans ==
    ASSUME NEW log, NEW held, LogOf(log, held),
           NEW f \in Fill, f.quantity > 0, NotAfter(log, f.at),
           NEW new, new = Booked(log, f), NEW then, LogOf(new, then)
    PROVE  /\ NotAfter(new, f.at)
           /\ \A t \in Int : t < f.at => (Spans(new, t) <=> Spans(log, t))
           /\ \A t \in Int : t >= f.at => (Spans(new, t) <=> Holds(new))
<1> DEFINE s == f.symbol
           p == log.open[s]
<1>1. s \in Symbols /\ f.at \in Nat /\ f.at # None /\ f.side \in Sides
  BY ParametersAssumption DEF Fill
<1>2. /\ log.open \in [Symbols -> OpenPosition] /\ log.trades \in Seq(Trade)
      /\ new.open \in [Symbols -> OpenPosition] /\ new.trades \in Seq(Trade)
      /\ p \in OpenPosition /\ (p.quantity # 0 => p.since # None)
      /\ log = [open |-> log.open, trades |-> log.trades]
  BY <1>1 DEF LogOf, Follows
<1>3. PICK n \in Nat : n = Len(log.trades) /\ DOMAIN log.trades = 1..n
  BY <1>2, LenProperties
<1>4. \A i \in 1..n : log.trades[i].entry \in Nat /\ log.trades[i].exit \in Nat
  <2>1. \A i \in 1..n : log.trades[i] \in Trade
    BY <1>2, <1>3, ElementOfSeq
  <2> QED BY <2>1 DEF Trade
<1>5. \A x \in Symbols : /\ log.open[x].since \in Nat \cup {None}
                         /\ new.open[x].since \in Nat \cup {None}
                         /\ (new.open[x].since # None <=> new.open[x].quantity # 0)
  BY <1>2 DEF OpenPosition, LogOf, Follows
<1>6. \/ /\ new.trades = log.trades
         /\ new.open = [log.open EXCEPT ![s] = Grown(p, f)]
      \/ /\ new.trades = Append(log.trades, TradeOf(p, f))
         /\ new.open = [log.open EXCEPT ![s] = Reduced(p, f)]
         /\ p.quantity # 0
  <2>1. CASE p.quantity = 0 \/ p.quantity * f.side > 0
    <3>1. new = [log EXCEPT !.open[s] = Grown(p, f)]
      BY <2>1 DEF Booked
    <3> HIDE DEF p
    <3> QED BY <1>2, <3>1
  <2>2. CASE ~(p.quantity = 0 \/ p.quantity * f.side > 0)
    BY <2>2 DEF Booked
  <2> QED BY <2>1, <2>2
<1> DEFINE g == new.open[s]
           Kept == \A x \in Symbols \ {s} : new.open[x] = log.open[x]
<1>7. CASE /\ new.trades = log.trades
           /\ new.open = [log.open EXCEPT ![s] = Grown(p, f)]
  <2>1. Kept /\ g.since = IF p.since = None THEN f.at ELSE p.since
    <3>1. Kept /\ g = Grown(p, f)
      BY <1>1, <1>2, <1>7
    <3>2. Grown(p, f).since = IF p.since = None THEN f.at ELSE p.since
      BY DEF Grown
    <3> HIDE DEF Kept, g, p
    <3> QED BY <3>1, <3>2
  <2>2. NotAfter(new, f.at)
    <3>1. \A i \in DOMAIN new.trades : new.trades[i].exit <= f.at
      BY <1>7 DEF NotAfter
    <3>2. \A x \in Symbols \ {s} : new.open[x].since # None => new.open[x].since <= f.at
      BY <2>1 DEF NotAfter
    <3>3. g.since # None => g.since <= f.at
      BY <1>1, <2>1 DEF NotAfter
    <3> HIDE DEF g
    <3> QED BY <3>1, <3>2, <3>3 DEF NotAfter, g
  <2>3. ASSUME NEW t \in Int, t < f.at PROVE Spans(new, t) <=> Spans(log, t)
    <3>1. (g.since # None /\ g.since <= t) <=> (p.since # None /\ p.since <= t)
      BY <1>1, <2>1, <2>3
    <3> QED BY <1>1, <1>7, <2>1, <3>1 DEF Spans
  <2>4. ASSUME NEW t \in Int, t >= f.at PROVE Spans(new, t) <=> Holds(new)
    <3>1. \A i \in DOMAIN new.trades : ~(t < new.trades[i].exit)
      <4>1. ASSUME NEW i \in DOMAIN log.trades PROVE ~(t < log.trades[i].exit)
        <5>1. log.trades[i].exit <= f.at /\ log.trades[i].exit \in Nat
          BY <1>3, <1>4 DEF NotAfter
        <5> QED BY <1>1, <2>4, <5>1
      <4> QED BY <1>7, <4>1
    <3>2. \A x \in Symbols : new.open[x].since # None => new.open[x].since <= t
      BY <1>1, <1>5, <2>2, <2>4 DEF NotAfter
    <3> QED BY <1>5, <3>1, <3>2 DEF Spans, Holds
  <2> QED BY <2>2, <2>3, <2>4
<1>8. CASE /\ new.trades = Append(log.trades, TradeOf(p, f))
           /\ new.open = [log.open EXCEPT ![s] = Reduced(p, f)]
           /\ p.quantity # 0
  <2> DEFINE b == TradeOf(p, f)
  <2>1. p.since \in Nat /\ p.since # None /\ p.since <= f.at
    BY <1>1, <1>2, <1>5, <1>8 DEF NotAfter
  <2>2. b.entry = p.since /\ b.exit = f.at
    BY <2>1 DEF TradeOf
  <2>3. Kept /\ g.since \in {None, f.at, p.since}
    <3>1. Kept /\ g = Reduced(p, f)
      BY <1>1, <1>2, <1>8
    <3>2. Reduced(p, f).since \in {None, f.at, p.since}
      BY <1>2 DEF Reduced, NoPosition, OpenPosition
    <3> QED BY <3>1, <3>2
  <2>4. /\ DOMAIN new.trades = 1..(n + 1) /\ new.trades[n + 1] = b
        /\ \A i \in 1..n : new.trades[i] = log.trades[i]
    <3>1. Len(new.trades) = n + 1
      BY <1>2, <1>3, <1>8, LenProperties, AppendProperties
    <3>2. DOMAIN new.trades = 1..(n + 1)
      BY <1>2, <3>1, LenProperties
    <3> HIDE DEF b, g, Kept
    <3> QED BY <1>2, <1>3, <1>8, <3>2 DEF b
  <2> HIDE DEF b
  <2>5. NotAfter(new, f.at)
    <3>1. \A i \in DOMAIN new.trades : new.trades[i].exit <= f.at
      BY <1>1, <1>3, <2>2, <2>4 DEF NotAfter
    <3>2. \A x \in Symbols \ {s} : new.open[x].since # None => new.open[x].since <= f.at
      BY <2>3 DEF NotAfter
    <3>3. g.since # None => g.since <= f.at
      BY <1>1, <2>1, <2>3
    <3> HIDE DEF g
    <3> QED BY <3>1, <3>2, <3>3 DEF NotAfter, g
  <2>6. ASSUME NEW t \in Int, t < f.at PROVE Spans(new, t) <=> Spans(log, t)
    <3>1. (b.entry <= t /\ t < b.exit) <=> p.since <= t
      BY <2>2, <2>6
    <3>2. g.since # None /\ g.since <= t => p.since <= t
      BY <1>1, <2>1, <2>3, <2>6
    <3>3. Spans(new, t) => Spans(log, t)
      <4>1. ASSUME NEW i \in DOMAIN new.trades,
                   new.trades[i].entry <= t /\ t < new.trades[i].exit
            PROVE  Spans(log, t)
        <5>1. CASE i = n + 1
          BY <1>1, <2>1, <2>4, <3>1, <4>1, <5>1 DEF Spans
        <5>2. CASE i # n + 1
          <6>1. i \in 1..n
            BY <2>4, <5>2
          <6> QED BY <1>3, <2>4, <4>1, <6>1 DEF Spans
        <5> QED BY <5>1, <5>2
      <4>2. ASSUME NEW x \in Symbols, new.open[x].since # None /\ new.open[x].since <= t
            PROVE  Spans(log, t)
        BY <1>1, <2>1, <2>3, <3>2, <4>2 DEF Spans
      <4> QED BY <4>1, <4>2 DEF Spans
    <3>4. Spans(log, t) => Spans(new, t)
      <4>1. ASSUME NEW i \in DOMAIN log.trades,
                   log.trades[i].entry <= t /\ t < log.trades[i].exit
            PROVE  Spans(new, t)
        <5>1. i \in 1..(n + 1) /\ i \in 1..n
          BY <1>3
        <5> QED BY <2>4, <4>1, <5>1 DEF Spans
      <4>2. ASSUME NEW x \in Symbols, log.open[x].since # None /\ log.open[x].since <= t
            PROVE  Spans(new, t)
        <5>1. CASE x = s
          <6>1. n + 1 \in 1..(n + 1)
            OBVIOUS
          <6> QED BY <2>4, <3>1, <4>2, <5>1, <6>1 DEF Spans
        <5>2. CASE x # s
          <6>1. new.open[x] = log.open[x]
            BY <2>3, <5>2
          <6> QED BY <4>2, <6>1 DEF Spans
        <5> QED BY <5>1, <5>2
      <4> QED BY <4>1, <4>2 DEF Spans
    <3> QED BY <3>3, <3>4
  <2>7. ASSUME NEW t \in Int, t >= f.at PROVE Spans(new, t) <=> Holds(new)
    <3>1. \A i \in DOMAIN new.trades : ~(t < new.trades[i].exit)
      <4>1. ASSUME NEW i \in 1..n PROVE ~(t < new.trades[i].exit)
        <5>1. log.trades[i].exit <= f.at /\ log.trades[i].exit \in Nat
          BY <1>3, <1>4 DEF NotAfter
        <5>2. new.trades[i] = log.trades[i]
          BY <2>4
        <5> QED BY <1>1, <2>7, <5>1, <5>2
      <4>2. ~(t < new.trades[n + 1].exit)
        BY <1>1, <2>2, <2>4, <2>7
      <4>3. n \in Nat /\ \A i \in 1..(n + 1) : i \in 1..n \/ i = n + 1
        BY <1>3
      <4> QED BY <2>4, <4>1, <4>2, <4>3
    <3>2. \A x \in Symbols : new.open[x].since # None => new.open[x].since <= t
      BY <1>1, <1>5, <2>5, <2>7 DEF NotAfter
    <3> QED BY <1>5, <3>1, <3>2 DEF Spans, Holds
  <2> QED BY <2>5, <2>6, <2>7
<1> QED BY <1>6, <1>7, <1>8

LEMMA FromZero == ASSUME NEW n \in Nat PROVE IsFiniteSet(0..n)
BY FS_Interval

\* e has one fill more than the n fills d.
Extended(d, e, n, f) ==
    /\ n \in Nat /\ f \in Fill
    /\ Len(d) = n /\ DOMAIN d = 1..n
    /\ Len(e) = n + 1 /\ DOMAIN e = 1..(n + 1)
    /\ \A i \in 1..n : e[i] = d[i] /\ d[i] \in Fill
    /\ e[n + 1] = f

(***************************************************************************)
(* One fill more adds to the exposure what follows it, if anything is held *)
(* then; the exposure up to it is that of the fills before.                *)
(***************************************************************************)
LEMMA ExposureGrows ==
    ASSUME NEW n, NEW d, NEW e, NEW f, Extended(d, e, n, f),
           NEW start \in Int, NEW end \in Int
    PROVE  /\ ExposureTime(d, start, f.at) \in Int
           /\ ExposureTime(e, start, end)
                = ExposureTime(d, start, f.at)
                    + IF InMarket(e, n + 1) THEN end - f.at ELSE 0
<1> DEFINE a == f.at
           H == {k \in 0..n : InMarket(d, k)}
           G == {k \in 0..(n + 1) : InMarket(e, k)}
           wd(k) == (IF k = n THEN a ELSE d[k + 1].at) - (IF k = 0 THEN start ELSE d[k].at)
           we(k) == (IF k = n + 1 THEN end ELSE e[k + 1].at)
                      - (IF k = 0 THEN start ELSE e[k].at)
           before == [k \in H |-> wd(k)]
           after == [k \in G |-> we(k)]
<1>0. /\ n \in Nat /\ Len(d) = n /\ Len(e) = n + 1
      /\ \A i \in 1..(n + 1) : e[i] \in Fill
      /\ \A i \in 1..n : e[i] = d[i]
      /\ e[n + 1].at = a
  <2>1. \A i \in 1..(n + 1) : i \in 1..n \/ i = n + 1
    BY DEF Extended
  <2> QED BY <2>1 DEF Extended
<1> USE <1>0
<1>1. ASSUME NEW k \in 0..n PROVE InMarket(e, k) <=> InMarket(d, k)
  <2>1. ASSUME NEW s \in Symbols PROVE Held(e, k)[s] = Held(d, k)[s]
    <3>1. \A i \in 1..k : e[i] = d[i]
      OBVIOUS
    <3>2. [i \in 1..k |-> e[i].side * e[i].quantity] = [i \in 1..k |-> d[i].side * d[i].quantity]
      BY <3>1
    <3>3. {i \in 1..k : e[i].symbol = s} = {i \in 1..k : d[i].symbol = s}
      BY <3>1
    <3> QED BY <3>2, <3>3 DEF Held
  <2> QED BY <2>1 DEF InMarket
<1>2. \A i \in 1..(n + 1) : e[i].at \in Nat
  BY DEF Fill
<1>3. \A k \in 0..n : we(k) = wd(k) /\ we(k) \in Int
  <2>1. ASSUME NEW k \in 0..n PROVE we(k) = wd(k) /\ we(k) \in Int
    <3>1. k # n + 1 /\ k + 1 \in 1..(n + 1) /\ (k # 0 => k \in 1..(n + 1) /\ k \in 1..n)
          /\ (k # n => k + 1 \in 1..n) /\ (k = n => k + 1 = n + 1)
      OBVIOUS
    <3>2. e[k + 1].at = IF k = n THEN a ELSE d[k + 1].at
      BY <3>1
    <3>3. k # 0 => e[k].at = d[k].at
      BY <3>1
    <3>4. e[k + 1].at \in Int /\ (k # 0 => e[k].at \in Int)
      BY <1>2, <3>1
    <3> HIDE DEF a
    <3> QED BY <3>1, <3>2, <3>3, <3>4
  <2> QED BY <2>1
<1>4. we(n + 1) = end - a /\ we(n + 1) \in Int
  <2>1. a \in Int /\ n + 1 # 0
    BY <1>2
  <2> QED BY <2>1
<1>5. G = IF InMarket(e, n + 1) THEN H \cup {n + 1} ELSE H
  <2>1. \A k : k \in 0..(n + 1) <=> k \in 0..n \/ k = n + 1
    OBVIOUS
  <2>2. n + 1 \notin 0..n
    OBVIOUS
  <2> QED BY <1>1, <2>1, <2>2
<1>6. IsFiniteSet(H) /\ n + 1 \notin H
  <2>1. H \subseteq 0..n /\ n + 1 \notin 0..n
    OBVIOUS
  <2> HIDE DEF H, G, wd, we, before, after, a
  <2>2. IsFiniteSet(0..n)
    BY FromZero
  <2> QED BY <2>1, <2>2, FS_Subset
<1>7. ExposureTime(d, start, a) = SumFunctionOnSet(before, H)
  BY DEF ExposureTime
<1>8. ExposureTime(e, start, end) = SumFunctionOnSet(after, G)
  BY DEF ExposureTime
<1>9. \A k \in H : before[k] \in Int /\ after[k] = before[k]
  <2> HIDE DEF wd, we
  <2>1. H \subseteq G /\ H \subseteq 0..n
    BY <1>5
  <2> QED BY <1>3, <2>1
<1>10. InMarket(e, n + 1) => after[n + 1] = end - a /\ after[n + 1] \in Int
  <2> HIDE DEF we, H
  <2>1. InMarket(e, n + 1) => n + 1 \in G
    BY <1>5
  <2> QED BY <1>4, <2>1
<1> HIDE DEF H, G, before, after
<1>11. SumFunctionOnSet(before, H) \in Int
  BY <1>6, <1>9, SumType
<1>12. SumFunctionOnSet(after, H) = SumFunctionOnSet(before, H)
  BY <1>6, <1>9, SumCongruence
<1>13. InMarket(e, n + 1) =>
         SumFunctionOnSet(after, H \cup {n + 1}) = SumFunctionOnSet(after, H) + after[n + 1]
  <2> SUFFICES ASSUME InMarket(e, n + 1)
               PROVE  SumFunctionOnSet(after, H \cup {n + 1})
                        = SumFunctionOnSet(after, H) + after[n + 1]
    OBVIOUS
  <2>1. PICK m : m = n + 1
    OBVIOUS
  <2>2. m \notin H /\ \A k \in H \cup {m} : after[k] \in Int
    BY <1>6, <1>9, <1>10, <2>1
  <2>3. SumFunctionOnSet(after, H \cup {m}) = SumFunctionOnSet(after, H) + after[m]
    BY <1>6, <2>2, SumAdd
  <2> QED BY <2>1, <2>3
<1>14. ExposureTime(e, start, end)
         = SumFunctionOnSet(before, H) + IF InMarket(e, n + 1) THEN end - a ELSE 0
  <2> HIDE DEF a
  <2>1. CASE InMarket(e, n + 1)
    BY <1>5, <1>8, <1>10, <1>12, <1>13, <2>1
  <2>2. CASE ~InMarket(e, n + 1)
    BY <1>5, <1>8, <1>11, <1>12, <2>2
  <2> QED BY <2>1, <2>2
<1> QED BY <1>7, <1>11, <1>14

LEMMA IntervalCount ==
    ASSUME NEW a \in Int, NEW b \in Int, a <= b
    PROVE  IsFiniteSet(a..b - 1) /\ Cardinality(a..b - 1) = b - a
<1>1. PICK c \in Int : c = b - 1
  OBVIOUS
<1>2. IsFiniteSet(a..c) /\ Cardinality(a..c) = IF a > c THEN 0 ELSE c - a + 1
  BY FS_Interval
<1> QED BY <1>1, <1>2

\* The moments spanned grow by as much.
LEMMA SpannedGrows ==
    ASSUME NEW log, NEW new, NEW start \in Int, NEW a \in Int, NEW end \in Int,
           start <= a, a <= end,
           \A t \in Int : t < a => (Spans(new, t) <=> Spans(log, t)),
           \A t \in Int : t >= a => (Spans(new, t) <=> Holds(new))
    PROVE  /\ Cardinality(Spanned(log, start, a)) \in Int
           /\ Cardinality(Spanned(new, start, end))
                = Cardinality(Spanned(log, start, a)) + IF Holds(new) THEN end - a ELSE 0
<1> DEFINE S == Spanned(log, start, a)
           T == a..end - 1
<1> SUFFICES /\ Cardinality(S) \in Int
             /\ Cardinality(Spanned(new, start, end))
                  = Cardinality(S) + IF Holds(new) THEN end - a ELSE 0
  OBVIOUS
<1>1. IsFiniteSet(S) /\ Cardinality(S) \in Int
  <2>1. IsFiniteSet(start..a - 1)
    BY FS_Interval
  <2>2. IsFiniteSet(S)
    BY <2>1, FS_Subset DEF Spanned
  <2> QED BY <2>2, FS_CardinalityType
<1>2. IsFiniteSet(T) /\ Cardinality(T) = end - a
  BY IntervalCount
<1>3. S \cap T = {} /\ Cardinality({}) = 0
  BY FS_EmptySet DEF Spanned
<1>4. CASE Holds(new)
  <2>1. Spanned(new, start, end) = S \cup T
    <3>1. \A t \in start..end - 1 : Spans(new, t) <=> t \in S \/ t \in T
      BY <1>4 DEF Spanned
    <3>2. S \subseteq start..end - 1 /\ T \subseteq start..end - 1
      BY DEF Spanned
    <3> HIDE DEF S, T
    <3> QED BY <3>1, <3>2 DEF Spanned
  <2> HIDE DEF S, T
  <2>2. Cardinality(S \cup T) = Cardinality(S) + Cardinality(T) - Cardinality(S \cap T)
    BY <1>1, <1>2, FS_Union
  <2>3. Cardinality(S \cup T) = Cardinality(S) + (end - a)
    BY <1>1, <1>2, <1>3, <2>2
  <2> QED BY <1>1, <1>4, <2>1, <2>3
<1>5. CASE ~Holds(new)
  <2>1. Spanned(new, start, end) = S
    <3>1. \A t \in start..end - 1 : Spans(new, t) <=> t \in S
      BY <1>5 DEF Spanned
    <3>2. S \subseteq start..end - 1
      BY DEF Spanned
    <3> HIDE DEF S, T
    <3> QED BY <3>1, <3>2 DEF Spanned
  <2> HIDE DEF S
  <2> QED BY <1>1, <1>5, <2>1
<1> QED BY <1>4, <1>5, <1>1

(***************************************************************************)
(* The invariant behind ExposureCoversTrades: whatever window contains the *)
(* fills so far, their exposure is the time that the trades and positions  *)
(* rebuilt from them span; and the fills are stamped in order, each at the *)
(* open of a candle of its symbol.                                         *)
(***************************************************************************)
Within(d, start, end) == \A i \in DOMAIN d : start <= d[i].at /\ d[i].at <= end

ExposureOk(d, log) ==
    /\ \A last \in Nat : Within(d, 0, last) => NotAfter(log, last)
    /\ \A start, end \in Nat :
          Within(d, start, end) =>
             ExposureTime(d, start, end) = Cardinality(Spanned(log, start, end))

ExposureInv == ExposureOk(fills, Reconstruct(fills))

TimesInv ==
    /\ phase = "bar" => CandleOpens /\ now < Horizon
    /\ \A i \in DOMAIN fills :
          fills[i].at <= now /\ fills[i].at \in Opens(fills[i].symbol)

LEMMA NotAfterLater ==
    ASSUME NEW log, NEW held, LogOf(log, held), NEW a \in Nat, NotAfter(log, a),
           NEW b \in Nat, a <= b
    PROVE  NotAfter(log, b)
<1>1. \A i \in DOMAIN log.trades : log.trades[i].exit \in Nat
  <2>1. \A i \in DOMAIN log.trades : log.trades[i] \in Trade
    BY LenProperties, ElementOfSeq DEF LogOf
  <2> QED BY <2>1 DEF Trade
<1>2. \A x \in Symbols : log.open[x].since \in Nat \cup {None}
  BY DEF LogOf, OpenPosition
<1>3. ASSUME NEW i \in DOMAIN log.trades PROVE log.trades[i].exit <= b
  <2>1. log.trades[i].exit <= a /\ log.trades[i].exit \in Nat
    BY <1>1 DEF NotAfter
  <2> QED BY <2>1
<1>4. ASSUME NEW x \in Symbols, log.open[x].since # None PROVE log.open[x].since <= b
  <2>1. log.open[x].since <= a /\ log.open[x].since \in Nat
    BY <1>2, <1>4 DEF NotAfter
  <2> QED BY <2>1
<1> QED BY <1>3, <1>4 DEF NotAfter

LEMMA BookedExposed ==
    ASSUME NEW n, NEW d, NEW e, NEW f, Extended(d, e, n, f),
           f.quantity > 0, Within(d, 0, f.at),
           NEW log, NEW held, LogOf(log, held), ExposureOk(d, log),
           NEW then, LogOf(Booked(log, f), then),
           InMarket(e, n + 1) <=> Holds(Booked(log, f))
    PROVE  ExposureOk(e, Booked(log, f))
<1>0. PICK a, new : a = f.at /\ new = Booked(log, f)
  OBVIOUS
<1>1. /\ a \in Nat /\ f \in Fill /\ n \in Nat
      /\ DOMAIN d = 1..n /\ DOMAIN e = 1..(n + 1) /\ e[n + 1] = f
      /\ \A i \in 1..n : e[i] = d[i]
  BY <1>0 DEF Extended, Fill
<1>2. NotAfter(log, a)
  BY <1>0, <1>1 DEF ExposureOk
<1>3. /\ NotAfter(new, a)
      /\ \A t \in Int : t < a => (Spans(new, t) <=> Spans(log, t))
      /\ \A t \in Int : t >= a => (Spans(new, t) <=> Holds(new))
  BY <1>0, <1>1, <1>2, BookedSpans
<1>4. ASSUME NEW last \in Nat, Within(e, 0, last) PROVE NotAfter(new, last)
  <2>1. a <= last
    BY <1>0, <1>1, <1>4 DEF Within
  <2> QED BY <1>0, <1>1, <1>3, <2>1, NotAfterLater
<1>5. ASSUME NEW start \in Nat, NEW end \in Nat, Within(e, start, end)
      PROVE  ExposureTime(e, start, end) = Cardinality(Spanned(new, start, end))
  <2>1. start <= a /\ a <= end
    BY <1>0, <1>1, <1>5 DEF Within
  <2>2. Within(d, start, a)
    <3>1. ASSUME NEW i \in 1..n PROVE start <= d[i].at
      BY <1>1, <1>5, <3>1 DEF Within
    <3> QED BY <1>0, <1>1, <3>1 DEF Within
  <2>3. ExposureTime(d, start, a) = Cardinality(Spanned(log, start, a))
    BY <1>1, <2>2 DEF ExposureOk
  <2>4. /\ ExposureTime(d, start, a) \in Int
        /\ ExposureTime(e, start, end)
             = ExposureTime(d, start, a) + IF InMarket(e, n + 1) THEN end - a ELSE 0
    <3>1. start \in Int /\ end \in Int
      OBVIOUS
    <3> QED BY <1>0, <3>1, ExposureGrows
  <2>5. Cardinality(Spanned(new, start, end))
          = Cardinality(Spanned(log, start, a)) + IF Holds(new) THEN end - a ELSE 0
    <3>1. start \in Int /\ end \in Int /\ a \in Int
      BY <1>1
    <3> QED BY <1>3, <2>1, <3>1, SpannedGrows
  <2> QED BY <1>0, <2>3, <2>4, <2>5
<1>6. ExposureOk(e, new)
  BY <1>4, <1>5 DEF ExposureOk
<1> QED BY <1>0, <1>6

LEMMA ExecuteExposed ==
    ASSUME IndInv, AnalyticsInv, AnalyticsInv', QuantitiesReconcile', ExposureInv, TimesInv,
           NEW f, Appends(f), f.quantity > 0, f.at = now
    PROVE  ExposureInv'
<1>1. PICK d, e, log, new, held, then :
         /\ d = fills /\ e = fills' /\ held = positions /\ then = positions'
         /\ log = Reconstruct(d) /\ new = Reconstruct(e)
  OBVIOUS
<1>2. PICK n : n = Len(d) /\ Extended(d, e, n, f)
  <2>1. /\ Len(fills) \in Nat /\ f \in Fill
        /\ \A k \in 1..Len(fills) : fills'[k] = fills[k] /\ fills[k] \in Fill
        /\ fills'[Len(fills) + 1] = f /\ fills' = Append(fills, f)
        /\ DOMAIN fills = 1..Len(fills) /\ DOMAIN fills' = 1..(Len(fills) + 1)
    BY DEF Appends
  <2>2. fills \in Seq(Fill)
    BY DEF IndInv, TypeOK
  <2>3. Len(fills') = Len(fills) + 1
    BY <2>1, <2>2
  <2> QED BY <1>1, <2>1, <2>3 DEF Extended
<1>3. new = Booked(log, f)
  <2>1. Reconstruct(e) = Booked(Reconstruct(d), f)
    BY <1>2, ReconstructAppended DEF Extended
  <2> QED BY <1>1, <2>1
<1>4. Within(d, 0, f.at)
  <2>1. \A i \in DOMAIN d : d[i].at <= f.at
    BY <1>1 DEF TimesInv
  <2>2. \A i \in DOMAIN d : d[i].at \in Nat
    BY <1>2 DEF Extended, Fill
  <2> QED BY <2>1, <2>2 DEF Within
<1>5. LogOf(log, held) /\ LogOf(new, then) /\ ExposureOk(d, log)
  BY <1>1 DEF AnalyticsInv, Explained, ExposureInv
<1>6. InMarket(e, n + 1) <=> Holds(new)
  <2>1. ASSUME NEW x \in Symbols PROVE Held(e, n + 1)[x] = new.open[x].quantity
    <3>1. then[x].quantity =
             SumFunctionOnSet([i \in DOMAIN e |-> e[i].side * e[i].quantity],
                              {i \in DOMAIN e : e[i].symbol = x})
      BY <1>1 DEF QuantitiesReconcile
    <3>2. new.open[x].quantity = then[x].quantity
      BY <1>5 DEF LogOf, Follows
    <3>3. DOMAIN e = 1..(n + 1)
      BY <1>2 DEF Extended
    <3> QED BY <3>1, <3>2, <3>3 DEF Held
  <2> QED BY <2>1 DEF InMarket, Holds
<1>7. ExposureOk(e, new)
  BY <1>2, <1>3, <1>4, <1>5, <1>6, BookedExposed
<1> QED BY <1>1, <1>7 DEF ExposureInv

LEMMA ClockAdvances ==
    ASSUME IndInv, event' = NextEvent \/ event' = event
    PROVE  now <= now' /\ now \in Nat /\ now' \in Nat
<1>1. now \in Nat /\ event \in [time : Nat, priority : {FUNDING, MARK, BAR}, symbol : Symbols]
  BY DEF IndInv, TypeOK, now
<1>2. NextEvent.time \in {now, now + 1}
  BY <1>1 DEF NextEvent, now
<1> QED BY <1>1, <1>2 DEF now

LEMMA NextTimes ==
    ASSUME IndInv, TimesInv, [Next]_vars
    PROVE  TimesInv'
<1>0. fills \in Seq(Fill) /\ \A i \in DOMAIN fills : fills[i] \in Fill
  BY ElementOfSeq, LenProperties DEF IndInv, TypeOK
<1> DEFINE Bar == phase = "bar" => CandleOpens /\ now < Horizon
           Stamped(g) == g.at <= now /\ g.at \in Opens(g.symbol)
<1>1. TimesInv <=> Bar /\ \A i \in DOMAIN fills : Stamped(fills[i])
  BY DEF TimesInv
<1>2. ASSUME event' = NextEvent \/ event' = event, NEW g \in Fill, Stamped(g)
      PROVE  Stamped(g)'
  <2>1. now <= now' /\ now \in Nat /\ now' \in Nat /\ g.at \in Nat
    BY <1>2, ClockAdvances DEF Fill
  <2> HIDE DEF now
  <2> QED BY <1>2, <2>1 DEF Opens
<1>3. CASE Idle
  <2>1. UNCHANGED fills /\ (event' = NextEvent \/ event' = event)
    BY <1>3 DEF Idle, vars, loopVars
  <2>2. Bar'
    BY <1>1, <1>3 DEF Idle, vars, loopVars, CandleOpens, now, sym
  <2> HIDE DEF Bar, Stamped
  <2>3. \A i \in DOMAIN fills : Stamped(fills[i])'
    BY <1>0, <1>1, <1>2, <2>1
  <2> USE DEF Bar, Stamped
  <2> QED BY <2>1, <2>2, <2>3 DEF TimesInv
<1>4. CASE \/ \E i \in pending : AcceptIntent(i)
           \/ \E b \in Bars : OpenBar(b)
           \/ \E c \in queue : CancelCandidate(c)
  <2>1. UNCHANGED <<fills, event>>
    BY <1>4 DEF AcceptIntent, OpenBar, CancelCandidate, loopVars, accountVars
  <2>2. phase' = "bar" => CandleOpens /\ now < Horizon
    BY <1>1, <1>4 DEF AcceptIntent, OpenBar, AtEvent, CancelCandidate, loopVars
  <2> QED BY <1>1, <2>1, <2>2 DEF TimesInv, CandleOpens, now, sym
<1>5. ASSUME NEW f, Appends(f), event' = NextEvent \/ event' = event,
             f.at = now, f.symbol = sym, CandleOpens, now < Horizon, Bar'
      PROVE  TimesInv'
  <2>1. f \in Fill /\ f.at \in Nat
    BY <1>5 DEF Appends, Fill
  <2>2. Stamped(f)
    BY <1>5, <2>1 DEF CandleOpens, Opens
  <2> HIDE DEF Bar, Stamped
  <2>3. \A i \in DOMAIN fills' : fills'[i] = f \/ (i \in DOMAIN fills /\ fills'[i] = fills[i])
    BY <1>5 DEF Appends
  <2>4. ASSUME NEW i \in DOMAIN fills' PROVE Stamped(fills[i])'
    <3>1. PICK g : g = fills'[i]
      OBVIOUS
    <3>2. g \in Fill /\ Stamped(g)
      BY <1>0, <1>1, <2>1, <2>2, <2>3, <3>1
    <3>3. Stamped(g)'
      BY <1>2, <1>5, <3>2
    <3> USE DEF Stamped
    <3> QED BY <3>1, <3>3
  <2> USE DEF Bar, Stamped
  <2> QED BY <1>5, <2>4 DEF TimesInv
<1>6. ASSUME NEW m \in Marks, Liquidate(m) PROVE TimesInv'
  <2>0. PICK f : f = LiquidationRecord(m)
    OBVIOUS
  <2>1. Appends(f) /\ event' = NextEvent /\ UNCHANGED phase /\ phase = "events"
    BY <1>6, <2>0, LiquidateStep
  <2>2. f.at = now /\ f.symbol = sym /\ CandleOpens /\ now < Horizon
    BY <1>6, <2>0 DEF Liquidate, AtEvent, LiquidationRecord
  <2>3. Bar'
    BY <2>1
  <2> QED BY <1>5, <2>1, <2>2, <2>3
<1>7. ASSUME NEW c \in queue, FillCandidate(c) PROVE TimesInv'
  <2>0. PICK f : f = FillRecord(c)
    OBVIOUS
  <2>1. Appends(f) /\ UNCHANGED <<event, phase>> /\ phase = "bar"
    BY <1>7, <2>0, FillStep
  <2>2. f.at = now /\ f.symbol = sym
    BY <2>0 DEF FillRecord
  <2>3. CandleOpens /\ now < Horizon
    BY <1>1, <2>1
  <2>4. Bar'
    BY <2>1, <2>3 DEF CandleOpens, now, sym
  <2> QED BY <1>5, <2>1, <2>2, <2>3, <2>4
<1> QED BY <1>3, <1>4, <1>6, <1>7, Steps

LEMMA NextExposure ==
    ASSUME IndInv, AnalyticsInv, AnalyticsInv', QuantitiesReconcile', ExposureInv, TimesInv,
           [Next]_vars
    PROVE  ExposureInv'
<1>1. ASSUME NEW m \in Marks, Liquidate(m) PROVE ExposureInv'
  <2>0. PICK f : f = LiquidationRecord(m)
    OBVIOUS
  <2>1. Appends(f) /\ positions[sym].quantity # 0
    BY <1>1, <2>0, LiquidateStep
  <2>2. f.at = now /\ f.quantity = Abs(positions[sym].quantity)
    BY <2>0 DEF LiquidationRecord
  <2>3. f.quantity > 0
    <3>1. positions[sym].quantity \in Int
      BY DEF IndInv, TypeOK, sym
    <3> QED BY <2>1, <2>2, <3>1 DEF Abs
  <2> QED BY <2>1, <2>2, <2>3, ExecuteExposed
<1>2. ASSUME NEW c \in queue, FillCandidate(c) PROVE ExposureInv'
  <2>0. PICK f : f = FillRecord(c)
    OBVIOUS
  <2>1. Appends(f)
    BY <1>2, <2>0, FillStep
  <2>2. f.at = now /\ f.quantity = FillQuantity(c)
    BY <2>0 DEF FillRecord
  <2>3. f.quantity > 0
    <3>1. FillQuantity(c) \in Nat \ {0}
      BY <1>2, FillQuantityBounds
         DEF FillCandidate, IsNextCandidate, Executable, IndInv
    <3> QED BY <2>2, <3>1
  <2> QED BY <2>1, <2>2, <2>3, ExecuteExposed
<1>3. CASE UNCHANGED fills
  BY <1>3 DEF ExposureInv
<1>4. CASE \/ Idle
           \/ \E i \in pending : AcceptIntent(i)
           \/ \E b \in Bars : OpenBar(b)
           \/ \E c \in queue : CancelCandidate(c)
  BY <1>3, <1>4 DEF Idle, AcceptIntent, OpenBar, CancelCandidate, accountVars
<1> QED BY <1>1, <1>2, <1>4, Steps

(***************************************************************************)
(* Every fill lies in the window of the test.                              *)
(***************************************************************************)
LEMMA WindowContains ==
    ASSUME NEW x \in Symbols, NEW t \in Opens(x)
    PROVE  /\ WindowStart \in Nat /\ WindowStart <= t
           /\ WindowEnd \in Nat /\ t <= WindowEnd
<1> DEFINE Start == UNION {Opens(y) : y \in Symbols}
           End == UNION {{u + BarLength[y] : u \in Opens(y)} : y \in Symbols}
<1>1. \A y \in Symbols : Opens(y) \subseteq Nat /\ BarLength[y] \in Nat \ {0}
  BY RequestAssumption DEF Opens
<1>2. Start \in SUBSET Nat /\ t \in Start
  BY <1>1
<1>3. WindowStart = CHOOSE m \in Start : \A u \in Start : m =< u
  BY DEF WindowStart, Min
<1>4. End \in SUBSET Nat /\ t + BarLength[x] \in End
  BY <1>1
<1>5. \E m \in End : \A u \in End : m >= u
  <2>1. PICK top \in Symbols : \A y \in Symbols : BarLength[y] <= BarLength[top]
    <3>1. Symbols \in SUBSET (1..NumSymbols) /\ Symbols # {} /\ NumSymbols \in Nat
      BY ParametersAssumption DEF Symbols
    <3>2. BarLength \in [1..NumSymbols -> Int]
      BY RequestAssumption DEF Symbols
    <3> QED BY <3>1, <3>2, GreatestAt
  <2>2. PICK b \in Nat : b = Horizon + BarLength[top]
    BY <1>1, RequestAssumption
  <2>3. \A u \in End : u \in 1..b
    <3>1. ASSUME NEW y \in Symbols, NEW u \in Opens(y) PROVE u + BarLength[y] \in 1..b
      <4>1. /\ u \in Nat /\ u < Horizon /\ Horizon \in Nat
            /\ BarLength[y] \in Nat \ {0} /\ BarLength[top] \in Nat
            /\ BarLength[y] <= BarLength[top]
        BY <1>1, <2>1, RequestAssumption DEF Opens
      <4> QED BY <2>2, <4>1
    <3> QED BY <3>1
  <2> DEFINE v == [i \in 1..b |-> i]
             I == End
  <2>4. v \in [1..b -> Int] /\ I \in SUBSET (1..b) /\ I # {}
    BY <1>4, <2>3
  <2> HIDE DEF v, I, End
  <2>5. PICK m \in I : \A i \in I : v[i] <= v[m]
    BY <2>4, GreatestAt
  <2>6. \A i \in I : v[i] = i /\ i \in Int
    BY <2>4 DEF v
  <2> QED BY <2>5, <2>6 DEF I
<1>6. WindowEnd = CHOOSE m \in End : \A u \in End : m >= u
  BY DEF WindowEnd, Max
<1> HIDE DEF Start, End
<1>7. \E m \in Start : \A u \in Start : m =< u
  BY <1>2, LeastNatural
<1>8. WindowStart \in Start /\ WindowStart <= t
  BY <1>2, <1>3, <1>7
<1>9. WindowEnd \in End /\ WindowEnd >= t + BarLength[x]
  BY <1>4, <1>5, <1>6
<1>10. t \in Nat /\ BarLength[x] \in Nat
  BY <1>1
<1> QED BY <1>2, <1>4, <1>8, <1>9, <1>10

LEMMA NothingExposed ==
    ASSUME NEW start, NEW end
    PROVE  /\ ExposureTime(<< >>, start, end) = 0
           /\ Cardinality(Spanned(NothingBooked, start, end)) = 0
           /\ NotAfter(NothingBooked, end)
<1>1. ~InMarket(<< >>, 0)
  <2>1. ASSUME NEW s \in Symbols PROVE Held(<< >>, 0)[s] = 0
    <3>1. {i \in 1..0 : << >>[i].symbol = s} = {}
      OBVIOUS
    <3> QED BY <3>1, SumEmpty DEF Held
  <2> QED BY <2>1 DEF InMarket
<1>2. {n \in 0..Len(<< >>) : InMarket(<< >>, n)} = {}
  <2>1. \A n \in 0..0 : n = 0
    OBVIOUS
  <2>2. Len(<< >>) = 0
    OBVIOUS
  <2> QED BY <1>1, <2>1, <2>2
<1>3. ExposureTime(<< >>, start, end) = 0
  BY <1>2, SumEmpty DEF ExposureTime
<1>4. Spanned(NothingBooked, start, end) = {}
  BY DEF Spanned, Spans, NothingBooked, NoPosition
<1>5. NotAfter(NothingBooked, end)
  BY DEF NotAfter, NothingBooked, NoPosition
<1> QED BY <1>3, <1>4, <1>5, FS_EmptySet

LEMMA ExposedAtEnd ==
    ASSUME IndInv, ExposureInv, TimesInv
    PROVE  ExposureCoversTrades
<1>1. PICK log, a, b : log = Reconstruct(fills) /\ a = WindowStart /\ b = WindowEnd
  OBVIOUS
<1>2. ExposureTime(fills, a, b) = Cardinality(Spanned(log, a, b))
  <2>1. CASE fills = << >>
    <3>1. log = NothingBooked
      BY <1>1, <2>1, NothingReconstructed
    <3> QED BY <2>1, <3>1, NothingExposed
  <2>2. CASE fills # << >>
    <3>1. DOMAIN fills = 1..Len(fills) /\ Len(fills) \in Nat \ {0}
      BY <2>2, LenProperties, EmptySeq DEF IndInv, TypeOK
    <3>2. \A i \in DOMAIN fills : fills[i].symbol \in Symbols
      <4>1. \A i \in DOMAIN fills : fills[i] \in Fill
        BY ElementOfSeq, LenProperties DEF IndInv, TypeOK
      <4> QED BY <4>1 DEF Fill
    <3>3. ASSUME NEW i \in DOMAIN fills
          PROVE  a \in Nat /\ b \in Nat /\ a <= fills[i].at /\ fills[i].at <= b
      BY <1>1, <3>2, WindowContains DEF TimesInv
    <3>4. a \in Nat /\ b \in Nat /\ Within(fills, a, b)
      BY <3>1, <3>3 DEF Within
    <3> QED BY <1>1, <3>4 DEF ExposureInv, ExposureOk
  <2> QED BY <2>1, <2>2
<1> QED BY <1>1, <1>2 DEF ExposureCoversTrades, Spanned, Spans

(***************************************************************************)
(* For every request, the time in market the analytics report is the time  *)
(* that the trades and the positions left open span, though one nets fills *)
(* and the other splits them at every partial close and flip.              *)
(***************************************************************************)
THEOREM ExposureCovers == Spec => []ExposureCoversTrades
<1>1. Init => ExposureInv /\ TimesInv
  <2> SUFFICES ASSUME Init PROVE ExposureInv /\ TimesInv
    OBVIOUS
  <2>1. fills = << >> /\ phase = "prepare" /\ DOMAIN fills = {}
    BY InitHasNoFills DEF Init
  <2>2. Reconstruct(fills) = NothingBooked
    BY <2>1, NothingReconstructed
  <2>3. ExposureInv
    BY <2>1, <2>2, NothingExposed DEF ExposureInv, ExposureOk
  <2> QED BY <2>1, <2>3 DEF TimesInv
<1>2. IndInv /\ AnalyticsInv /\ AnalyticsInv' /\ QuantitiesReconcile'
        /\ ExposureInv /\ TimesInv /\ [Next]_vars => ExposureInv' /\ TimesInv'
  BY NextExposure, NextTimes
<1>3. IndInv /\ ExposureInv /\ TimesInv => ExposureCoversTrades
  BY ExposedAtEnd
<1> QED BY <1>1, <1>2, <1>3, Invariance, Explaining, Reconciliation, PTL DEF Spec
=============================================================================
