------------------------- MODULE BacktestProperties -------------------------
(***************************************************************************)
(* What a run of the backtest engine must satisfy.                         *)
(***************************************************************************)
EXTENDS BacktestEngine, FiniteSetsExt

CONSTANT TradePrices    \* bound: the prices Account looks for in a trade

Liquidities == {"MAKER", "TAKER", "LIQUIDATION"}

Fill == [order : Int, symbol : Symbols, side : Sides, at : Nat,
         quantity : Nat, price : Int, liquidity : Liquidities, fee : Int]

LedgerRow == [at : Nat, kind : {"ACCEPTED", "FILLED", "CANCELED"}]

WorkingOrders == [intent : OrderIntent, remaining : Nat, closed : BOOLEAN,
                  ledger : Seq(LedgerRow)]

Candidate == [order : Nat \ {0}, raw : Int, liquidity : {"MAKER", "TAKER"}]

(***************************************************************************)
(* The state of a run (class _State and the locals of run and _apply_bar)  *)
(* keeps its types; queue only names working orders of the bar's symbol.   *)
(***************************************************************************)
TypeOK ==
    /\ book \in OrderBooks
    /\ pending \subseteq DOMAIN book
    /\ working \in Seq(WorkingOrders)
    /\ phase \in {"prepare", "events", "bar", "done", "failed"}
    /\ event \in [time : Nat, priority : {FUNDING, MARK, BAR}, symbol : Symbols]
    /\ bar \in Bars \cup {None}
    /\ phase = "bar" => bar \in Bars
    /\ available \in Nat
    /\ queue \subseteq Candidate
    /\ cash \in Int
    /\ totalFees \in Int
    /\ totalFunding \in Int
    /\ realized \in Int
    /\ positions \in [Symbols -> [quantity : Int, average : Int]]
    /\ lastPrices \in [Symbols -> Int \cup {None}]
    /\ liquidations \in Nat
    /\ fills \in Seq(Fill)

(***************************************************************************)
(* Cash is the initial cash plus realized profit, less fees, plus funding, *)
(* through partial closes, flips, liquidations and funding in any order:   *)
(* _execute and _apply_funding are the only ones to move money.  (The same *)
(* identity analytics recomputes before it accepts a result.)              *)
(***************************************************************************)
AccountingIdentity ==
    cash = InitialCash + realized - totalFees + totalFunding

(***************************************************************************)
(* The average-cost bookkeeping of _Position.apply and _execute implements *)
(* plain cash-flow accounting: cash less the entry cost of what is held is *)
(* the money a cash-flow account would have.  Dividing an average price    *)
(* (engine.py:75) may put them off by less than a quantum a unit held when *)
(* a trade adds to a position; nothing else may, and closing, flipping and *)
(* liquidating undo or repeat no such error.                               *)
(***************************************************************************)
Account == INSTANCE CashFlowAccount WITH
    Assets <- Symbols,
    OpeningMoney <- InitialCash,
    Unit <- Scale,
    FeeRates <- {MakerFeeRate, TakerFeeRate, LiquidationFeeRate},
    Prices <- TradePrices,
    Settlements <- FundingEvents,
    money <- cash - Scale * SumOverSymbols([x \in Symbols |->
                        positions[x].quantity * positions[x].average]),
    holding <- [x \in Symbols |-> positions[x].quantity]

ImplementsCashFlowAccount == Account!Spec

FillOf(i, k) == fills[i].order = working[k].intent.id

Quantities == [i \in DOMAIN fills |-> fills[i].quantity]

(***************************************************************************)
(* Every position is the net of its symbol's fills, and every order's      *)
(* quantity is what remains of it plus what its fills took: no fill is     *)
(* lost, doubled or booked to another order (_fill_candidate, _execute).   *)
(***************************************************************************)
QuantitiesReconcile ==
    /\ \A x \in Symbols :
          positions[x].quantity =
             SumFunctionOnSet([i \in DOMAIN fills |-> fills[i].side * fills[i].quantity],
                              {i \in DOMAIN fills : fills[i].symbol = x})
    /\ \A k \in DOMAIN working :
          working[k].intent.quantity = working[k].remaining +
             SumFunctionOnSet(Quantities, {i \in DOMAIN fills : FillOf(i, k)})

(***************************************************************************)
(* No order fills before it is active (BACKTESTING.md:42-48): whatever the *)
(* bars and the latency, a fill is stamped at an open no earlier than      *)
(* submission plus latency.                                                *)
(***************************************************************************)
NoFillBeforeActive ==
    \A i \in DOMAIN fills, k \in DOMAIN working :
        FillOf(i, k) => working[k].intent.submitted + Latency <= fills[i].at

(***************************************************************************)
(* A limit order, maker or taker, never executes at a price worse than its *)
(* limit (BACKTESTING.md:56), although the price is capped first and       *)
(* rounded against the trader afterwards.                                  *)
(***************************************************************************)
LimitNeverWorse ==
    \A i \in DOMAIN fills, k \in DOMAIN working :
        LET intent == working[k].intent
        IN  FillOf(i, k) /\ intent.type = "LIMIT" /\ intent.limit # 0
              => intent.side * (intent.limit - fills[i].price) >= 0

FillsOfBar == {i \in DOMAIN fills : /\ fills[i].symbol = sym
                                    /\ fills[i].at = now
                                    /\ fills[i].liquidity # "LIQUIDATION"}

(***************************************************************************)
(* The fills of one bar never exceed its volume times the participation    *)
(* rate (BACKTESTING.md:60-62), however many orders of the symbol share it *)
(* and whatever a liquidation at the same time takes beside it.            *)
(***************************************************************************)
ParticipationCap ==
    phase = "bar" =>
        Scale * SumFunctionOnSet(Quantities, FillsOfBar)
            <= bar.volume * ParticipationRate

(***************************************************************************)
(* A reduce-only order never increases, opens or reverses a position       *)
(* (BACKTESTING.md:76), also when an earlier candidate of the same bar has *)
(* moved the position in the meantime.                                     *)
(***************************************************************************)
ReduceOnlyShrinks ==
    [][\A k \in DOMAIN working :
          LET x == working[k].intent.symbol
          IN  working[k].intent.reduceOnly
              /\ working'[k].remaining < working[k].remaining
              => /\ positions[x].quantity * positions'[x].quantity >= 0
                 /\ Abs(positions'[x].quantity) < Abs(positions[x].quantity)]_vars

(***************************************************************************)
(* A market or IOC order fills at most once: the remainder is canceled and *)
(* is never taken up by a later bar (BACKTESTING.md:60-62).                *)
(***************************************************************************)
OneShotFillsOnce ==
    \A k \in DOMAIN working :
        working[k].intent.type = "MARKET" \/ working[k].intent.ioc
          => Cardinality({i \in DOMAIN fills : FillOf(i, k)}) <= 1

(***************************************************************************)
(* Liquidation is the last thing that happens to a symbol: it flattens the *)
(* position and cancels every order on it, also the ones not yet           *)
(* submitted, so no fill of the symbol ever follows.                       *)
(***************************************************************************)
LiquidationIsFinal ==
    \A i, j \in DOMAIN fills :
        i < j /\ fills[i].liquidity = "LIQUIDATION"
          => fills[j].symbol # fills[i].symbol

CanceledThenFilled(k) ==
    \E i, j \in DOMAIN working[k].ledger :
        /\ i < j
        /\ working[k].ledger[i].kind = "CANCELED"
        /\ working[k].ledger[j].kind = "FILLED"

(***************************************************************************)
(* An order outside any OCO group never fills once its cancellation is in  *)
(* the ledger.                                                             *)
(***************************************************************************)
StandaloneCancelIsFinal ==
    \A k \in DOMAIN working :
        working[k].intent.oco = None => ~CanceledThenFilled(k)

(***************************************************************************)
(* Two members of an OCO group both fill only within one bar, of one       *)
(* symbol: a fill in one symbol's bar keeps the other members out of every *)
(* later bar, and out of another symbol's bar at the same open             *)
(* (_apply_bar's cancellation of siblings, of any symbol).                 *)
(***************************************************************************)
OcoFillsShareBar ==
    \A i, j \in DOMAIN fills, k, l \in DOMAIN working :
        /\ FillOf(i, k) /\ FillOf(j, l) /\ k # l
        /\ working[k].intent.oco \notin {None, 0}
        /\ working[k].intent.oco = working[l].intent.oco
        => fills[i].at = fills[j].at /\ fills[i].symbol = fills[j].symbol

(***************************************************************************)
(* A bar that ends with liquidity left has served every order it reached   *)
(* outside OCO groups: such an order is closed, or it is reduce-only and   *)
(* took the whole position it found (the loop of _apply_bar goes on after  *)
(* a refused candidate, and a group never displaces a standalone order).   *)
(***************************************************************************)
ReachedOrdersServed ==
    phase = "bar" /\ queue = {} /\ available > 0 =>
        \A k \in DOMAIN working :
            /\ Active(k)
            /\ working[k].intent.oco = None
            /\ Offers(working[k].intent, bar) # {}
            => /\ working[k].intent.reduceOnly
               /\ \E i \in DOMAIN fills : FillOf(i, k) /\ fills[i].at = now

-----------------------------------------------------------------------------
(***************************************************************************)
(* Statements of the documentation that the code does not keep.            *)
(***************************************************************************)

(***************************************************************************)
(* BACKTESTING.md:66-69: an OCO fill "cancels the sibling", so a canceled  *)
(* order never fills.                                                      *)
(***************************************************************************)
CancelIsFinal == \A k \in DOMAIN working : ~CanceledThenFilled(k)

(***************************************************************************)
(* BACKTESTING.md:66-69: of the members of an OCO group reachable in one   *)
(* bar, the worse price for the existing position is the one executed.     *)
(***************************************************************************)
OcoWorstCase ==
    \A c, d \in queue :
        /\ IsNextCandidate(c)
        /\ Oco(c) # None /\ Oco(c) = Oco(d)
        /\ ~working[c.order].closed
        => positions[sym].quantity * (d.raw - c.raw) >= 0

(***************************************************************************)
(* BACKTESTING.md:60-62: "IOC cancels an unfilled or partially filled      *)
(* remainder", so an IOC order fills in the first bar that it is active in *)
(* or never.                                                               *)
(***************************************************************************)
IocFillsInFirstBar ==
    \A i \in DOMAIN fills, k \in DOMAIN working :
        FillOf(i, k) /\ working[k].intent.ioc
          => fills[i].at - BarLength[fills[i].symbol]
                < working[k].intent.submitted + Latency

(***************************************************************************)
(* BACKTESTING.md:35-40: at one timestamp, "symbol-sorted bar processing"  *)
(* comes before "bar-close marking": when the orders of a bar are checked  *)
(* for margin, nothing has been marked at the close of a bar of that time. *)
(***************************************************************************)
BarCloseMarksLast ==
    phase = "bar" => \A i \in DOMAIN curve : curve[i].at <= now
=============================================================================
