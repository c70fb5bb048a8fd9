------------------------------ MODULE Signals ------------------------------
(***************************************************************************)
(* From closed candles to orders: the candidate strategy                   *)
(* (strategies/trend.py), the control benchmarks                           *)
(* (benchmarks/strategies.py) and compile_signals (signals/compiler.py).   *)
(*                                                                         *)
(* rows is one symbol's candles in time order.  Row i closes at time i,    *)
(* where row i + 1 opens; a signal [at, target] is generated at the close  *)
(* of row at.  A target is its units: 0, 1 or -1.                          *)
(***************************************************************************)
EXTENDS ExecutionModel, FiniteSetsExt

CONSTANTS
    UnitQuantity,       \* FixedQuantityPolicy.quantity
    EntryLookback,      \* of DualChannelTrend
    ExitLookback,
    TrendLookback,      \* of SimpleTrendFollowing
    ReversionLookback,  \* of SimpleMeanReversion
    EntryZ,
    HoldingBars         \* of RandomEntry

\* What the strategies' __post_init__ and FixedQuantityPolicy accept.
ASSUME SignalAssumption ==
    /\ UnitQuantity \in Nat \ {0}
    /\ ExitLookback \in Nat /\ ExitLookback >= 2
    /\ EntryLookback \in Nat /\ EntryLookback > ExitLookback
    /\ TrendLookback \in Nat /\ TrendLookback >= 2
    /\ ReversionLookback \in Nat /\ ReversionLookback >= 2
    /\ EntryZ \in Nat \ {0}
    /\ HoldingBars \in Nat \ {0}

FLAT == 0
LONG == 1
SHORT == -1
Targets == {FLAT, LONG, SHORT}

Signal(at, target) == [at |-> at, target |-> target]

Highest(rows, window) == Max({rows[k].high : k \in window})
Lowest(rows, window) == Min({rows[k].low : k \in window})

\* The rows before row i that a channel spans.
Prior(i, lookback) == (i - lookback)..(i - 1)

\* Mutant of BreaksUp: the close of the row the order would fill in.
BreaksUpNext(rows, i, lookback) ==
    rows[i + 1].close > Highest(rows, Prior(i, lookback))

BreaksUp(rows, i, lookback) ==
    rows[i].close > Highest(rows, Prior(i, lookback))
BreaksDown(rows, i, lookback) ==
    rows[i].close < Lowest(rows, Prior(i, lookback))

(***************************************************************************)
(* The target a strategy wants after row i when it holds another target.   *)
(***************************************************************************)

\* SimpleTrendFollowing.generate
TrendTarget(rows, i, target) ==
    CASE BreaksUp(rows, i, TrendLookback)   -> LONG
      [] BreaksDown(rows, i, TrendLookback) -> SHORT
      [] OTHER                              -> target

\* DualChannelTrend.generate
DualChannelTarget(rows, i, target) ==
    LET exit == Prior(i, ExitLookback)
        lost == \/ target = LONG /\ rows[i].close < Lowest(rows, exit)
                \/ target = SHORT /\ rows[i].close > Highest(rows, exit)
    IN  CASE BreaksUp(rows, i, EntryLookback)   -> LONG
          [] BreaksDown(rows, i, EntryLookback) -> SHORT
          [] OTHER -> IF lost THEN FLAT ELSE target

\* SimpleMeanReversion.generate.  lead is the lookback times the distance of
\* the close from the mean, spread its square times the variance, so that the
\* z-score is lead / sqrt(spread), and 0 when spread is.
ReversionTarget(rows, i, target) ==
    LET window == (i - ReversionLookback + 1)..i
        total == SumFunction([k \in window |-> rows[k].close])
        squares == SumFunction([k \in window |-> rows[k].close * rows[k].close])
        lead == ReversionLookback * rows[i].close - total
        spread == ReversionLookback * squares - total * total
        stretched == spread > 0 /\ lead * lead >= EntryZ * EntryZ * spread
    IN  CASE target = FLAT /\ stretched -> IF lead > 0 THEN SHORT ELSE LONG
          [] target = LONG /\ lead >= 0 -> FLAT
          [] target = SHORT /\ lead <= 0 -> FLAT
          [] OTHER -> target

\* The loop of generate over rows first to n - 2: the target after each row.
Held(rule, first, n) ==
    LET target[i \in 0..n - 2] ==
            IF i < first THEN FLAT ELSE rule[i][target[i - 1]]
    IN  target

\* Its signals, and the forced exit at the close of the last row but one.
SignalsOf(rule, first, n) ==
    LET target == Held(rule, first, n)
    IN  {Signal(i, target[i]) :
            i \in {k \in first..n - 2 : target[k] # target[k - 1]}}
        \cup {s \in {Signal(n - 1, FLAT)} : target[n - 2] # FLAT}

\* RandomEntry.generate; draws[i] is what the hash of seed and row says: no
\* entry (FLAT) or the direction of one.
RandomSignals(draws, n) ==
    LET nothing == [target |-> FLAT, exit |-> 0]
        held[i \in 0..n - 1] ==
            IF i = 0 THEN nothing
            ELSE IF held[i - 1].target # FLAT
              THEN IF i >= held[i - 1].exit THEN nothing ELSE held[i - 1]
            ELSE IF i + HoldingBars < n /\ draws[i] # FLAT
              THEN [target |-> draws[i], exit |-> i + HoldingBars]
            ELSE nothing
    IN  {Signal(i, held[i].target) :
            i \in {k \in 1..n - 1 : held[k].target # held[k - 1].target}}

\* generate of a strategy [name, draws]; _ordered wants three rows.
Generate(strategy, rows) ==
    LET n == Len(rows)
        name == strategy.name
    IN  CASE name = "BUY_AND_HOLD" -> {Signal(1, LONG), Signal(n - 1, FLAT)}
          [] name = "RANDOM_ENTRY" -> RandomSignals(strategy.draws, n)
          [] name = "SIMPLE_TREND_FOLLOWING" ->
                SignalsOf([i \in DOMAIN rows |-> [t \in Targets |-> TrendTarget(rows, i, t)]],
                          TrendLookback + 1, n)
          [] name = "SIMPLE_MEAN_REVERSION" ->
                SignalsOf([i \in DOMAIN rows |-> [t \in Targets |-> ReversionTarget(rows, i, t)]],
                          ReversionLookback, n)
          [] name = "DUAL_CHANNEL_TREND" ->
                SignalsOf([i \in DOMAIN rows |-> [t \in Targets |-> DualChannelTarget(rows, i, t)]],
                          EntryLookback + 1, n)
-----------------------------------------------------------------------------
(***************************************************************************)
(* compile_signals, for the one instrument 1.                              *)
(***************************************************************************)
Latest(signals) == CHOOSE s \in signals : \A t \in signals : t.at <= s.at

\* The target that the signals before a time leave.
TargetBefore(signals, at) ==
    LET earlier == {s \in signals : s.at < at}
    IN  IF earlier = {} THEN FLAT ELSE Latest(earlier).target

\* delta
Change(signals, s) == s.target - TargetBefore(signals, s.at)

OrderQuantity(signals, s) == UnitQuantity * Abs(Change(signals, s))

\* Mutant of FillsInNextRow: the row of the signal is looked at.
FillsInSignalRow(q, rows, at) ==
    /\ q * rows[at].open >= MinNotional[1]
    /\ q * Scale <= rows[at].volume * ParticipationRate

\* The row after the signal is large enough for all of the order.
FillsInNextRow(q, rows, at) ==
    /\ q * rows[at + 1].open >= MinNotional[1]
    /\ q * Scale <= rows[at + 1].volume * ParticipationRate

\* No SignalCompilationError.
Compilable(signals, rows) ==
    /\ UnitQuantity % QuantityStep[1] = 0
    /\ UnitQuantity \in MinQuantity[1]..MaxQuantity[1]
    /\ \A s, t \in signals : s # t => s.at # t.at
    /\ \A s \in signals :
          /\ s.at \in 1..Len(rows) - 1
          /\ Change(signals, s) # 0
          /\ OrderQuantity(signals, s) <= MaxQuantity[1]
          /\ FillsInNextRow(OrderQuantity(signals, s), rows, s.at)
    /\ TargetBefore(signals, Len(rows)) = FLAT

OrderOf(signals, s) ==
    [id         |-> Cardinality({t \in signals : t.at <= s.at}),
     symbol     |-> 1,
     side       |-> IF Change(signals, s) > 0 THEN BUY ELSE SELL,
     type       |-> "MARKET",
     quantity   |-> OrderQuantity(signals, s),
     submitted  |-> s.at,
     aware      |-> TRUE,
     limit      |-> None,
     trigger    |-> None,
     ioc        |-> FALSE,
     reduceOnly |-> s.target = FLAT,
     oco        |-> None]

Compile(signals) ==
    LET orders == {OrderOf(signals, s) : s \in signals}
    IN  [k \in 1..Cardinality(signals) |-> CHOOSE o \in orders : o.id = k]
=============================================================================
