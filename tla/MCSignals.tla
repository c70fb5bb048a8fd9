------------------------------ MODULE MCSignals ------------------------------
(***************************************************************************)
(* Instances of SignalTrading for TLC: windows of Horizon rows of three    *)
(* candles, lookbacks of two and three rows, quantity units of two.        *)
(***************************************************************************)
EXTENDS SignalProperties

PerSymbol(v) == [x \in 1..NumSymbols |-> v]
Ones == PerSymbol(1)
Twos == PerSymbol(2)
LargestOrder == PerSymbol(4)
SmallestNotional == PerSymbol(12)
FromStart == PerSymbol(0)
ToEnd == PerSymbol(Horizon - 1)

\* Up takes one unit of two, Level and Down also a flip.
Level == [open |-> 10, high |-> 11, low |-> 9, close |-> 10, volume |-> 8]
Up == [open |-> 10, high |-> 13, low |-> 10, close |-> 13, volume |-> 7]
Down == [open |-> 10, high |-> 10, low |-> 7, close |-> 7, volume |-> 9]
Candles == {Level, Up, Down}

NoEvents == {}

\* Every path of targets that ends flat, as the orders it compiles to.
TargetPaths == {p \in [0..Horizon - 1 -> Targets] : p[0] = FLAT /\ p[Horizon - 1] = FLAT}
PathBooks ==
    {Compile({Signal(i, p[i]) : i \in {k \in 1..Horizon - 1 : p[k] # p[k - 1]}}) :
        p \in TargetPaths}
CompiledBooks == PathBooks


NoDraws == [i \in 1..Horizon |-> FLAT]
Strategy(name) == [name |-> name, draws |-> NoDraws]
PriceRules == {Strategy("SIMPLE_TREND_FOLLOWING"), Strategy("SIMPLE_MEAN_REVERSION"),
               Strategy("DUAL_CHANNEL_TREND")}

\* The first row sets the scene; the others are free.
Series == {r \in [1..Horizon -> Candles] : r[1] = Level}
Repeated == {[i \in 1..Horizon |-> c] : c \in Candles}
\* Later draws find no room for the holding period.
Draws == {d \in [1..Horizon -> Targets] :
            \A i \in 1..Horizon : i + HoldingBars >= Horizon => d[i] = FLAT}

Controls ==
    [strategy : PriceRules, rows : Series]
    \cup [strategy : {Strategy("BUY_AND_HOLD")}, rows : Repeated]
    \cup [strategy : {[name |-> "RANDOM_ENTRY", draws |-> d] : d \in Draws},
          rows : {[i \in 1..Horizon |-> Level]}]

TrendOnly == [strategy : {Strategy("SIMPLE_TREND_FOLLOWING")}, rows : Series]
=============================================================================
