------------------------------- MODULE MCLake -------------------------------
(***************************************************************************)
(* Instance of the lake and the matrix: one symbol, two timeframes.        *)
(* Instruments, funding, marks and the candles of the first timeframe are  *)
(* there; the candles of the second span two months and are ingested, and  *)
(* revised, while the matrix runs.                                         *)
(***************************************************************************)
EXTENDS LakeProperties

CONSTANTS p1, p2, info, fund, mark, fast, slow, btc, hour, day, rows, revised, gap, early, late,
          vInfo, vLater, vBare, vFund, vOdd, vMark, vFast, vSlow, vRevised, vGap

OneSymbol == <<btc>>
TwoTimeframes == <<hour, day>>
AllRequests == {info, fund, mark, fast, slow}
MonthsOfAll == [k \in AllRequests |-> IF k = slow THEN 1..2 ELSE 1..1]
\* Two snapshots of the instruments; or one that lacks the symbol, and funding
\* that is stamped off the marks.
Before == {{vInfo, vLater, vFund, vMark, vFast},
           {vInfo, vLater, vBare, vOdd, vMark, vFast}}
AllVersions == UNION Before \cup {vSlow, vRevised, vGap}
\* The venue fills a gap, or revises what it served.
Venue == <<{vGap, vSlow}, {vSlow, vRevised}>>
Asked == [v \in AllVersions |->
    CASE v \in {vInfo, vLater, vBare} -> info [] v \in {vFund, vOdd} -> fund [] v = vMark -> mark
      [] v = vFast -> fast [] OTHER -> slow]
Downloaded == [v \in AllVersions |->
    CASE v = vSlow -> <<rows, rows>> [] v = vRevised -> <<rows, revised>>
      [] v = vInfo -> <<early>> [] v = vLater -> <<late>> [] v = vGap -> <<gap>>
      [] v \in {vBare, vOdd} -> <<revised>> [] OTHER -> <<rows>>]
SymbolsIn(v) == IF v = vBare THEN {} ELSE {btc}
EventsPriced(f, m) == f # vOdd
Fundings == [s \in {btc} |-> fund]
MarkSeries == [s \in {btc} |-> mark]
Candles == [c \in {<<btc, hour>>, <<btc, day>>} |-> IF c[2] = hour THEN fast ELSE slow]

Analytics(return, trend, random, drawdown, trades) ==
    [return |-> return, trend |-> trend, random |-> random,
     drawdown |-> drawdown, trendDrawdown |-> 20, trades |-> trades]
Fine == Analytics(30, 10, 20, 20, 60)
Fair == Analytics(12, 12, 5, 10, 50)
Poor == Analytics(-5, 10, 5, 26, 60)
Outcomes == {Fine, Fair, Poor, Analytics(10, 5, 20, 20, 30)}
Deterministic(data) ==
    CASE data.candles = vFast -> Fine [] data.candles = vSlow -> Fair [] OTHER -> Poor

\* The ingesters run one program; the two snapshots differ only in their rows.
Swapped == (vInfo :> vLater) @@ (vLater :> vInfo) @@ (early :> late) @@ (late :> early)
Kept == [x \in DOMAIN Swapped |-> x]
Alike == {p @@ s : p \in Permutations(Ingesters), s \in {Kept, Swapped}}
=============================================================================
