-------------------------- MODULE VenueProperties --------------------------
(***************************************************************************)
(* What a download, its validation and a resampling must satisfy.          *)
(***************************************************************************)
EXTENDS VenueClient

CONSTANTS Medium, Large  \* timeframes to resample to

\* resample_candles raises for any other target (data/resampling.py:28).
ASSUME TimeframesAssumption ==
    /\ Medium \in Nat \ {0} /\ Large \in Nat \ {0}
    /\ Medium > Period /\ Medium % Period = 0
    /\ Large > Medium /\ Large % Medium = 0

OfSeries == request.kind # "instruments"
Downloaded == phase = "done" /\ OfSeries

(***************************************************************************)
(* The page end stays inside the window, the retries inside their bound,   *)
(* the remembered cursors inside the venue's; a failed command has no rows.*)
(***************************************************************************)
TypeOK ==
    /\ clock \in Moments
    /\ request \in Requests
    /\ phase \in {"idle", "time", "pages", "done", "failed"}
    /\ serverTime % Second = 0
    /\ phase \in {"time", "pages"} => serverTime <= clock
    /\ phase = "pages" /\ OfSeries => pageEnd \in request.start..(request.end - 1)
    /\ attempt \in 0..(Attempts - 1)
    /\ cursor \in 0..(Len(Catalog) - 1)
    /\ seen \subseteq 1..(Len(Catalog) - 1)
    /\ phase = "failed" => rows = << >>

(***************************************************************************)
(* A download holds no bar that could still change when it was served,     *)
(* although the venue's clock runs on from page to page and bars close     *)
(* meanwhile: the cut is the server time read before the first page.       *)
(***************************************************************************)
NoProvisionalRow ==
    Downloaded => \A i \in DOMAIN rows : rows[i] = FinalRow(request.kind, rows[i].at)

(***************************************************************************)
(* Whatever the page size, an honest venue's download is complete: each    *)
(* closed row of the window once and in order, none lost or repeated at a  *)
(* page boundary; and each eligible instrument that was asked for.         *)
(***************************************************************************)
ClosedTimes ==
    LET length == IF request.kind = "funding" THEN 0 ELSE Period
    IN  {t \in request.start..(request.end - 1) :
            t % Period = 0 /\ t >= Listed /\ t + length <= serverTime}

ListedSymbols ==
    LET items == UNION {ToSet(page) : page \in ToSet(Catalog)}
        eligible == {item.symbol : item \in {x \in items : x.eligible}}
    IN  IF request.wanted = {} THEN eligible ELSE eligible \cap request.wanted

HonestIsComplete ==
    phase = "done" /\ honest =>
        IF OfSeries
          THEN LET order == Ascending(ClosedTimes)
               IN  rows = [i \in DOMAIN order |-> FinalRow(request.kind, order[i])]
          ELSE rows = Ascending(ListedSymbols)

(***************************************************************************)
(* The verdict, of any rows from anywhere, is the one a definition by sets *)
(* gives: exactly the times of the window's grid, each once and in order,  *)
(* every row sound and closed ("Require every settlement in the half-open  *)
(* UTC window exactly once", validation.py:194).                           *)
(***************************************************************************)
Verdict(asOf) ==
    CASE request.kind = "candles" ->
             ValidCandles(rows, Period, request.start, request.end, asOf)
      [] request.kind = "marks" ->
             ValidMarks(rows, Period, request.start, request.end, asOf)
      [] request.kind = "funding" ->
             ValidRates(rows, Period, request.start, request.end, asOf)

Sound(row) ==
    IF request.kind = "funding" THEN row.rate # NotFinite
    ELSE /\ 0 < row.low /\ row.low <= row.high
         /\ {row.open, row.close} \subseteq row.low..row.high
         /\ request.kind = "candles" => row.volume >= 0 /\ row.turnover >= 0

ExactlyTheGrid ==
    LET grid == {t \in request.start..(request.end - 1) : t % Period = 0}
    IN  /\ grid # {}
        /\ request.kind # "funding" => (request.start % Period = 0 /\ request.end % Period = 0)
        /\ [i \in DOMAIN rows |-> rows[i].at] = Ascending(grid)
        /\ \A i \in DOMAIN rows : Sound(rows[i])

ClosedBy(asOf) ==
    \A i \in DOMAIN rows :
        rows[i].at + (IF request.kind = "funding" THEN 0 ELSE Period) <= asOf

VerdictExact ==
    phase = "idle" \/ Downloaded =>
        (Verdict(serverTime) <=> ExactlyTheGrid /\ ClosedBy(serverTime))

(***************************************************************************)
(* The verdict on a download depends on its rows alone, not on when the    *)
(* venue's clock was read: the version, a digest of request and rows, then *)
(* always gets the same zone (pipeline.py:115-144).                        *)
(***************************************************************************)
VerdictOfRows == Downloaded => (Verdict(serverTime) <=> ExactlyTheGrid)

(***************************************************************************)
(* Resampling in two stages is resampling at once, of any candles: holes,  *)
(* repeated and misplaced rows included; the parity check sees no          *)
(* difference.                                                             *)
(***************************************************************************)
ResampleComposes ==
    (phase = "idle" \/ Downloaded) /\ request.kind = "candles" =>
        LET medium == resample_candles(rows, Period, Medium)
            staged == resample_candles(medium, Medium, Large)
            direct == resample_candles(rows, Period, Large)
        IN  /\ Times(staged) = Times(direct)
            /\ compare_candle_parity(staged, direct, 0) = {}

(***************************************************************************)
(* A fetch ends, in a download or an error, whatever pages and cursors the *)
(* venue returns.                                                          *)
(***************************************************************************)
FetchEnds == phase \in {"time", "pages"} ~> phase \in {"done", "failed"}
=============================================================================
