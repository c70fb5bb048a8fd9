---------------------------- MODULE MarketSeries ----------------------------
(***************************************************************************)
(* What the data layer computes over a series of rows: the validators      *)
(* (data/validation.py) and the resampler with its parity check            *)
(* (data/resampling.py).  A row is a record with the time `at` it opens or *)
(* settles; a candle also has open, high, low, close, volume and turnover, *)
(* a mark price only the prices, a funding rate its rate.  Prices and      *)
(* amounts are numbers: the NaN and Infinity that Decimal also parses are  *)
(* modelled for rates alone.  Only errors decide is_valid; warnings (zero  *)
(* volume, anomalous returns) are left out.                                *)
(***************************************************************************)
EXTENDS Integers, Sequences, FiniteSets, SequencesExt

CONSTANTS
    Second,    \* units of time in a second
    NotFinite  \* what Decimal("NaN") parses to

ASSUME SecondAssumption == Second \in Nat \ {0}

(***************************************************************************)
(* The elements of S by their rank in R, a total order as a set of pairs.  *)
(* Sorting(keys) is the permutation of a stable sort.                      *)
(***************************************************************************)
Ranked(S, R) ==
    [k \in 1..Cardinality(S) |->
        CHOOSE x \in S : Cardinality({y \in S : <<y, x>> \in R}) = k]

Ascending(S) == Ranked(S, {p \in S \X S : p[1] <= p[2]})
Descending(S) == Ranked(S, {p \in S \X S : p[1] >= p[2]})
Sorting(keys) ==
    Ranked(DOMAIN keys, {p \in (DOMAIN keys) \X (DOMAIN keys) :
        \/ keys[p[1]] < keys[p[2]]
        \/ keys[p[1]] = keys[p[2]] /\ p[1] <= p[2]})

\* The items of s at the positions P, in their order.
Picked(s, P) == LET order == Ascending(P) IN [k \in DOMAIN order |-> s[order[k]]]
Sorted(s, keys) == LET order == Sorting(keys) IN [k \in DOMAIN order |-> s[order[k]]]
-----------------------------------------------------------------------------
Times(rows) == {rows[i].at : i \in DOMAIN rows}

Distinct(rows) == Cardinality(Times(rows)) = Len(rows)
Aligned(rows, step) == \A t \in Times(rows) : t % step = 0

\* Mutant of Continuous: only a step back is an error, a hole is not.
Chronological(rows, step) ==
    \A i \in 2..Len(rows) : rows[i].at > rows[i - 1].at

\* Neither NON_MONOTONIC_TIME nor MISSING_CANDLES.
Continuous(rows, step) ==
    \A i \in 2..Len(rows) : rows[i].at = rows[i - 1].at + step

SoundPrices(c) ==
    \A price \in {c.open, c.high, c.low, c.close} : price > 0 /\ price \in c.low..c.high

SoundAmounts(c) == c.volume >= 0 /\ c.turnover >= 0

ValidCandles(rows, step, start, end, asOf) ==
    /\ rows # << >>
    /\ Head(rows).at = start
    /\ Last(rows).at + step = end
    /\ Aligned(rows, step)
    /\ Distinct(rows)
    /\ \A t \in Times(rows) : t + step <= asOf
    /\ \A i \in DOMAIN rows : SoundPrices(rows[i]) /\ SoundAmounts(rows[i])
    /\ Continuous(rows, step)

\* MarkPriceValidator: a candle of volume and turnover one stands for each bar.
ValidMarks(rows, step, start, end, asOf) ==
    ValidCandles([i \in DOMAIN rows |->
                     [at |-> rows[i].at, open |-> rows[i].open, high |-> rows[i].high,
                      low |-> rows[i].low, close |-> rows[i].close,
                      volume |-> 1, turnover |-> 1]],
                 step, start, end, asOf)

\* int(timestamp()): whole seconds.
Whole(t) == t - (t % Second)

ValidRates(rows, interval, start, end, asOf) ==
    LET first == ((Whole(start) + interval - Second) \div interval) * interval
        last == ((Whole(end) - Second) \div interval) * interval
    IN  /\ rows # << >>
        /\ Head(rows).at = first
        /\ Last(rows).at = last
        /\ Aligned(rows, interval)
        /\ Distinct(rows)
        /\ \A t \in Times(rows) : start <= t /\ t < end /\ t <= asOf
        /\ \A i \in DOMAIN rows : rows[i].rate # NotFinite
        /\ Continuous(rows, interval)
-----------------------------------------------------------------------------
Bucket(row, target) == row.at - (row.at % target)

InTimeOrder(rows) == Sorted(rows, [i \in DOMAIN rows |-> rows[i].at])

\* Mutant of Complete: the number of rows is checked, not their times.
FullSize(group, bucket, source, target) == Len(group) = target \div source

Complete(group, bucket, source, target) ==
    /\ Len(group) = target \div source
    /\ \A i \in DOMAIN group : group[i].at = bucket + source * (i - 1)

Aggregate(group, bucket) ==
    [at |-> bucket,
     open |-> Head(group).open,
     high |-> Max({group[i].high : i \in DOMAIN group}),
     low |-> Min({group[i].low : i \in DOMAIN group}),
     close |-> Last(group).close,
     volume |-> SumFunction([i \in DOMAIN group |-> group[i].volume]),
     turnover |-> SumFunction([i \in DOMAIN group |-> group[i].turnover])]

resample_candles(rows, source, target) ==
    LET ordered == InTimeOrder(rows)
        Group(b) == Picked(ordered, {i \in DOMAIN ordered : Bucket(ordered[i], target) = b})
        buckets == {b \in {Bucket(rows[i], target) : i \in DOMAIN rows} :
                       Complete(Group(b), b, source, target)}
        order == Ascending(buckets)
    IN  [k \in DOMAIN order |-> Aggregate(Group(order[k]), order[k])]

compare_candle_parity(derived, native, tolerance) ==
    {x \in [at : Times(derived) \cap Times(native),
            field : {"open", "high", "low", "close", "volume", "turnover"}] :
        \E i \in DOMAIN derived, j \in DOMAIN native :
            /\ derived[i].at = x.at /\ native[j].at = x.at
            /\ \A k \in DOMAIN native : native[k].at = x.at => k <= j
            /\ LET gap == derived[i][x.field] - native[j][x.field]
               IN  gap > tolerance \/ -gap > tolerance}
=============================================================================
