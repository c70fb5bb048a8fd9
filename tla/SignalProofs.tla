----------------------------- MODULE SignalProofs ----------------------------
(***************************************************************************)
(* No strategy looks ahead, for every lookback and every two series of a   *)
(* length: as far as the rows agree, so do the signals.  And the account   *)
(* follows the signals, unless the engine refuses an order.                *)
(***************************************************************************)
EXTENDS SignalProperties, BacktestProofs

(***************************************************************************)
(* The loop of a rule: g is its recursive function up to row m.            *)
(***************************************************************************)
HeldTable(g, rule, first, m) ==
    g = [i \in 0..m |-> IF i < first THEN FLAT ELSE rule[i][g[i - 1]]]

LEMMA HeldTableExists ==
    ASSUME NEW rule, NEW first \in Nat \ {0}, NEW n \in Nat
    PROVE  \E g : HeldTable(g, rule, first, n)
<1> DEFINE Bad == {m \in Nat : ~\E g : HeldTable(g, rule, first, m)}
<1> SUFFICES ASSUME Bad # {} PROVE FALSE
  OBVIOUS
<1>1. Bad \in SUBSET Nat
  OBVIOUS
<1> HIDE DEF Bad
<1>2. PICK m \in Bad : \A k \in Bad : m <= k
  BY <1>1, LeastNatural
<1> USE DEF Bad
<1>3. m # 0
  <2> DEFINE g == [i \in 0..0 |-> FLAT]
  <2>1. \A i \in 0..0 : i < first
    OBVIOUS
  <2>2. HeldTable(g, rule, first, 0)
    BY <2>1 DEF HeldTable
  <2> HIDE DEF g
  <2> QED BY <2>2
<1>4. PICK g : HeldTable(g, rule, first, m - 1)
  BY <1>2, <1>3
<1> DEFINE h == [i \in 0..m |-> IF i < m THEN g[i]
                                ELSE IF i < first THEN FLAT ELSE rule[i][g[i - 1]]]
<1>5. ASSUME NEW i \in 0..m
      PROVE  h[i] = IF i < first THEN FLAT ELSE rule[i][h[i - 1]]
  <2>1. CASE i = m
    <3>1. i - 1 \in 0..m /\ i - 1 < m
      BY <1>3, <2>1
    <3> QED BY <2>1, <3>1
  <2>2. CASE i # m
    <3>1. i \in 0..m - 1 /\ i < m
      BY <2>2
    <3>2. g[i] = IF i < first THEN FLAT ELSE rule[i][g[i - 1]]
      BY <1>4, <3>1 DEF HeldTable
    <3>3. ~(i < first) => i - 1 \in 0..m /\ i - 1 < m
      OBVIOUS
    <3> QED BY <3>1, <3>2, <3>3
  <2> QED BY <2>1, <2>2
<1>6. h = [i \in 0..m |-> h[i]]
  OBVIOUS
<1> HIDE DEF h
<1>7. HeldTable(h, rule, first, m)
  BY <1>5, <1>6 DEF HeldTable
<1> QED BY <1>7

LEMMA HeldUnfolds ==
    ASSUME NEW rule, NEW first \in Nat \ {0}, NEW n \in Nat, n >= 2
    PROVE  HeldTable(Held(rule, first, n), rule, first, n - 2)
<1>1. Held(rule, first, n) = CHOOSE g : HeldTable(g, rule, first, n - 2)
  BY DEF Held, HeldTable
<1>2. n - 2 \in Nat
  OBVIOUS
<1>3. \E g : HeldTable(g, rule, first, n - 2)
  BY <1>2, HeldTableExists
<1> QED BY <1>1, <1>3

\* Rules that say the same of the rows first to j.
Agree(rule, other, first, j) ==
    \A i \in first..j : \A t \in Targets : rule[i][t] = other[i][t] /\ rule[i][t] \in Targets

LEMMA HeldAgrees ==
    ASSUME NEW rule, NEW other, NEW first \in Nat \ {0}, NEW m \in Nat, NEW j \in 0..m,
           Agree(rule, other, first, j),
           NEW g, HeldTable(g, rule, first, m), NEW h, HeldTable(h, other, first, m)
    PROVE  \A i \in 0..j : g[i] = h[i] /\ g[i] \in Targets
<1> DEFINE Bad == {i \in 0..j : ~(g[i] = h[i] /\ g[i] \in Targets)}
<1> SUFFICES ASSUME Bad # {} PROVE FALSE
  OBVIOUS
<1>1. Bad \in SUBSET Nat
  OBVIOUS
<1> HIDE DEF Bad
<1>2. PICK i \in Bad : \A k \in Bad : i <= k
  BY <1>1, LeastNatural
<1>3. i \in 0..j /\ i \in 0..m /\ ~(g[i] = h[i] /\ g[i] \in Targets)
  BY DEF Bad
<1>4. /\ g[i] = IF i < first THEN FLAT ELSE rule[i][g[i - 1]]
      /\ h[i] = IF i < first THEN FLAT ELSE other[i][h[i - 1]]
  BY <1>3 DEF HeldTable
<1>5. CASE i < first
  BY <1>3, <1>4, <1>5 DEF Targets
<1>6. CASE ~(i < first)
  <2>1. i \in first..j /\ i - 1 \in 0..j /\ ~(i <= i - 1)
    BY <1>3, <1>6
  <2>2. i - 1 \notin Bad
    BY <1>2, <2>1
  <2>3. g[i - 1] = h[i - 1] /\ g[i - 1] \in Targets
    BY <2>1, <2>2 DEF Bad
  <2>4. rule[i][g[i - 1]] = other[i][g[i - 1]] /\ rule[i][g[i - 1]] \in Targets
    BY <2>1, <2>3 DEF Agree
  <2> QED BY <1>3, <1>4, <1>6, <2>3, <2>4
<1> QED BY <1>5, <1>6

\* Where two rules agree before row k, so do their signals.
LEMMA SignalsOfAgree ==
    ASSUME NEW rule, NEW other, NEW first \in Nat \ {0}, NEW n \in Nat, n >= 3,
           NEW k \in 1..n, Agree(rule, other, first, k - 1)
    PROVE  {s \in SignalsOf(rule, first, n) : s.at < k}
             \subseteq {s \in SignalsOf(other, first, n) : s.at < k}
<1>1. PICK g, h : g = Held(rule, first, n) /\ h = Held(other, first, n)
  OBVIOUS
<1>2. HeldTable(g, rule, first, n - 2) /\ HeldTable(h, other, first, n - 2)
  BY <1>1, HeldUnfolds
<1>3. PICK j \in 0..(n - 2) : j <= k - 1 /\ (k - 1 <= n - 2 => j = k - 1)
                              /\ (k - 1 > n - 2 => j = n - 2)
  <2>1. CASE k - 1 <= n - 2
    <3>1. k - 1 \in 0..(n - 2)
      BY <2>1
    <3> QED BY <2>1, <3>1
  <2>2. CASE ~(k - 1 <= n - 2)
    <3>1. n - 2 \in 0..(n - 2) /\ n - 2 <= k - 1
      BY <2>2
    <3> QED BY <2>2, <3>1
  <2> QED BY <2>1, <2>2
<1>4. \A i \in 0..j : g[i] = h[i]
  <2>1. Agree(rule, other, first, j)
    <3>1. \A i \in first..j : i \in first..(k - 1)
      BY <1>3
    <3> QED BY <3>1 DEF Agree
  <2>2. n - 2 \in Nat /\ j \in 0..(n - 2)
    BY <1>3
  <2>3. HeldTable(g, rule, first, n - 2)
    BY <1>2
  <2>4. HeldTable(h, other, first, n - 2)
    BY <1>2
  <2> HIDE <1>2, <1>3
  <2>5. \A i \in 0..j : g[i] = h[i] /\ g[i] \in Targets
    BY <2>1, <2>2, <2>3, <2>4, HeldAgrees
  <2> QED BY <2>5
<1> SUFFICES ASSUME NEW s \in SignalsOf(rule, first, n), s.at < k
             PROVE  s \in SignalsOf(other, first, n)
  OBVIOUS
<1>5. \/ \E i \in first..n - 2 : g[i] # g[i - 1] /\ s = Signal(i, g[i])
      \/ s = Signal(n - 1, FLAT) /\ g[n - 2] # FLAT
  BY <1>1 DEF SignalsOf
<1>6. ASSUME NEW i \in first..n - 2, g[i] # g[i - 1], s = Signal(i, g[i])
      PROVE  s \in SignalsOf(other, first, n)
  <2>1. s.at = i
    BY <1>6 DEF Signal
  <2>2. i \in 0..j /\ i - 1 \in 0..j
    BY <1>3, <2>1
  <2>3. h[i] = g[i] /\ h[i - 1] = g[i - 1]
    BY <1>4, <2>2
  <2>4. h[i] # h[i - 1] /\ s = Signal(i, h[i])
    BY <1>6, <2>3
  <2> QED BY <1>1, <2>4 DEF SignalsOf
<1>7. ASSUME s = Signal(n - 1, FLAT), g[n - 2] # FLAT
      PROVE  s \in SignalsOf(other, first, n)
  <2>1. s.at = n - 1
    BY <1>7 DEF Signal
  <2>2. n - 2 \in 0..j
    BY <1>3, <2>1
  <2>3. h[n - 2] # FLAT
    BY <1>4, <1>7, <2>2
  <2> QED BY <1>1, <1>7, <2>3 DEF SignalsOf
<1> QED BY <1>5, <1>6, <1>7

(***************************************************************************)
(* The rules read the rows up to their own.                                *)
(***************************************************************************)

\* Two series of n rows that are the same before row k.
SameBefore(rows, others, n, k) ==
    /\ DOMAIN rows = 1..n /\ DOMAIN others = 1..n
    /\ \A i \in 1..(k - 1) : rows[i] = others[i]

LEMMA ChannelsAgree ==
    ASSUME NEW rows, NEW others, NEW n \in Nat, NEW k \in 1..n,
           SameBefore(rows, others, n, k),
           NEW lookback \in Nat \ {0}, NEW i \in (lookback + 1)..(k - 1)
    PROVE  /\ Highest(rows, Prior(i, lookback)) = Highest(others, Prior(i, lookback))
           /\ Lowest(rows, Prior(i, lookback)) = Lowest(others, Prior(i, lookback))
           /\ BreaksUp(rows, i, lookback) <=> BreaksUp(others, i, lookback)
           /\ BreaksDown(rows, i, lookback) <=> BreaksDown(others, i, lookback)
<1>1. \A j \in Prior(i, lookback) : rows[j] = others[j]
  <2>1. \A j \in Prior(i, lookback) : j \in 1..(k - 1)
    BY DEF Prior
  <2> QED BY <2>1 DEF SameBefore
<1>2. rows[i] = others[i]
  <2>1. i \in 1..(k - 1)
    OBVIOUS
  <2> QED BY <2>1 DEF SameBefore
<1>3. {rows[j].high : j \in Prior(i, lookback)} = {others[j].high : j \in Prior(i, lookback)}
  BY <1>1
<1>4. {rows[j].low : j \in Prior(i, lookback)} = {others[j].low : j \in Prior(i, lookback)}
  BY <1>1
<1>5. /\ Highest(rows, Prior(i, lookback)) = Highest(others, Prior(i, lookback))
      /\ Lowest(rows, Prior(i, lookback)) = Lowest(others, Prior(i, lookback))
  BY <1>3, <1>4 DEF Highest, Lowest
<1> QED BY <1>2, <1>5 DEF BreaksUp, BreaksDown

LEMMA TrendAgrees ==
    ASSUME NEW rows, NEW others, NEW n \in Nat, NEW k \in 1..n,
           SameBefore(rows, others, n, k),
           NEW i \in (TrendLookback + 1)..(k - 1), NEW target \in Targets
    PROVE  /\ TrendTarget(rows, i, target) = TrendTarget(others, i, target)
           /\ TrendTarget(rows, i, target) \in Targets
<1>1. TrendLookback \in Nat \ {0}
  BY SignalAssumption
<1>2. /\ BreaksUp(rows, i, TrendLookback) <=> BreaksUp(others, i, TrendLookback)
      /\ BreaksDown(rows, i, TrendLookback) <=> BreaksDown(others, i, TrendLookback)
  BY <1>1, ChannelsAgree
<1> QED BY <1>2 DEF TrendTarget, Targets

LEMMA DualChannelAgrees ==
    ASSUME NEW rows, NEW others, NEW n \in Nat, NEW k \in 1..n,
           SameBefore(rows, others, n, k),
           NEW i \in (EntryLookback + 1)..(k - 1), NEW target \in Targets
    PROVE  /\ DualChannelTarget(rows, i, target) = DualChannelTarget(others, i, target)
           /\ DualChannelTarget(rows, i, target) \in Targets
<1>1. /\ EntryLookback \in Nat \ {0} /\ ExitLookback \in Nat \ {0}
      /\ i \in (ExitLookback + 1)..(k - 1) /\ i \in 1..(k - 1)
  BY SignalAssumption
<1>2. /\ BreaksUp(rows, i, EntryLookback) <=> BreaksUp(others, i, EntryLookback)
      /\ BreaksDown(rows, i, EntryLookback) <=> BreaksDown(others, i, EntryLookback)
  BY <1>1, ChannelsAgree
<1>3. /\ Highest(rows, Prior(i, ExitLookback)) = Highest(others, Prior(i, ExitLookback))
      /\ Lowest(rows, Prior(i, ExitLookback)) = Lowest(others, Prior(i, ExitLookback))
  <2>1. ExitLookback \in Nat \ {0}
    BY <1>1
  <2>2. i \in (ExitLookback + 1)..(k - 1)
    BY <1>1
  <2>3. ASSUME NEW lookback \in Nat \ {0}, NEW j \in (lookback + 1)..(k - 1)
        PROVE  /\ Highest(rows, Prior(j, lookback)) = Highest(others, Prior(j, lookback))
               /\ Lowest(rows, Prior(j, lookback)) = Lowest(others, Prior(j, lookback))
    BY ChannelsAgree
  <2> QED BY <2>1, <2>2, <2>3
<1>4. rows[i] = others[i]
  BY <1>1 DEF SameBefore
<1> QED BY <1>2, <1>3, <1>4 DEF DualChannelTarget, Targets

LEMMA ReversionAgrees ==
    ASSUME NEW rows, NEW others, NEW n \in Nat, NEW k \in 1..n,
           SameBefore(rows, others, n, k),
           NEW i \in ReversionLookback..(k - 1), NEW target \in Targets
    PROVE  /\ ReversionTarget(rows, i, target) = ReversionTarget(others, i, target)
           /\ ReversionTarget(rows, i, target) \in Targets
<1> DEFINE window == (i - ReversionLookback + 1)..i
<1>1. ReversionLookback \in Nat \ {0} /\ i \in 1..(k - 1)
  BY SignalAssumption
<1>2. \A j \in window : rows[j] = others[j]
  <2>1. \A j \in window : j \in 1..(k - 1)
    BY <1>1
  <2> QED BY <2>1 DEF SameBefore
<1>3. [j \in window |-> rows[j].close] = [j \in window |-> others[j].close]
  BY <1>2
<1>4. [j \in window |-> rows[j].close * rows[j].close]
        = [j \in window |-> others[j].close * others[j].close]
  BY <1>2
<1>5. rows[i] = others[i]
  BY <1>1 DEF SameBefore
<1> QED BY <1>3, <1>4, <1>5 DEF ReversionTarget, Targets

(***************************************************************************)
(* The signals of a strategy before row k are those of the rows before it. *)
(***************************************************************************)

\* The signals generated before row k closes.
Early(signals, k) == {s \in signals : s.at < k}

LEMMA RulesAgree ==
    ASSUME NEW rule, NEW other, NEW first \in Nat \ {0}, NEW n \in Nat, n >= 3,
           NEW k \in 1..n, Agree(rule, other, first, k - 1)
    PROVE  Early(SignalsOf(rule, first, n), k) = Early(SignalsOf(other, first, n), k)
<1>1. Agree(other, rule, first, k - 1)
  BY DEF Agree
<1>2. {s \in SignalsOf(rule, first, n) : s.at < k}
        \subseteq {s \in SignalsOf(other, first, n) : s.at < k}
  BY SignalsOfAgree
<1>3. {s \in SignalsOf(other, first, n) : s.at < k}
        \subseteq {s \in SignalsOf(rule, first, n) : s.at < k}
  BY <1>1, SignalsOfAgree
<1> QED BY <1>2, <1>3 DEF Early

Strategies == {"BUY_AND_HOLD", "RANDOM_ENTRY", "SIMPLE_TREND_FOLLOWING",
               "SIMPLE_MEAN_REVERSION", "DUAL_CHANNEL_TREND"}

LEMMA GenerateAgrees ==
    ASSUME NEW plan, plan.name \in Strategies, NEW n \in Nat, n >= 3, NEW k \in 1..n,
           NEW rows, NEW others, Len(rows) = n, Len(others) = n,
           SameBefore(rows, others, n, k)
    PROVE  Early(Generate(plan, rows), k) = Early(Generate(plan, others), k)
<1> DEFINE trend(r) == [i \in DOMAIN r |-> [t \in Targets |-> TrendTarget(r, i, t)]]
           reversion(r) == [i \in DOMAIN r |-> [t \in Targets |-> ReversionTarget(r, i, t)]]
           dual(r) == [i \in DOMAIN r |-> [t \in Targets |-> DualChannelTarget(r, i, t)]]
<1>0. DOMAIN rows = 1..n /\ DOMAIN others = 1..n
  BY DEF SameBefore
<1>1. /\ TrendLookback + 1 \in Nat \ {0}
      /\ ReversionLookback \in Nat \ {0}
      /\ EntryLookback + 1 \in Nat \ {0}
  BY SignalAssumption
<1>2. ASSUME NEW first \in Nat \ {0}, NEW i \in first..(k - 1)
      PROVE  i \in 1..n
  OBVIOUS
<1>3. Agree(trend(rows), trend(others), TrendLookback + 1, k - 1)
  <2> SUFFICES ASSUME NEW i \in (TrendLookback + 1)..(k - 1), NEW t \in Targets
               PROVE  /\ trend(rows)[i][t] = trend(others)[i][t]
                      /\ trend(rows)[i][t] \in Targets
    BY DEF Agree
  <2>1. i \in 1..n
    BY <1>1, <1>2
  <2>2. trend(rows)[i][t] = TrendTarget(rows, i, t)
    BY <1>0, <2>1
  <2>3. trend(others)[i][t] = TrendTarget(others, i, t)
    BY <1>0, <2>1
  <2> HIDE DEF trend
  <2>4. TrendTarget(rows, i, t) = TrendTarget(others, i, t) /\ TrendTarget(rows, i, t) \in Targets
    BY TrendAgrees
  <2> QED BY <2>2, <2>3, <2>4
<1>4. Agree(reversion(rows), reversion(others), ReversionLookback, k - 1)
  <2> SUFFICES ASSUME NEW i \in ReversionLookback..(k - 1), NEW t \in Targets
               PROVE  /\ reversion(rows)[i][t] = reversion(others)[i][t]
                      /\ reversion(rows)[i][t] \in Targets
    BY DEF Agree
  <2>1. i \in 1..n
    BY <1>1, <1>2
  <2>2. reversion(rows)[i][t] = ReversionTarget(rows, i, t)
    BY <1>0, <2>1
  <2>3. reversion(others)[i][t] = ReversionTarget(others, i, t)
    BY <1>0, <2>1
  <2> HIDE DEF reversion
  <2>4. /\ ReversionTarget(rows, i, t) = ReversionTarget(others, i, t)
        /\ ReversionTarget(rows, i, t) \in Targets
    BY ReversionAgrees
  <2> QED BY <2>2, <2>3, <2>4
<1>5. Agree(dual(rows), dual(others), EntryLookback + 1, k - 1)
  <2> SUFFICES ASSUME NEW i \in (EntryLookback + 1)..(k - 1), NEW t \in Targets
               PROVE  /\ dual(rows)[i][t] = dual(others)[i][t]
                      /\ dual(rows)[i][t] \in Targets
    BY DEF Agree
  <2>1. i \in 1..n
    BY <1>1, <1>2
  <2>2. dual(rows)[i][t] = DualChannelTarget(rows, i, t)
    BY <1>0, <2>1
  <2>3. dual(others)[i][t] = DualChannelTarget(others, i, t)
    BY <1>0, <2>1
  <2> HIDE DEF dual
  <2>4. /\ DualChannelTarget(rows, i, t) = DualChannelTarget(others, i, t)
        /\ DualChannelTarget(rows, i, t) \in Targets
    BY DualChannelAgrees
  <2> QED BY <2>2, <2>3, <2>4
<1>6. CASE plan.name = "BUY_AND_HOLD"
  <2>1. Generate(plan, rows) = {Signal(1, LONG), Signal(n - 1, FLAT)}
    BY <1>6 DEF Generate
  <2>2. Generate(plan, others) = {Signal(1, LONG), Signal(n - 1, FLAT)}
    BY <1>6 DEF Generate
  <2> QED BY <2>1, <2>2
<1>7. CASE plan.name = "RANDOM_ENTRY"
  <2>1. Generate(plan, rows) = RandomSignals(plan.draws, n)
    BY <1>7 DEF Generate
  <2>2. Generate(plan, others) = RandomSignals(plan.draws, n)
    BY <1>7 DEF Generate
  <2> QED BY <2>1, <2>2
<1>8. CASE plan.name = "SIMPLE_TREND_FOLLOWING"
  <2>1. Generate(plan, rows) = SignalsOf(trend(rows), TrendLookback + 1, n)
    BY <1>8 DEF Generate
  <2>2. Generate(plan, others) = SignalsOf(trend(others), TrendLookback + 1, n)
    BY <1>8 DEF Generate
  <2> HIDE DEF trend
  <2> QED BY <1>1, <1>3, <2>1, <2>2, RulesAgree
<1>9. CASE plan.name = "SIMPLE_MEAN_REVERSION"
  <2>1. Generate(plan, rows) = SignalsOf(reversion(rows), ReversionLookback, n)
    BY <1>9 DEF Generate
  <2>2. Generate(plan, others) = SignalsOf(reversion(others), ReversionLookback, n)
    BY <1>9 DEF Generate
  <2> HIDE DEF reversion
  <2> QED BY <1>1, <1>4, <2>1, <2>2, RulesAgree
<1>10. CASE plan.name = "DUAL_CHANNEL_TREND"
  <2>1. Generate(plan, rows) = SignalsOf(dual(rows), EntryLookback + 1, n)
    BY <1>10 DEF Generate
  <2>2. Generate(plan, others) = SignalsOf(dual(others), EntryLookback + 1, n)
    BY <1>10 DEF Generate
  <2> HIDE DEF dual
  <2> QED BY <1>1, <1>5, <2>1, <2>2, RulesAgree
<1> QED BY <1>6, <1>7, <1>8, <1>9, <1>10 DEF Strategies

(***************************************************************************)
(* A run keeps its series, its strategy and the signals of the two.        *)
(***************************************************************************)
GeneratedOf(plan, rows, signals) ==
    /\ \E run \in Experiments : plan = run.strategy /\ rows = run.rows
    /\ signals = Generate(plan, rows)

LEMMA EarlySignalsStand ==
    ASSUME NEW plan, NEW rows, NEW signals, GeneratedOf(plan, rows, signals),
           NEW k \in DOMAIN rows
    PROVE  LET other == [i \in DOMAIN rows |-> IF i < k THEN rows[i] ELSE rows[1]]
           IN  {s \in Generate(plan, other) : s.at < k} = {s \in signals : s.at < k}
<1> DEFINE other == [i \in DOMAIN rows |-> IF i < k THEN rows[i] ELSE rows[1]]
<1>1. PICK run \in Experiments : plan = run.strategy /\ rows = run.rows
  BY DEF GeneratedOf
<1>2. plan.name \in Strategies /\ rows \in Seq(Range(rows)) /\ Len(rows) >= 3
  BY <1>1, ExperimentsAssumption DEF Strategies
<1>3. PICK n \in Nat : n = Len(rows)
  BY <1>2
<1>4. PICK C : C = Range(rows)
  OBVIOUS
<1>5. rows \in Seq(C) /\ n >= 3 /\ DOMAIN rows = 1..n
  BY <1>2, <1>3, <1>4
<1>6. \A i \in 1..n : rows[i] \in C
  BY <1>3, <1>5
<1>7. k \in 1..n /\ 1 \in 1..n
  BY <1>5
<1>8. other \in [1..n -> C]
  BY <1>5, <1>6, <1>7
<1>9. DOMAIN other = 1..n /\ Len(other) = n
  BY <1>3, <1>8
<1>10. SameBefore(rows, other, n, k)
  <2>1. \A i \in 1..(k - 1) : i \in 1..n /\ i < k
    BY <1>7
  <2>2. \A i \in 1..(k - 1) : rows[i] = other[i]
    BY <1>5, <2>1
  <2> QED BY <1>5, <1>9, <2>2 DEF SameBefore
<1> HIDE DEF other
<1>11. Early(Generate(plan, rows), k) = Early(Generate(plan, other), k)
  BY <1>2, <1>3, <1>5, <1>7, <1>9, <1>10, GenerateAgrees
<1>12. {s \in Generate(plan, other) : s.at < k} = {s \in signals : s.at < k}
  BY <1>11 DEF Early, GeneratedOf
<1> QED BY <1>12 DEF other

LEMMA GeneratedInit == TradingInit => GeneratedOf(strategy, candles, generated)
  BY DEF TradingInit, GeneratedOf

LEMMA GeneratedStep ==
    GeneratedOf(strategy, candles, generated) /\ [TradingNext]_tradingVars
        => GeneratedOf(strategy, candles, generated)'
<1> SUFFICES ASSUME GeneratedOf(strategy, candles, generated), [TradingNext]_tradingVars
             PROVE  GeneratedOf(strategy, candles, generated)'
  OBVIOUS
<1>1. strategy' = strategy /\ candles' = candles /\ generated' = generated
  BY DEF TradingNext, tradingVars
<1> QED BY <1>1 DEF GeneratedOf

\* A strategy's signals before the close of a row depend on the rows before
\* it alone: generate in strategies/trend.py and benchmarks/strategies.py, for
\* every lookback and every series of at least three rows.
THEOREM SignalsNeverLookAhead == TradingSpec => []NoLookAhead
<1>1. GeneratedOf(strategy, candles, generated) => NoLookAhead
  <2> SUFFICES ASSUME GeneratedOf(strategy, candles, generated), NEW k \in DOMAIN candles
               PROVE  LET other == [i \in DOMAIN candles |->
                                       IF i < k THEN candles[i] ELSE candles[1]]
                      IN  {s \in Generate(strategy, other) : s.at < k}
                            = {s \in generated : s.at < k}
    BY DEF NoLookAhead
  <2> QED BY EarlySignalsStand
<1> QED BY <1>1, GeneratedInit, GeneratedStep, PTL DEF TradingSpec
-----------------------------------------------------------------------------
(***************************************************************************)
(* What compile_signals accepts: one signal a row, each a change, and the  *)
(* orders are numbered in the order of their rows.                         *)
(***************************************************************************)
Compiles(signals, rows) ==
    /\ Compilable(signals, rows)
    /\ Len(rows) \in Nat
    /\ \A s \in signals : s.target \in Targets

UpTo(signals, s) == {t \in signals : t.at <= s.at}
RankOf(signals, s) == Cardinality(UpTo(signals, s))

LEMMA SignalRows ==
    ASSUME NEW S, NEW rows, Compiles(S, rows)
    PROVE  /\ \A s \in S : s.at \in Nat \ {0} /\ s.at \in 1..(Len(rows) - 1)
           /\ \A s, t \in S : s.at = t.at => s = t
           /\ IsFiniteSet(S)
<1>1. Len(rows) \in Nat /\ \A s \in S : s.at \in 1..(Len(rows) - 1)
  BY DEF Compiles, Compilable
<1>2. \A s, t \in S : s.at = t.at => s = t
  BY DEF Compiles, Compilable
<1> DEFINE f == [s \in S |-> s.at]
           rowsUsed == 1..(Len(rows) - 1)
<1>3. f \in Injection(S, rowsUsed)
  BY <1>1, <1>2 DEF Injection, IsInjective
<1>4. IsFiniteSet(rowsUsed)
  BY <1>1, FS_Interval
<1> HIDE DEF f, rowsUsed
<1>5. IsFiniteSet(S)
  BY <1>3, <1>4, FS_Injection
<1>6. \A s \in S : s.at \in Nat \ {0}
  BY <1>1
<1> QED BY <1>1, <1>2, <1>5, <1>6

LEMMA RanksNumber ==
    ASSUME NEW S, NEW rows, Compiles(S, rows)
    PROVE  /\ Cardinality(S) \in Nat
           /\ \A s \in S : RankOf(S, s) \in 1..Cardinality(S)
           /\ \A s, t \in S : RankOf(S, s) = RankOf(S, t) => s = t
           /\ \A k \in 1..Cardinality(S) : \E s \in S : RankOf(S, s) = k
<1>1. /\ \A s \in S : s.at \in Nat
      /\ \A s, t \in S : s.at = t.at => s = t
      /\ IsFiniteSet(S)
  BY SignalRows
<1>2. Cardinality(S) \in Nat
  BY <1>1, FS_CardinalityType
<1>3. ASSUME NEW s \in S
      PROVE  /\ IsFiniteSet(UpTo(S, s)) /\ s \in UpTo(S, s)
             /\ RankOf(S, s) \in 1..Cardinality(S)
  <2>1. UpTo(S, s) \in SUBSET S /\ s \in UpTo(S, s)
    BY <1>1 DEF UpTo
  <2>2. IsFiniteSet(UpTo(S, s)) /\ Cardinality(UpTo(S, s)) <= Cardinality(S)
    BY <1>1, <2>1, FS_Subset
  <2>3. Cardinality(UpTo(S, s)) \in Nat /\ Cardinality(UpTo(S, s)) # 0
    BY <2>1, <2>2, FS_EmptySet, FS_CardinalityType
  <2> QED BY <1>2, <2>1, <2>2, <2>3 DEF RankOf
<1>4. ASSUME NEW s \in S, NEW t \in S, s.at < t.at
      PROVE  RankOf(S, s) # RankOf(S, t)
  <2>1. UpTo(S, s) \in SUBSET UpTo(S, t) /\ t \notin UpTo(S, s)
    BY <1>1, <1>4 DEF UpTo
  <2>2. t \in UpTo(S, t)
    BY <1>3
  <2>3. IsFiniteSet(UpTo(S, t))
    BY <1>3
  <2>4. Cardinality(UpTo(S, t)) = Cardinality(UpTo(S, s)) => UpTo(S, t) = UpTo(S, s)
    BY <2>1, <2>3, FS_Subset
  <2> QED BY <2>1, <2>2, <2>4 DEF RankOf
<1>5. ASSUME NEW s \in S, NEW t \in S, RankOf(S, s) = RankOf(S, t)
      PROVE  s = t
  <2>1. ~(s.at < t.at) /\ ~(t.at < s.at)
    BY <1>4, <1>5
  <2>2. s.at = t.at
    BY <1>1, <2>1
  <2> QED BY <1>1, <2>2
<1> DEFINE C == Cardinality(S)
           r == [s \in S |-> RankOf(S, s)]
<1>6. r \in Injection(S, 1..C)
  BY <1>3, <1>5 DEF Injection, IsInjective
<1>7. IsFiniteSet(1..C) /\ Cardinality(1..C) = C
  BY <1>2, FS_Interval
<1>8. r \in Surjection(S, 1..C)
  <2>1. Cardinality(S) = Cardinality(1..C)
    BY <1>7
  <2> HIDE DEF r, C
  <2> QED BY <1>6, <1>7, <2>1, FS_Injection
<1>9. \A k \in 1..C : \E s \in S : RankOf(S, s) = k
  BY <1>8 DEF Surjection
<1> QED BY <1>2, <1>3, <1>5, <1>9

\* The orders, by their ids.
LEMMA CompiledOrders ==
    ASSUME NEW S, NEW rows, Compiles(S, rows)
    PROVE  /\ DOMAIN Compile(S) = 1..Cardinality(S)
           /\ Cardinality(S) \in Nat
           /\ \A k \in 1..Cardinality(S) :
                 /\ Compile(S)[k].id = k
                 /\ \E s \in S : Compile(S)[k] = OrderOf(S, s)
           /\ \A s \in S : \E k \in 1..Cardinality(S) : Compile(S)[k] = OrderOf(S, s)
<1>1. Cardinality(S) \in Nat
  BY RanksNumber
<1>2. \A s \in S : OrderOf(S, s).id = RankOf(S, s)
  BY DEF OrderOf, RankOf, UpTo
<1>3. ASSUME NEW k \in 1..Cardinality(S), NEW s \in S, RankOf(S, s) = k
      PROVE  Compile(S)[k] = OrderOf(S, s)
  <2> DEFINE orders == {OrderOf(S, t) : t \in S}
  <2>1. OrderOf(S, s) \in orders /\ OrderOf(S, s).id = k
    BY <1>2, <1>3
  <2>2. ASSUME NEW o \in orders, o.id = k PROVE o = OrderOf(S, s)
    <3>1. PICK t \in S : o = OrderOf(S, t)
      OBVIOUS
    <3>2. RankOf(S, t) = RankOf(S, s)
      BY <1>2, <1>3, <2>2, <3>1
    <3>3. t = s
      BY <3>2, RanksNumber
    <3> QED BY <3>1, <3>3
  <2>3. Compile(S)[k] = CHOOSE o \in orders : o.id = k
    BY DEF Compile
  <2> HIDE DEF orders
  <2> QED BY <2>1, <2>2, <2>3
<1>4. ASSUME NEW k \in 1..Cardinality(S)
      PROVE  Compile(S)[k].id = k /\ \E s \in S : Compile(S)[k] = OrderOf(S, s)
  <2>1. PICK s \in S : RankOf(S, s) = k
    BY RanksNumber
  <2>2. Compile(S)[k] = OrderOf(S, s)
    BY <1>3, <2>1
  <2> QED BY <1>2, <2>1, <2>2
<1>5. ASSUME NEW s \in S PROVE \E k \in 1..Cardinality(S) : Compile(S)[k] = OrderOf(S, s)
  <2>1. RankOf(S, s) \in 1..Cardinality(S)
    BY RanksNumber
  <2> QED BY <1>3, <2>1
<1>6. DOMAIN Compile(S) = 1..Cardinality(S)
  BY DEF Compile
<1> QED BY <1>1, <1>4, <1>5, <1>6

(***************************************************************************)
(* Every strategy signals targets: flat, long or short.                    *)
(***************************************************************************)
LEMMA RuleTargets ==
    ASSUME NEW rule, NEW first \in Nat \ {0}, NEW n \in Nat, n >= 3,
           Agree(rule, rule, first, n - 1)
    PROVE  \A s \in SignalsOf(rule, first, n) : s.target \in Targets
<1>1. PICK g : g = Held(rule, first, n)
  OBVIOUS
<1>2. HeldTable(g, rule, first, n - 2)
  BY <1>1, HeldUnfolds
<1>3. n - 2 \in Nat /\ n - 2 \in 0..(n - 2)
  OBVIOUS
<1>4. Agree(rule, rule, first, n - 2)
  BY DEF Agree
<1>5. \A i \in 0..(n - 2) : g[i] \in Targets
  BY <1>2, <1>3, <1>4, HeldAgrees
<1> SUFFICES ASSUME NEW s \in SignalsOf(rule, first, n) PROVE s.target \in Targets
  OBVIOUS
<1>6. \/ \E i \in first..n - 2 : s = Signal(i, g[i])
      \/ s = Signal(n - 1, FLAT)
  BY <1>1 DEF SignalsOf
<1> QED BY <1>5, <1>6 DEF Signal, Targets

\* The loop of RandomEntry: h is its recursive function up to row m.
RandomTable(h, draws, n, m) ==
    h = [i \in 0..m |->
            IF i = 0 THEN [target |-> FLAT, exit |-> 0]
            ELSE IF h[i - 1].target # FLAT
              THEN IF i >= h[i - 1].exit THEN [target |-> FLAT, exit |-> 0] ELSE h[i - 1]
            ELSE IF i + HoldingBars < n /\ draws[i] # FLAT
              THEN [target |-> draws[i], exit |-> i + HoldingBars]
            ELSE [target |-> FLAT, exit |-> 0]]

LEMMA RandomTableExists ==
    ASSUME NEW draws, NEW n, NEW last \in Nat
    PROVE  \E h : RandomTable(h, draws, n, last)
<1> DEFINE Bad == {m \in Nat : ~\E h : RandomTable(h, draws, n, m)}
           entry(i, before) ==
              IF i = 0 THEN [target |-> FLAT, exit |-> 0]
              ELSE IF before.target # FLAT
                THEN IF i >= before.exit THEN [target |-> FLAT, exit |-> 0] ELSE before
              ELSE IF i + HoldingBars < n /\ draws[i] # FLAT
                THEN [target |-> draws[i], exit |-> i + HoldingBars]
              ELSE [target |-> FLAT, exit |-> 0]
<1>0. ASSUME NEW h, NEW m
      PROVE  RandomTable(h, draws, n, m) <=> h = [i \in 0..m |-> entry(i, h[i - 1])]
  BY DEF RandomTable
<1>a. \A b, c : entry(0, b) = entry(0, c)
  OBVIOUS
<1> HIDE DEF entry
<1> SUFFICES ASSUME Bad # {} PROVE FALSE
  OBVIOUS
<1>1. Bad \in SUBSET Nat
  OBVIOUS
<1> HIDE DEF Bad
<1>2. PICK m \in Bad : \A k \in Bad : m <= k
  BY <1>1, LeastNatural
<1> USE DEF Bad
<1>3. m # 0
  <2> DEFINE h == [i \in 0..0 |-> entry(0, 0)]
  <2>1. h = [i \in 0..0 |-> entry(i, h[i - 1])]
    BY <1>a
  <2> HIDE DEF h
  <2>2. RandomTable(h, draws, n, 0)
    BY <1>0, <2>1
  <2> QED BY <2>2
<1>4. PICK h : RandomTable(h, draws, n, m - 1)
  BY <1>2, <1>3
<1> DEFINE longer == [i \in 0..m |-> IF i < m THEN h[i] ELSE entry(i, h[i - 1])]
<1>5. ASSUME NEW i \in 0..m
      PROVE  longer[i] = entry(i, longer[i - 1])
  <2>1. CASE i = m
    <3>1. i - 1 \in 0..m /\ i - 1 < m
      BY <1>3, <2>1
    <3> QED BY <2>1, <3>1
  <2>2. CASE i # m
    <3>1. i \in 0..(m - 1) /\ i < m
      BY <2>2
    <3>2. h[i] = entry(i, h[i - 1])
      BY <1>0, <1>4, <3>1
    <3>3. CASE i = 0
      BY <1>a, <3>1, <3>2, <3>3
    <3>4. CASE i # 0
      <4>1. i - 1 \in 0..m /\ i - 1 < m
        BY <3>1, <3>4
      <4> QED BY <3>1, <3>2, <4>1
    <3> QED BY <3>3, <3>4
  <2> QED BY <2>1, <2>2
<1>6. longer = [i \in 0..m |-> longer[i]]
  OBVIOUS
<1> HIDE DEF longer
<1>7. longer = [i \in 0..m |-> entry(i, longer[i - 1])]
  BY <1>5, <1>6
<1>8. RandomTable(longer, draws, n, m)
  BY <1>0, <1>7
<1> QED BY <1>8

LEMMA RandomTargets ==
    ASSUME NEW draws, NEW n \in Nat \ {0}, \A i \in 1..n : draws[i] \in Targets
    PROVE  \A s \in RandomSignals(draws, n) : s.target \in Targets
<1> DEFINE h == CHOOSE g : RandomTable(g, draws, n, n - 1)
<1>1. RandomTable(h, draws, n, n - 1)
  <2>1. n - 1 \in Nat
    OBVIOUS
  <2> QED BY <2>1, RandomTableExists
<1>2. RandomSignals(draws, n) =
        {Signal(i, h[i].target) : i \in {k \in 1..n - 1 : h[k].target # h[k - 1].target}}
  BY DEF RandomSignals, RandomTable
<1> HIDE DEF h
<1> DEFINE Bad == {i \in 0..(n - 1) : h[i].target \notin Targets}
<1>3. Bad = {}
  <2> SUFFICES ASSUME Bad # {} PROVE FALSE
    OBVIOUS
  <2>1. Bad \in SUBSET Nat
    OBVIOUS
  <2> HIDE DEF Bad
  <2>2. PICK i \in Bad : \A k \in Bad : i <= k
    BY <2>1, LeastNatural
  <2>3. i \in 0..(n - 1) /\ h[i].target \notin Targets
    BY DEF Bad
  <2>4. h[i] = IF i = 0 THEN [target |-> FLAT, exit |-> 0]
            ELSE IF h[i - 1].target # FLAT
              THEN IF i >= h[i - 1].exit THEN [target |-> FLAT, exit |-> 0] ELSE h[i - 1]
            ELSE IF i + HoldingBars < n /\ draws[i] # FLAT
              THEN [target |-> draws[i], exit |-> i + HoldingBars]
            ELSE [target |-> FLAT, exit |-> 0]
    BY <1>1, <2>3 DEF RandomTable
  <2>5. i # 0 => h[i - 1].target \in Targets /\ draws[i] \in Targets
    <3> SUFFICES ASSUME i # 0 PROVE h[i - 1].target \in Targets /\ draws[i] \in Targets
      OBVIOUS
    <3>1. i - 1 \in 0..(n - 1) /\ ~(i <= i - 1) /\ i \in 1..n
      BY <2>3
    <3>2. i - 1 \notin Bad
      BY <2>2, <3>1
    <3> QED BY <3>1, <3>2 DEF Bad
  <2> QED BY <2>3, <2>4, <2>5 DEF Targets
<1>4. \A i \in 1..n - 1 : h[i].target \in Targets
  BY <1>3
<1> QED BY <1>2, <1>4 DEF Signal

LEMMA GeneratesTargets ==
    ASSUME NEW plan, NEW rows, NEW signals, GeneratedOf(plan, rows, signals)
    PROVE  \A s \in signals : s.target \in Targets
<1> DEFINE trend == [i \in DOMAIN rows |-> [t \in Targets |-> TrendTarget(rows, i, t)]]
           reversion == [i \in DOMAIN rows |-> [t \in Targets |-> ReversionTarget(rows, i, t)]]
           dual == [i \in DOMAIN rows |-> [t \in Targets |-> DualChannelTarget(rows, i, t)]]
<1>1. PICK run \in Experiments : plan = run.strategy /\ rows = run.rows
  BY DEF GeneratedOf
<1>2. /\ plan.name \in Strategies /\ rows \in Seq(Range(rows)) /\ Len(rows) >= 3
      /\ plan.name = "RANDOM_ENTRY" => \A i \in 1..Len(rows) : plan.draws[i] \in Targets
  BY <1>1, ExperimentsAssumption DEF Strategies
<1>3. PICK n \in Nat \ {0} : n = Len(rows)
  BY <1>2
<1>4. n >= 3 /\ n \in 1..n /\ DOMAIN rows = 1..n
  BY <1>2, <1>3
<1>5. SameBefore(rows, rows, n, n)
  BY <1>4 DEF SameBefore
<1>6. /\ TrendLookback + 1 \in Nat \ {0}
      /\ ReversionLookback \in Nat \ {0}
      /\ EntryLookback + 1 \in Nat \ {0}
  BY SignalAssumption
<1>7. signals = Generate(plan, rows)
  BY DEF GeneratedOf
<1>8. ASSUME NEW first \in Nat \ {0}, NEW i \in first..(n - 1) PROVE i \in 1..n
  OBVIOUS
<1>9. CASE plan.name = "BUY_AND_HOLD"
  <2>1. signals = {Signal(1, LONG), Signal(n - 1, FLAT)}
    BY <1>3, <1>7, <1>9 DEF Generate
  <2> QED BY <2>1 DEF Signal, Targets
<1>10. CASE plan.name = "RANDOM_ENTRY"
  <2>1. signals = RandomSignals(plan.draws, n)
    BY <1>3, <1>7, <1>10 DEF Generate
  <2> QED BY <1>2, <1>3, <1>10, <2>1, RandomTargets
<1>11. CASE plan.name = "SIMPLE_TREND_FOLLOWING"
  <2>1. signals = SignalsOf(trend, TrendLookback + 1, n)
    BY <1>3, <1>7, <1>11 DEF Generate
  <2>2. ASSUME NEW i \in (TrendLookback + 1)..(n - 1), NEW t \in Targets
        PROVE  trend[i][t] \in Targets
    <3>1. TrendTarget(rows, i, t) \in Targets
      BY <1>4, <1>5, TrendAgrees
    <3>2. i \in 1..n
      BY <1>6, <1>8
    <3> QED BY <1>4, <3>1, <3>2
  <2> HIDE DEF trend
  <2>3. Agree(trend, trend, TrendLookback + 1, n - 1)
    BY <2>2 DEF Agree
  <2> QED BY <1>4, <1>6, <2>1, <2>3, RuleTargets
<1>12. CASE plan.name = "SIMPLE_MEAN_REVERSION"
  <2>1. signals = SignalsOf(reversion, ReversionLookback, n)
    BY <1>3, <1>7, <1>12 DEF Generate
  <2>2. ASSUME NEW i \in ReversionLookback..(n - 1), NEW t \in Targets
        PROVE  reversion[i][t] \in Targets
    <3>1. ReversionTarget(rows, i, t) \in Targets
      BY <1>4, <1>5, ReversionAgrees
    <3>2. i \in 1..n
      BY <1>6, <1>8
    <3> QED BY <1>4, <3>1, <3>2
  <2> HIDE DEF reversion
  <2>3. Agree(reversion, reversion, ReversionLookback, n - 1)
    BY <2>2 DEF Agree
  <2> QED BY <1>4, <1>6, <2>1, <2>3, RuleTargets
<1>13. CASE plan.name = "DUAL_CHANNEL_TREND"
  <2>1. signals = SignalsOf(dual, EntryLookback + 1, n)
    BY <1>3, <1>7, <1>13 DEF Generate
  <2>2. ASSUME NEW i \in (EntryLookback + 1)..(n - 1), NEW t \in Targets
        PROVE  dual[i][t] \in Targets
    <3>1. DualChannelTarget(rows, i, t) \in Targets
      BY <1>4, <1>5, DualChannelAgrees
    <3>2. i \in 1..n
      BY <1>6, <1>8
    <3> QED BY <1>4, <3>1, <3>2
  <2> HIDE DEF dual
  <2>3. Agree(dual, dual, EntryLookback + 1, n - 1)
    BY <2>2 DEF Agree
  <2> QED BY <1>4, <1>6, <2>1, <2>3, RuleTargets
<1> QED BY <1>2, <1>9, <1>10, <1>11, <1>12, <1>13 DEF Strategies

(***************************************************************************)
(* The target the signals leave, time after time.                          *)
(***************************************************************************)
LEMMA TargetsUnfold ==
    ASSUME NEW S, NEW rows, Compiles(S, rows)
    PROVE  /\ TargetBefore(S, 0) = FLAT
           /\ \A s \in S : TargetBefore(S, s.at + 1) = s.target
           /\ \A t \in Nat : (\A s \in S : s.at # t)
                                => TargetBefore(S, t + 1) = TargetBefore(S, t)
           /\ \A t \in Nat : TargetBefore(S, t) \in Targets
<1>1. /\ \A s \in S : s.at \in Nat \ {0}
      /\ \A s, t \in S : s.at = t.at => s = t
  BY SignalRows
<1>2. TargetBefore(S, 0) = FLAT
  <2>1. {s \in S : s.at < 0} = {}
    BY <1>1
  <2> QED BY <2>1 DEF TargetBefore
<1>3. ASSUME NEW s \in S PROVE TargetBefore(S, s.at + 1) = s.target
  <2> DEFINE earlier == {t \in S : t.at < s.at + 1}
  <2>1. s \in earlier /\ \A t \in earlier : t \in S /\ t.at <= s.at
    BY <1>1
  <2>2. \A x \in earlier : (\A t \in earlier : t.at <= x.at) => x = s
    BY <1>1, <2>1
  <2>3. TargetBefore(S, s.at + 1) = IF earlier = {} THEN FLAT ELSE Latest(earlier).target
    BY DEF TargetBefore
  <2> HIDE DEF earlier
  <2>4. Latest(earlier) = s
    BY <2>1, <2>2 DEF Latest
  <2> QED BY <2>1, <2>3, <2>4
<1>4. ASSUME NEW t \in Nat, \A s \in S : s.at # t
      PROVE  TargetBefore(S, t + 1) = TargetBefore(S, t)
  <2>1. {s \in S : s.at < t + 1} = {s \in S : s.at < t}
    BY <1>1, <1>4
  <2> QED BY <2>1 DEF TargetBefore
<1> DEFINE Bad == {t \in Nat : TargetBefore(S, t) \notin Targets}
<1>5. Bad = {}
  <2> SUFFICES ASSUME Bad # {} PROVE FALSE
    OBVIOUS
  <2>1. Bad \in SUBSET Nat
    OBVIOUS
  <2> HIDE DEF Bad
  <2>2. PICK t \in Bad : \A k \in Bad : t <= k
    BY <2>1, LeastNatural
  <2>3. t \in Nat /\ TargetBefore(S, t) \notin Targets
    BY DEF Bad
  <2>4. t # 0
    BY <1>2, <2>3 DEF Targets
  <2>5. PICK m \in Nat : t = m + 1
    <3>1. t - 1 \in Nat /\ t = (t - 1) + 1
      BY <2>3, <2>4
    <3> QED BY <3>1
  <2>6. TargetBefore(S, m) \in Targets
    <3>1. m \notin Bad
      BY <2>2, <2>5
    <3> QED BY <3>1 DEF Bad
  <2>7. CASE \E s \in S : s.at = m
    <3>1. PICK s \in S : s.at = m
      BY <2>7
    <3>2. TargetBefore(S, t) = s.target
      BY <1>3, <2>5, <3>1
    <3> QED BY <2>3, <3>2 DEF Compiles
  <2>8. CASE ~\E s \in S : s.at = m
    BY <1>4, <2>3, <2>5, <2>6, <2>8
  <2> QED BY <2>7, <2>8
<1> QED BY <1>2, <1>3, <1>4, <1>5
-----------------------------------------------------------------------------
(***************************************************************************)
(* The order of a signal: it is accepted, the next row has the volume for  *)
(* all of it, and it moves the position from one target to the next.       *)
(***************************************************************************)
LEMMA MultipleOf ==
    ASSUME NEW d \in Nat \ {0}, NEW m \in Int
    PROVE  (d * m) % d = 0
<1>1. PICK a \in Int : a = d * m
  OBVIOUS
<1>2. a \div d \in Int /\ a % d \in Int /\ a = d * (a \div d) + (a % d) /\ 0 <= a % d
  OBVIOUS
<1>3. m <= a \div d
  BY <1>1, FloorIsGreatest
<1>4. d * m <= d * (a \div d)
  BY <1>2, <1>3
<1> QED BY <1>1, <1>2, <1>4

\* A multiple of the unit, which is a whole number of steps.
LEMMA UnitsOfStep ==
    ASSUME NEW S, NEW rows, Compiles(S, rows), NEW c \in Int
    PROVE  \E m \in Int : UnitQuantity * c = QuantityStep[1] * m
<1>1. QuantityStep[1] \in Nat \ {0} /\ UnitQuantity \in Nat
  BY ParametersAssumption, SignalAssumption DEF Symbols
<1>2. UnitQuantity % QuantityStep[1] = 0
  BY DEF Compiles, Compilable
<1>3. PICK d \in Nat \ {0}, u \in Nat : d = QuantityStep[1] /\ u = UnitQuantity
  BY <1>1
<1>4. u \div d \in Int /\ u = d * (u \div d) + (u % d)
  OBVIOUS
<1>5. PICK m \in Int : u = d * m
  BY <1>2, <1>3, <1>4
<1>6. u * c = d * (m * c) /\ m * c \in Int
  BY <1>5
<1> QED BY <1>3, <1>6

LEMMA CapacityHolds ==
    ASSUME NEW b, ValidBar(b), NEW q \in Int, NEW m \in Int,
           q = QuantityStep[1] * m, q * Scale <= b.volume * ParticipationRate
    PROVE  q <= Capacity(b, 1)
<1>1. /\ Scale \in Nat \ {0} /\ QuantityStep[1] \in Nat \ {0}
      /\ b.volume \in Nat /\ ParticipationRate \in Nat
  BY ParametersAssumption DEF Symbols, ValidBar
<1>0. b.volume * ParticipationRate \in Nat
  BY <1>1
<1>2. PICK scale \in Nat \ {0}, d \in Nat \ {0}, v \in Nat :
         scale = Scale /\ d = QuantityStep[1] /\ v = b.volume * ParticipationRate
  BY <1>0, <1>1
<1>3. scale * q <= v
  BY <1>2
<1>4. q <= v \div scale /\ v \div scale \in Int
  <2>1. v \in Int
    OBVIOUS
  <2>2. q <= v \div scale
    BY <1>3, <2>1, FloorIsGreatest
  <2> QED BY <2>1, <2>2, Division
<1>5. PICK w \in Int : w = v \div scale
  BY <1>4
<1>6. d * m <= w
  BY <1>2, <1>4, <1>5
<1>7. m <= w \div d /\ w \div d \in Int
  BY <1>6, FloorIsGreatest, Division
<1>8. d * m <= d * (w \div d)
  BY <1>7
<1>9. Capacity(b, 1) = (w \div d) * d
  BY <1>2, <1>5 DEF Capacity, FloorStep
<1> QED BY <1>2, <1>7, <1>8, <1>9

\* What is wanted before the signal, and after it.
Wanted(S, t) == UnitQuantity * TargetBefore(S, t)

LEMMA OrderMoves ==
    ASSUME NEW S, NEW rows, Compiles(S, rows), NEW s \in S
    PROVE  LET o == OrderOf(S, s)
           IN  /\ o.quantity \in Nat \ {0}
               /\ o.side \in {1, -1}
               /\ Wanted(S, s.at) \in Int
               /\ Wanted(S, s.at) + o.side * o.quantity = Wanted(S, s.at + 1)
               /\ o.quantity >= UnitQuantity
               /\ o.reduceOnly => /\ Wanted(S, s.at) # 0
                                  /\ ~(Wanted(S, s.at) * o.side > 0)
                                  /\ Abs(Wanted(S, s.at)) = o.quantity
<1>1. s.at \in Nat /\ s.target \in Targets
  BY SignalRows DEF Compiles
<1>2. TargetBefore(S, s.at) \in Targets /\ TargetBefore(S, s.at + 1) = s.target
  BY <1>1, TargetsUnfold
<1>3. Change(S, s) # 0
  BY DEF Compiles, Compilable
<1>4. PICK t \in {0, 1, -1}, w \in {0, 1, -1} :
         t = TargetBefore(S, s.at) /\ w = s.target /\ w - t # 0
  BY <1>1, <1>2, <1>3 DEF Targets, FLAT, LONG, SHORT, Change
<1>5. PICK u \in Nat \ {0} : u = UnitQuantity
  BY SignalAssumption
<1>6. /\ OrderOf(S, s).quantity = u * Abs(w - t)
      /\ OrderOf(S, s).side = IF w - t > 0 THEN 1 ELSE -1
      /\ OrderOf(S, s).reduceOnly <=> w = 0
      /\ Wanted(S, s.at) = u * t /\ Wanted(S, s.at + 1) = u * w
  BY <1>2, <1>4, <1>5 DEF OrderOf, OrderQuantity, Change, Wanted, FLAT, BUY, SELL
<1> DEFINE size == OrderOf(S, s).quantity
           side == OrderOf(S, s).side
           reduces == OrderOf(S, s).reduceOnly
           before == Wanted(S, s.at)
           after == Wanted(S, s.at + 1)
<1>7. /\ size \in Nat \ {0} /\ side \in {1, -1} /\ before \in Int
      /\ before + side * size = after
      /\ size >= u
      /\ reduces => before # 0 /\ ~(before * side > 0) /\ Abs(before) = size
  <2>0. /\ size = u * Abs(w - t) /\ side = (IF w - t > 0 THEN 1 ELSE -1)
        /\ (reduces <=> w = 0) /\ before = u * t /\ after = u * w
    BY <1>6
  <2> HIDE DEF size, side, reduces, before, after
  <2>1. CASE t = 0 /\ w = 1
    <3>1. size = u /\ side = 1 /\ before = 0 /\ after = u /\ ~reduces
      BY <2>0, <2>1 DEF Abs
    <3> QED BY <3>1
  <2>2. CASE t = 0 /\ w = -1
    <3>1. size = u /\ side = -1 /\ before = 0 /\ after = -u /\ ~reduces
      BY <2>0, <2>2 DEF Abs
    <3> QED BY <3>1
  <2>3. CASE t = 1 /\ w = 0
    <3>1. size = u /\ side = -1 /\ before = u /\ after = 0
      BY <2>0, <2>3 DEF Abs
    <3> QED BY <3>1 DEF Abs
  <2>4. CASE t = 1 /\ w = -1
    <3>1. size = u + u /\ side = -1 /\ before = u /\ after = -u /\ ~reduces
      BY <2>0, <2>4 DEF Abs
    <3> QED BY <3>1
  <2>5. CASE t = -1 /\ w = 0
    <3>1. size = u /\ side = 1 /\ before = -u /\ after = 0
      BY <2>0, <2>5 DEF Abs
    <3> QED BY <3>1 DEF Abs
  <2>6. CASE t = -1 /\ w = 1
    <3>1. size = u + u /\ side = 1 /\ before = -u /\ after = u /\ ~reduces
      BY <2>0, <2>6 DEF Abs
    <3> QED BY <3>1
  <2> QED BY <1>4, <2>1, <2>2, <2>3, <2>4, <2>5, <2>6
<1> QED BY <1>5, <1>7

LEMMA OrderAccepted ==
    ASSUME NEW S, NEW rows, Compiles(S, rows), NEW s \in S,
           NEW ids, OrderOf(S, s).id \notin ids
    PROVE  Acceptable(OrderOf(S, s), ids)
<1> DEFINE o == OrderOf(S, s)
<1>1. /\ o.symbol = 1 /\ o.aware /\ o.type = "MARKET" /\ o.limit = None /\ o.trigger = None
      /\ o.id = RankOf(S, s) /\ o.quantity = OrderQuantity(S, s)
  BY DEF OrderOf, RankOf, UpTo
<1>2. o.id # 0
  BY <1>1, RanksNumber
<1>3. 1 \in Symbols
  BY ParametersAssumption DEF Symbols
<1>4. o.quantity \in Nat \ {0} /\ o.quantity >= UnitQuantity
  BY OrderMoves
<1>5. o.quantity % QuantityStep[1] = 0
  <2>1. Change(S, s) \in Int
    <3>1. s.target \in Int /\ TargetBefore(S, s.at) \in Int
      BY SignalRows, TargetsUnfold DEF Compiles, Targets, FLAT, LONG, SHORT
    <3> QED BY <3>1 DEF Change
  <2>2. Abs(Change(S, s)) \in Int
    BY <2>1 DEF Abs
  <2>3. PICK m \in Int : UnitQuantity * Abs(Change(S, s)) = QuantityStep[1] * m
    BY <2>2, UnitsOfStep
  <2>4. QuantityStep[1] \in Nat \ {0}
    BY <1>3, ParametersAssumption
  <2> QED BY <1>1, <2>3, <2>4, MultipleOf DEF OrderQuantity
<1>6. o.quantity >= MinQuantity[1] /\ o.quantity <= MaxQuantity[1]
  <2>1. UnitQuantity >= MinQuantity[1] /\ MinQuantity[1] \in Nat /\ UnitQuantity \in Nat
    BY <1>3, ParametersAssumption, SignalAssumption DEF Compiles, Compilable
  <2>2. o.quantity <= MaxQuantity[1]
    BY <1>1 DEF Compiles, Compilable
  <2> QED BY <1>4, <2>1, <2>2
<1> HIDE DEF o
<1>7. Acceptable(o, ids)
  <2>1. o.id \notin ids
    BY DEF o
  <2> QED BY <1>1, <1>2, <1>3, <1>4, <1>5, <1>6, <2>1 DEF Acceptable
<1> QED BY <1>7 DEF o

LEMMA OrderFits ==
    ASSUME NEW S, NEW rows, Compiles(S, rows), NEW s \in S, ValidBar(rows[s.at + 1])
    PROVE  OrderOf(S, s).quantity <= Capacity(rows[s.at + 1], 1)
<1>1. PICK q \in Nat : q = OrderOf(S, s).quantity
  BY OrderMoves
<1>2. q = UnitQuantity * Abs(Change(S, s))
  BY <1>1 DEF OrderOf, OrderQuantity
<1>3. Abs(Change(S, s)) \in Int
  <2>1. s.target \in Int /\ TargetBefore(S, s.at) \in Int
    BY SignalRows, TargetsUnfold DEF Compiles, Targets, FLAT, LONG, SHORT
  <2> QED BY <2>1 DEF Change, Abs
<1>4. PICK m \in Int : q = QuantityStep[1] * m
  BY <1>2, <1>3, UnitsOfStep
<1>5. q * Scale <= rows[s.at + 1].volume * ParticipationRate
  BY <1>2 DEF Compiles, Compilable, FillsInNextRow, OrderQuantity
<1> QED BY <1>1, <1>4, <1>5, CapacityHolds
-----------------------------------------------------------------------------
(***************************************************************************)
(* The account follows the targets.  compile_signals knows the raw open    *)
(* and the volume of the next row; it cannot know what the engine makes of *)
(* the order's price and margin.  When the engine refuses no candidate for *)
(* these two reasons, the position is the wanted one after every row.      *)
(***************************************************************************)

\* One instrument whose candles follow one another from the first, orders
\* that are active at once, and no liquidation.
TradesSeries ==
    /\ NumSymbols = 1
    /\ BarLength[1] = 1 /\ FirstOpen[1] = 0 /\ LastOpen[1] = Horizon - 1
    /\ Latency = 0
    /\ ~LiquidationOn

\* No next candidate is below the least notional at its execution price, and
\* none lacks margin (_fill_candidate).
NothingRefused ==
    \A c \in queue : IsNextCandidate(c) =>
        FillQuantity(c) * FillPrice(c) >= MinNotional[sym] /\ Affordable(c)

\* The orders are those of the signals.
SeriesInv ==
    /\ GeneratedOf(strategy, candles, generated)
    /\ Compiles(generated, candles)
    /\ book = Compile(generated)

\* Every order _prepare_orders has reached is working.
Placed ==
    /\ \A i \in DOMAIN book \ pending : \E k \in DOMAIN working : working[k].intent = book[i]
    /\ \A k \in DOMAIN working :
          /\ working[k].intent.id \notin pending
          /\ \E s \in generated : working[k].intent = OrderOf(generated, s)
    /\ phase = "prepare" => now = 0
    /\ phase # "prepare" => pending = {}

\* The rows before this time have been traded: in a bar, its own as well once
\* no candidate is left.
Traded == IF phase = "bar" /\ queue = {} THEN now + 1 ELSE now

\* An order of a traded row has filled, any other is as it was submitted.
OrderInTime(k) ==
    IF working[k].intent.submitted < Traded
      THEN working[k].closed
      ELSE ~working[k].closed /\ working[k].remaining = working[k].intent.quantity

Following ==
    /\ phase = "bar" => event.priority = BAR
    /\ \A k \in DOMAIN working : OrderInTime(k)
    /\ positions[1].quantity = Wanted(generated, Traded)
    /\ \A c \in queue : /\ working[c.order].intent.submitted = now
                        /\ working[c.order].intent.quantity <= available
    /\ \A c, d \in queue : c = d

FollowInv == IndInv /\ SeriesInv /\ Placed /\ Following

LEMMA SeriesStep ==
    SeriesInv /\ [TradingNext]_tradingVars => SeriesInv' /\ generated' = generated
<1> SUFFICES ASSUME SeriesInv, [TradingNext]_tradingVars
             PROVE  SeriesInv' /\ generated' = generated
  OBVIOUS
<1>1. strategy' = strategy /\ candles' = candles /\ generated' = generated
  BY DEF TradingNext, tradingVars
<1>2. book' = book
  BY DEF TradingNext, tradingVars, Next, vars, orderVars, AcceptIntent, RejectIntent,
     StartEvents, NoEvent, SettleFunding, RefuseMark, ApplyMark, Liquidate, OpenBar,
     CancelCandidate, FillCandidate, CloseBar, Finish, Returned
<1> QED BY <1>1, <1>2 DEF SeriesInv, GeneratedOf, Compiles

LEMMA FollowInit == TradingInit => FollowInv
<1> SUFFICES ASSUME TradingInit PROVE FollowInv
  OBVIOUS
<1>1. Init /\ GeneratedOf(strategy, candles, generated) /\ IndInv
  BY GeneratedInit, InitIndInv DEF TradingInit
<1>2. SeriesInv
  <2>1. \A s \in generated : s.target \in Targets
    BY <1>1, GeneratesTargets
  <2>2. Len(candles) \in Nat
    <3>1. PICK run \in Experiments : candles = run.rows
      BY DEF TradingInit
    <3>2. candles \in Seq(Range(candles))
      BY <3>1, ExperimentsAssumption
    <3>3. PICK C : C = Range(candles)
      OBVIOUS
    <3>4. candles \in Seq(C)
      BY <3>2, <3>3
    <3> QED BY <3>4
  <2> QED BY <1>1, <2>1, <2>2 DEF SeriesInv, Compiles, TradingInit
<1>3. DOMAIN working = {} /\ queue = {} /\ phase = "prepare" /\ now = 0 /\ pending = DOMAIN book
  BY <1>1 DEF Init, now
<1>4. Placed
  BY <1>3 DEF Placed
<1>5. Following
  <2>1. positions[1].quantity = 0
    BY <1>1, ParametersAssumption DEF Init, Flat, Symbols
  <2>2. Wanted(generated, 0) = 0
    <3>1. TargetBefore(generated, 0) = 0
      BY <1>2, TargetsUnfold DEF SeriesInv, FLAT
    <3> QED BY <3>1, SignalAssumption DEF Wanted
  <2> QED BY <1>3, <2>1, <2>2 DEF Following, Traded
<1> QED BY <1>1, <1>2, <1>4, <1>5 DEF FollowInv

(***************************************************************************)
(* The steps of _prepare_orders: every order is accepted.                  *)
(***************************************************************************)

\* An order that _prepare_orders has not reached.
LEMMA PendingOrder ==
    ASSUME FollowInv, NEW i \in pending
    PROVE  /\ i \in Nat \ {0} /\ i \in DOMAIN book
           /\ book[i].id = i
           /\ book[i].id \notin Identifiers
           /\ \E s \in generated : book[i] = OrderOf(generated, s)
<1>1. i \in DOMAIN book /\ Compiles(generated, candles) /\ book = Compile(generated)
  BY DEF FollowInv, IndInv, TypeOK, SeriesInv
<1>2. i \in 1..Cardinality(generated) /\ Cardinality(generated) \in Nat
  BY <1>1, CompiledOrders
<1>3. book[i].id = i /\ \E s \in generated : book[i] = OrderOf(generated, s)
  BY <1>1, <1>2, CompiledOrders
<1>4. book[i].id \notin Identifiers
  BY <1>3 DEF FollowInv, Placed, Identifiers
<1> QED BY <1>1, <1>2, <1>3, <1>4

LEMMA RejectsNothing ==
    ASSUME FollowInv, NEW i \in pending PROVE ~RejectIntent(i)
<1>1. Compiles(generated, candles)
  BY DEF FollowInv, SeriesInv
<1>2. PICK s \in generated : book[i] = OrderOf(generated, s)
  BY PendingOrder
<1>3. OrderOf(generated, s).id \notin Identifiers
  BY <1>2, PendingOrder
<1>4. Acceptable(book[i], Identifiers)
  BY <1>1, <1>2, <1>3, OrderAccepted
<1> QED BY <1>4 DEF RejectIntent

LEMMA AcceptFollows ==
    ASSUME FollowInv, NEW i \in pending, AcceptIntent(i), generated' = generated
    PROVE  Placed' /\ Following'
<1> DEFINE o == WorkingOrder(book[i])
           n == Len(working)
<1>1. /\ phase = "prepare" /\ working' = Append(working, o) /\ pending' = pending \ {i}
      /\ UNCHANGED <<book, phase, event, queue, available, positions>>
      /\ IndInv /\ Placed /\ Following /\ Compiles(generated, candles)
  BY DEF FollowInv, SeriesInv, AcceptIntent, loopVars, accountVars
<1>2. working \in Seq(WorkingOrders) /\ working' \in Seq(WorkingOrders)
  <2>1. IndInv'
    BY <1>1, AcceptIntentInv
  <2> QED BY <1>1, <2>1 DEF IndInv, TypeOK
<1>3. /\ n \in Nat /\ DOMAIN working = 1..n /\ DOMAIN working' = 1..(n + 1)
      /\ \A k \in 1..n : working'[k] = working[k]
      /\ working'[n + 1] = o
  <2>1. Len(working') = n + 1
    BY <1>1, <1>2
  <2> QED BY <1>1, <1>2, <2>1, LenProperties
<1>4. /\ o.intent = book[i] /\ ~o.closed /\ o.remaining = o.intent.quantity
  BY DEF WorkingOrder
<1> HIDE DEF o, n
<1>5. PICK s \in generated : book[i] = OrderOf(generated, s)
  BY PendingOrder
<1>6. book[i].id = i /\ book[i].submitted \in Nat
  <2>1. s.at \in Nat
    BY <1>1, SignalRows
  <2>2. book[i].id = i
    BY PendingOrder
  <2>3. book[i].submitted = s.at
    BY <1>5 DEF OrderOf
  <2> QED BY <2>1, <2>2, <2>3
<1>7. Placed'
  <2>1. \A j \in (DOMAIN book \ pending)' : \E k \in DOMAIN working' : working'[k].intent = book[j]
    <3> SUFFICES ASSUME NEW j \in DOMAIN book \ (pending \ {i})
                 PROVE  \E k \in DOMAIN working' : working'[k].intent = book[j]
      BY <1>1
    <3>1. CASE j = i
      <4>1. n + 1 \in DOMAIN working' /\ working'[n + 1].intent = book[j]
        BY <1>3, <1>4, <3>1
      <4> QED BY <4>1
    <3>2. CASE j # i
      <4>1. PICK k \in DOMAIN working : working[k].intent = book[j]
        BY <1>1, <3>2 DEF Placed
      <4>2. k \in DOMAIN working' /\ working'[k].intent = book[j]
        BY <1>3, <4>1
      <4> QED BY <4>2
    <3> QED BY <3>1, <3>2
  <2>2. \A k \in DOMAIN working' :
           /\ working'[k].intent.id \notin pending'
           /\ \E t \in generated : working'[k].intent = OrderOf(generated, t)
    <3> SUFFICES ASSUME NEW k \in 1..(n + 1)
                 PROVE  /\ working'[k].intent.id \notin pending'
                        /\ \E t \in generated : working'[k].intent = OrderOf(generated, t)
      BY <1>3
    <3>1. CASE k = n + 1
      BY <1>1, <1>3, <1>4, <1>5, <1>6, <3>1
    <3>2. CASE k # n + 1
      <4>1. k \in 1..n
        BY <1>3, <3>2
      <4> QED BY <1>1, <1>3, <4>1 DEF Placed
    <3> QED BY <3>1, <3>2
  <2>3. now' = 0 /\ phase' = "prepare"
    BY <1>1 DEF Placed, now
  <2>4. DOMAIN book' = DOMAIN book /\ \A j : book'[j] = book[j]
    BY <1>1
  <2> QED BY <1>1, <2>1, <2>2, <2>3, <2>4 DEF Placed
<1>8. Following'
  <2>1. /\ phase' # "bar" /\ now' = 0 /\ queue' = {} /\ queue = {}
        /\ Traded' = 0 /\ Traded = 0
    BY <1>1 DEF Placed, Traded, now, IndInv, QueueSound
  <2>3. Wanted(generated', Traded') = Wanted(generated, Traded)
    BY <2>1
  <2>2. \A k \in DOMAIN working' : OrderInTime(k)'
    <3> SUFFICES ASSUME NEW k \in 1..(n + 1) PROVE OrderInTime(k)'
      BY <1>3
    <3>1. CASE k = n + 1
      BY <1>3, <1>4, <1>6, <2>1, <3>1 DEF OrderInTime
    <3>2. CASE k # n + 1
      <4>1. k \in 1..n
        BY <1>3, <3>2
      <4>2. OrderInTime(k)
        BY <1>1, <1>3, <4>1 DEF Following
      <4> QED BY <1>3, <2>1, <4>1, <4>2 DEF OrderInTime
    <3> QED BY <3>1, <3>2
  <2> QED BY <1>1, <2>1, <2>2, <2>3 DEF Following
<1> QED BY <1>7, <1>8

(***************************************************************************)
(* The steps that take no order and move no position.                      *)
(***************************************************************************)
LEMMA QuietFollows ==
    ASSUME FollowInv, UNCHANGED <<book, pending, working, positions, generated>>,
           queue' = {}, phase' # "bar", Traded' = Traded,
           phase' = "prepare" => phase = "prepare" /\ now' = now,
           phase' # "prepare" => pending = {}
    PROVE  Placed' /\ Following'
<1>1. Placed /\ Following
  BY DEF FollowInv
<1>2. Placed'
  <2>1. \A i \in DOMAIN book' \ pending' : \E k \in DOMAIN working' : working'[k].intent = book'[i]
    BY <1>1 DEF Placed
  <2>2. \A k \in DOMAIN working' :
           /\ working'[k].intent.id \notin pending'
           /\ \E s \in generated' : working'[k].intent = OrderOf(generated', s)
    BY <1>1 DEF Placed
  <2>3. (phase' = "prepare" => now' = 0) /\ (phase' # "prepare" => pending' = {})
    BY <1>1 DEF Placed
  <2> QED BY <2>1, <2>2, <2>3 DEF Placed
<1>3. Following'
  <2>1. \A k \in DOMAIN working' : OrderInTime(k)'
    BY <1>1 DEF Following, OrderInTime
  <2>2. Wanted(generated', Traded') = Wanted(generated, Traded)
    OBVIOUS
  <2> QED BY <1>1, <2>1, <2>2 DEF Following
<1> QED BY <1>2, <1>3

\* An order of the row being traded is wanted, and small enough.
LEMMA QueuedOrder ==
    ASSUME FollowInv, NEW c \in queue
    PROVE  /\ phase = "bar" /\ pending = {} /\ Traded = now /\ now \in Nat
           /\ c.order \in DOMAIN working
           /\ ~working[c.order].closed
           /\ working[c.order].remaining = working[c.order].intent.quantity
           /\ working[c.order].intent.submitted = now
           /\ working[c.order].intent.quantity <= available
           /\ \E s \in generated :
                 s.at = now /\ working[c.order].intent = OrderOf(generated, s)
<1>1. /\ phase = "bar" /\ c.order \in DOMAIN working /\ now \in Nat
  BY DEF FollowInv, IndInv, QueueSound, TypeOK, now
<1>2. pending = {} /\ Traded = now
  BY <1>1 DEF FollowInv, Placed, Traded
<1>3. /\ working[c.order].intent.submitted = now
      /\ working[c.order].intent.quantity <= available
      /\ OrderInTime(c.order)
  BY <1>1 DEF FollowInv, Following
<1>4. /\ ~working[c.order].closed
      /\ working[c.order].remaining = working[c.order].intent.quantity
  BY <1>1, <1>2, <1>3 DEF OrderInTime
<1>5. PICK s \in generated : working[c.order].intent = OrderOf(generated, s)
  BY <1>1 DEF FollowInv, Placed
<1>6. s.at = now
  BY <1>3, <1>5 DEF OrderOf
<1> QED BY <1>1, <1>2, <1>3, <1>4, <1>5, <1>6

LEMMA QuietSteps ==
    ASSUME TradesSeries, FollowInv, generated' = generated,
           \/ StartEvents
           \/ NoEvent
           \/ \E f \in FundingEvents : SettleFunding(f)
           \/ \E m \in Marks : RefuseMark(m) \/ ApplyMark(m)
           \/ CloseBar
           \/ Finish
    PROVE  Placed' /\ Following'
<1> USE DEF orderVars, loopVars, accountVars
<1>1. /\ phase # "bar" => queue = {}
      /\ phase = "bar" => event.priority = BAR
      /\ phase # "prepare" => pending = {}
      /\ now \in Nat /\ event \in [time : Nat, priority : {0, 1, 2}, symbol : {1}]
  <2>1. Symbols = {1}
    BY DEF TradesSeries, Symbols
  <2> QED BY <2>1 DEF FollowInv, IndInv, TypeOK, QueueSound, Following, Placed, now,
         FUNDING, MARK, BAR
<1>2. /\ event.priority < BAR => NextEvent.time = now
      /\ event.priority = BAR => NextEvent.time = now + 1
  <2>1. sym = 1 /\ NumSymbols = 1
    BY <1>1 DEF sym, TradesSeries
  <2> QED BY <1>1, <2>1 DEF NextEvent, now, BAR
<1>3. CASE StartEvents \/ Finish
  <2>1. /\ UNCHANGED <<book, pending, working, positions, event, queue>>
        /\ phase # "bar" /\ phase' # "bar"
        /\ phase' = "prepare" => phase = "prepare"
        /\ phase' # "prepare" => pending = {}
    BY <1>1, <1>3 DEF StartEvents, Finish
  <2>2. Traded' = Traded /\ now' = now /\ queue' = {}
    BY <1>1, <2>1 DEF Traded, now
  <2> QED BY <2>1, <2>2, QuietFollows
<1>4. ASSUME phase = "events", event' = NextEvent, event.priority < BAR,
             UNCHANGED <<book, pending, working, positions, phase, queue>>
      PROVE  Placed' /\ Following'
  <2>1. now' = now /\ queue' = {} /\ pending = {}
    BY <1>1, <1>2, <1>4 DEF now
  <2>2. Traded' = Traded
    BY <1>4, <2>1 DEF Traded
  <2> QED BY <1>4, <2>1, <2>2, QuietFollows
<1>5. CASE NoEvent
  <2>1. event.priority # BAR
    <3>1. ASSUME event.priority = BAR PROVE CandleOpens
      <4>1. now < Horizon /\ Horizon \in Nat
        BY <1>5, RequestAssumption DEF NoEvent
      <4>2. sym = 1 /\ now % 1 = 0 /\ now \in 0..(Horizon - 1)
        BY <1>1, <4>1 DEF sym
      <4> QED BY <4>2 DEF CandleOpens, TradesSeries
    <3> QED BY <1>5, <3>1 DEF NoEvent
  <2>2. event.priority < BAR
    BY <1>1, <2>1 DEF BAR
  <2> QED BY <1>4, <1>5, <2>2 DEF NoEvent
<1>6. CASE \E f \in FundingEvents : SettleFunding(f)
  <2>1. event.priority < BAR
    BY <1>6 DEF SettleFunding, AtEvent, FUNDING, BAR
  <2> QED BY <1>4, <1>6, <2>1 DEF SettleFunding, AtEvent
<1>7. CASE \E m \in Marks : ApplyMark(m)
  <2>1. event.priority < BAR
    BY <1>7 DEF ApplyMark, AtEvent, MARK, BAR
  <2> QED BY <1>4, <1>7, <2>1 DEF ApplyMark, AtEvent
<1>8. CASE \E m \in Marks : RefuseMark(m)
  <2>1. /\ UNCHANGED <<book, pending, working, positions, event, queue>>
        /\ phase = "events" /\ phase' = "failed"
    BY <1>8 DEF RefuseMark, AtEvent
  <2>2. Traded' = Traded /\ queue' = {} /\ pending = {}
    BY <1>1, <2>1 DEF Traded, now
  <2> QED BY <2>1, <2>2, QuietFollows
<1>9. CASE CloseBar
  <2>1. /\ UNCHANGED <<book, pending, working, positions>>
        /\ phase = "bar" /\ phase' = "events" /\ queue' = {} /\ event' = NextEvent
        /\ queue = {} \/ available = 0
    BY <1>9 DEF CloseBar
  <2>2. queue = {}
    <3> SUFFICES ASSUME NEW c \in queue PROVE available # 0
      BY <2>1
    <3>1. PICK s \in generated : working[c.order].intent = OrderOf(generated, s)
      BY QueuedOrder
    <3>2. working[c.order].intent.quantity <= available
      BY QueuedOrder
    <3>3. OrderOf(generated, s).quantity \in Nat \ {0}
      BY OrderMoves DEF FollowInv, SeriesInv
    <3>4. available \in Nat
      BY DEF FollowInv, IndInv, TypeOK
    <3> QED BY <3>1, <3>2, <3>3, <3>4
  <2>3. now' = now + 1 /\ Traded = now + 1 /\ Traded' = now' /\ pending = {}
    BY <1>1, <1>2, <2>1, <2>2 DEF Traded, now
  <2> QED BY <2>1, <2>3, QuietFollows
<1> QED BY <1>3, <1>5, <1>6, <1>7, <1>8, <1>9

\* Steps that leave everything as it is, in a bar or out of it.
LEMMA StutterFollows ==
    ASSUME FollowInv, UNCHANGED vars, generated' = generated
    PROVE  Placed' /\ Following'
<1>1. /\ UNCHANGED <<book, pending, working, positions, phase, event, queue, available>>
      /\ Placed /\ Following
  BY DEF FollowInv, vars, orderVars, loopVars, accountVars
<1>2. Traded' = Traded /\ now' = now
  BY <1>1 DEF Traded, now
<1>3. Placed'
  BY <1>1, <1>2 DEF Placed
<1>4. Following'
  <2>1. \A k \in DOMAIN working' : OrderInTime(k)'
    BY <1>1, <1>2 DEF Following, OrderInTime
  <2>2. Wanted(generated', Traded') = Wanted(generated, Traded)
    BY <1>2
  <2> QED BY <1>1, <1>2, <2>1, <2>2 DEF Following
<1> QED BY <1>3, <1>4

LEMMA LiquidatesNothing == TradesSeries => \A m \in Marks : ~Liquidate(m)
BY DEF TradesSeries, Liquidate

(***************************************************************************)
(* A bar takes the order of the row before it, and no other.               *)
(***************************************************************************)
LEMMA WorkingSignals ==
    ASSUME FollowInv
    PROVE  /\ \A k \in DOMAIN working : \E s \in generated :
                 /\ working[k].intent = OrderOf(generated, s)
                 /\ s.at = working[k].intent.submitted /\ s.at \in Nat
           /\ \A k, l \in DOMAIN working :
                 working[k].intent.submitted = working[l].intent.submitted => k = l
           /\ pending = {} => \A s \in generated : \E k \in DOMAIN working :
                 working[k].intent = OrderOf(generated, s)
<1>1. Compiles(generated, candles) /\ book = Compile(generated) /\ Placed /\ IdentifiersUnique
  BY DEF FollowInv, SeriesInv, IndInv
<1>2. /\ \A s \in generated : s.at \in Nat
      /\ \A s, t \in generated : s.at = t.at => s = t
  BY <1>1, SignalRows
<1>3. \A s \in generated : OrderOf(generated, s).submitted = s.at
  BY DEF OrderOf
<1>4. ASSUME NEW k \in DOMAIN working
      PROVE  \E s \in generated : /\ working[k].intent = OrderOf(generated, s)
                                  /\ s.at = working[k].intent.submitted /\ s.at \in Nat
  <2>1. PICK s \in generated : working[k].intent = OrderOf(generated, s)
    BY <1>1 DEF Placed
  <2> QED BY <1>2, <1>3, <2>1
<1>5. ASSUME NEW k \in DOMAIN working, NEW l \in DOMAIN working,
             working[k].intent.submitted = working[l].intent.submitted
      PROVE  k = l
  <2>1. PICK s \in generated : /\ working[k].intent = OrderOf(generated, s)
                               /\ s.at = working[k].intent.submitted
    BY <1>4
  <2>2. PICK t \in generated : /\ working[l].intent = OrderOf(generated, t)
                               /\ t.at = working[l].intent.submitted
    BY <1>4
  <2>3. s = t
    BY <1>2, <1>5, <2>1, <2>2
  <2>4. working[k].intent.id = working[l].intent.id
    BY <2>1, <2>2, <2>3
  <2> QED BY <1>1, <2>4 DEF IdentifiersUnique
<1>6. ASSUME pending = {}, NEW s \in generated
      PROVE  \E k \in DOMAIN working : working[k].intent = OrderOf(generated, s)
  <2>1. PICK i \in DOMAIN book : book[i] = OrderOf(generated, s)
    <3>1. DOMAIN Compile(generated) = 1..Cardinality(generated)
      BY <1>1, CompiledOrders
    <3>2. \E i \in 1..Cardinality(generated) : Compile(generated)[i] = OrderOf(generated, s)
      BY <1>1, CompiledOrders
    <3> QED BY <1>1, <3>1, <3>2
  <2> QED BY <1>1, <1>6, <2>1 DEF Placed
<1> QED BY <1>4, <1>5, <1>6

\* The candidates of a bar are those of the orders submitted at its open.
LEMMA OpenedQueue ==
    ASSUME TradesSeries, FollowInv, NEW b \in Bars, OpenBar(b)
    PROVE  /\ working' = CancelAll({}, now)
           /\ \A c \in queue' : c.order \in DOMAIN working
                                /\ working[c.order].intent.submitted = now
           /\ \A c, d \in queue' : c = d
           /\ \A k \in DOMAIN working :
                 working[k].intent.submitted = now => queue' # {}
<1>1. /\ phase = "events" /\ event.priority = BAR
      /\ Traded = now /\ now \in Nat /\ sym = 1 /\ Latency = 0
  <2>1. phase = "events" /\ event.priority = BAR
    BY DEF OpenBar, AtEvent
  <2>2. event \in [time : Nat, priority : {FUNDING, MARK, BAR}, symbol : {1}]
    BY DEF FollowInv, IndInv, TypeOK, TradesSeries, Symbols
  <2> QED BY <2>1, <2>2 DEF Traded, now, sym, TradesSeries
<1>2. ASSUME NEW k \in DOMAIN working
      PROVE  /\ working[k].intent.type = "MARKET" /\ ~working[k].intent.ioc
             /\ working[k].intent.oco = None /\ working[k].intent.symbol = 1
             /\ working[k].intent.submitted \in Nat
             /\ Active(k) <=> working[k].intent.submitted = now
             /\ Offers(working[k].intent, b) = {Offer(b.open, "TAKER")}
  <2>1. PICK s \in generated : /\ working[k].intent = OrderOf(generated, s)
                               /\ s.at = working[k].intent.submitted /\ s.at \in Nat
    BY WorkingSignals
  <2>2. /\ working[k].intent.type = "MARKET" /\ ~working[k].intent.ioc
        /\ working[k].intent.oco = None /\ working[k].intent.symbol = 1
    BY <2>1 DEF OrderOf
  <2>3. OrderInTime(k)
    BY DEF FollowInv, Following
  <2>4. Active(k) <=> ~working[k].closed /\ working[k].intent.submitted <= now
    BY <1>1, <2>1, <2>2 DEF Active, OpenOrders
  <2>5. Active(k) <=> working[k].intent.submitted = now
    BY <1>1, <2>1, <2>3, <2>4 DEF OrderInTime
  <2> QED BY <2>1, <2>2, <2>5 DEF Offers
<1>3. working' = CancelAll({}, now)
  <2>1. {k \in DOMAIN working : /\ Active(k)
                                /\ Offers(working[k].intent, b) = {}
                                /\ working[k].intent.ioc} = {}
    BY <1>2
  <2> QED BY <2>1 DEF OpenBar
<1>4. ASSUME NEW c \in Candidates(b)
      PROVE  /\ c.order \in DOMAIN working /\ working[c.order].intent.submitted = now
             /\ c = [order |-> c.order, raw |-> b.open, liquidity |-> "TAKER"]
  <2>1. PICK k \in {x \in DOMAIN working : Active(x)} :
           \E o \in Offers(working[k].intent, b) :
              c = [order |-> k, raw |-> o.raw, liquidity |-> o.liquidity]
    BY DEF Candidates
  <2>2. Offers(working[k].intent, b) = {Offer(b.open, "TAKER")}
    BY <1>2, <2>1
  <2>3. c = [order |-> k, raw |-> b.open, liquidity |-> "TAKER"]
    BY <2>1, <2>2 DEF Offer
  <2> QED BY <1>2, <2>1, <2>3
<1>5. \A c \in queue' : c \in Candidates(b)
  BY DEF OpenBar, ResolveOco
<1>6. ASSUME NEW c \in queue', NEW d \in queue' PROVE c = d
  <2>1. c.order = d.order
    BY <1>4, <1>5, WorkingSignals
  <2> QED BY <1>4, <1>5, <2>1
<1>7. ASSUME NEW k \in DOMAIN working, working[k].intent.submitted = now
      PROVE  queue' # {}
  <2> DEFINE c == [order |-> k, raw |-> b.open, liquidity |-> "TAKER"]
  <2>1. c \in Candidates(b)
    <3>1. Active(k) /\ Offer(b.open, "TAKER") \in Offers(working[k].intent, b)
      BY <1>2, <1>7
    <3>2. Offer(b.open, "TAKER").raw = b.open /\ Offer(b.open, "TAKER").liquidity = "TAKER"
      BY DEF Offer
    <3> QED BY <3>1, <3>2 DEF Candidates
  <2>2. Oco(c) = None
    BY <1>2 DEF Oco
  <2>3. c \in ResolveOco(Candidates(b))
    BY <2>1, <2>2 DEF ResolveOco
  <2> QED BY <2>3 DEF OpenBar
<1> QED BY <1>3, <1>4, <1>5, <1>6, <1>7

LEMMA OpenBarFollows ==
    ASSUME TradesSeries, FollowInv, NEW b \in Bars, OpenBar(b),
           b = candles[now + 1], generated' = generated
    PROVE  Placed' /\ Following'
<1>1. /\ phase = "events" /\ phase' = "bar" /\ event.priority = BAR
      /\ available' = Capacity(b, 1)
      /\ UNCHANGED <<book, pending, event, positions>>
  <2>1. sym = 1
    <3>1. event.symbol \in {1}
      BY DEF FollowInv, IndInv, TypeOK, TradesSeries, Symbols
    <3> QED BY <3>1 DEF sym
  <2> QED BY <2>1 DEF OpenBar, AtEvent, accountVars
<1>2. /\ IndInv /\ Placed /\ Following /\ Compiles(generated, candles)
      /\ pending = {} /\ now \in Nat /\ now' = now /\ Traded = now
      /\ Traded' = IF queue' = {} THEN now + 1 ELSE now
  BY <1>1 DEF FollowInv, SeriesInv, Placed, IndInv, TypeOK, now, Traded
<1>3. DOMAIN working' = DOMAIN working /\ \A k \in DOMAIN working : working'[k] = working[k]
  <2>1. working' = CancelAll({}, now)
    BY OpenedQueue
  <2> QED BY <2>1 DEF CancelAll
<1>4. Placed'
  <2>1. \A i \in DOMAIN book' \ pending' : \E k \in DOMAIN working' : working'[k].intent = book'[i]
    BY <1>1, <1>2, <1>3 DEF Placed
  <2>2. \A k \in DOMAIN working' :
           /\ working'[k].intent.id \notin pending'
           /\ \E s \in generated' : working'[k].intent = OrderOf(generated', s)
    BY <1>1, <1>2, <1>3 DEF Placed
  <2> QED BY <1>1, <1>2, <2>1, <2>2 DEF Placed
<1>5. \A k \in DOMAIN working' : OrderInTime(k)'
  <2> SUFFICES ASSUME NEW k \in DOMAIN working PROVE OrderInTime(k)'
    BY <1>3
  <2>1. OrderInTime(k) /\ working[k].intent.submitted \in Nat
    BY <1>2, WorkingSignals DEF Following
  <2>2. CASE queue' # {}
    BY <1>2, <1>3, <2>1, <2>2 DEF OrderInTime
  <2>3. CASE queue' = {}
    <3>1. working[k].intent.submitted # now
      BY <2>3, OpenedQueue
    <3>2. working[k].intent.submitted < now + 1 <=> working[k].intent.submitted < now
      BY <1>2, <2>1, <3>1
    <3> QED BY <1>2, <1>3, <2>1, <2>3, <3>2 DEF OrderInTime
  <2> QED BY <2>2, <2>3
<1>6. positions'[1].quantity = Wanted(generated', Traded')
  <2>1. positions'[1].quantity = Wanted(generated, now)
    BY <1>1, <1>2 DEF Following
  <2>2. CASE queue' # {}
    BY <1>2, <2>1, <2>2
  <2>3. CASE queue' = {}
    <3>1. \A s \in generated : s.at # now
      <4> SUFFICES ASSUME NEW s \in generated, s.at = now PROVE FALSE
        OBVIOUS
      <4>1. PICK k \in DOMAIN working : working[k].intent = OrderOf(generated, s)
        BY <1>2, WorkingSignals
      <4>2. working[k].intent.submitted = now
        BY <4>1 DEF OrderOf
      <4> QED BY <2>3, <4>2, OpenedQueue
    <3>2. TargetBefore(generated, now + 1) = TargetBefore(generated, now)
      BY <1>2, <3>1, TargetsUnfold
    <3> QED BY <1>2, <2>1, <2>3, <3>2 DEF Wanted
  <2> QED BY <2>2, <2>3
<1>7. \A c \in queue' : /\ working'[c.order].intent.submitted = now'
                        /\ working'[c.order].intent.quantity <= available'
  <2> SUFFICES ASSUME NEW c \in queue'
               PROVE  /\ working'[c.order].intent.submitted = now'
                      /\ working'[c.order].intent.quantity <= available'
    OBVIOUS
  <2>1. c.order \in DOMAIN working /\ working[c.order].intent.submitted = now
    BY OpenedQueue
  <2>2. PICK s \in generated : /\ working[c.order].intent = OrderOf(generated, s)
                               /\ s.at = working[c.order].intent.submitted
    BY <2>1, WorkingSignals
  <2>3. ValidBar(candles[s.at + 1])
    BY <2>1, <2>2, RequestAssumption
  <2>4. OrderOf(generated, s).quantity <= Capacity(candles[s.at + 1], 1)
    BY <1>2, <2>3, OrderFits
  <2> QED BY <1>1, <1>2, <1>3, <2>1, <2>2, <2>4
<1>8. \A c, d \in queue' : c = d
  BY OpenedQueue
<1>9. Following'
  BY <1>1, <1>5, <1>6, <1>7, <1>8 DEF Following
<1> QED BY <1>4, <1>9

\* The order of a candidate fills completely, and a reduce-only one finds the
\* position it closes.
LEMMA CandidateFits ==
    ASSUME FollowInv, sym = 1, NEW c \in queue
    PROVE  /\ ~WouldIncrease(c)
           /\ FillQuantity(c) = working[c.order].remaining
           /\ FillQuantity(c) \in Nat \ {0}
           /\ positions[1].quantity + working[c.order].intent.side * FillQuantity(c)
                = Wanted(generated, now + 1)
<1> DEFINE o == working[c.order]
<1>1. PICK s \in generated : s.at = now /\ o.intent = OrderOf(generated, s)
  BY QueuedOrder
<1>2. /\ o.remaining = o.intent.quantity /\ o.intent.quantity <= available
      /\ available \in Nat
      /\ positions[1].quantity = Wanted(generated, now)
  <2>1. o.remaining = o.intent.quantity /\ o.intent.quantity <= available /\ Traded = now
    BY QueuedOrder
  <2>2. positions[1].quantity = Wanted(generated, Traded) /\ available \in Nat
    BY DEF FollowInv, Following, IndInv, TypeOK
  <2> QED BY <2>1, <2>2
<1>3. /\ OrderOf(generated, s).quantity \in Nat \ {0}
      /\ OrderOf(generated, s).side \in {1, -1}
      /\ Wanted(generated, s.at) \in Int
      /\ Wanted(generated, s.at) + OrderOf(generated, s).side * OrderOf(generated, s).quantity
           = Wanted(generated, s.at + 1)
      /\ OrderOf(generated, s).reduceOnly
           => /\ Wanted(generated, s.at) # 0
              /\ ~(Wanted(generated, s.at) * OrderOf(generated, s).side > 0)
              /\ Abs(Wanted(generated, s.at)) = OrderOf(generated, s).quantity
  BY OrderMoves DEF FollowInv, SeriesInv
<1>4. PICK q \in Nat \ {0}, side \in {1, -1}, p \in Int :
         /\ q = o.intent.quantity /\ side = o.intent.side /\ p = positions[1].quantity
  BY <1>1, <1>2, <1>3
<1>5. /\ p + side * q = Wanted(generated, now + 1)
      /\ o.intent.reduceOnly => p # 0 /\ ~(p * side > 0) /\ Abs(p) = q
      /\ o.remaining = q /\ q <= available
  BY <1>1, <1>2, <1>3, <1>4
<1> HIDE DEF o
<1>6. ~WouldIncrease(c)
  BY <1>4, <1>5 DEF WouldIncrease, Extends, o
<1>7. FillQuantity(c) = q
  BY <1>2, <1>4, <1>5 DEF FillQuantity, o
<1> QED BY <1>4, <1>5, <1>6, <1>7 DEF o

LEMMA CancelsNothing ==
    ASSUME FollowInv, sym = 1, NothingRefused, NEW c \in queue
    PROVE  ~CancelCandidate(c)
<1>1. ~WouldIncrease(c)
  BY CandidateFits
<1> QED BY <1>1 DEF CancelCandidate, Executable, NothingRefused

LEMMA FillFollows ==
    ASSUME FollowInv, sym = 1, NEW c \in queue, FillCandidate(c), generated' = generated
    PROVE  Placed' /\ Following'
<1> DEFINE o == working[c.order]
           q == FillQuantity(c)
<1>1. /\ IndInv /\ Placed /\ Following
      /\ phase = "bar" /\ pending = {} /\ Traded = now /\ now \in Nat
      /\ c.order \in DOMAIN working /\ o.intent.submitted = now
  BY QueuedOrder DEF FollowInv
<1>2. /\ UNCHANGED <<book, pending, phase, event>>
      /\ queue' = queue \ {c}
  BY DEF FillCandidate
<1>3. queue' = {} /\ now' = now /\ Traded' = now + 1 /\ event.priority = BAR
  BY <1>1, <1>2 DEF Following, Traded, now
<1>4. /\ DOMAIN working' = DOMAIN working
      /\ \A k \in DOMAIN working : working'[k].intent = working[k].intent
  BY <1>1, FillStep DEF Keeps
<1>5. \A k \in DOMAIN working : working[k].intent.type = "MARKET" /\ working[k].intent.oco = None
  <2> SUFFICES ASSUME NEW k \in DOMAIN working
               PROVE  working[k].intent.type = "MARKET" /\ working[k].intent.oco = None
    OBVIOUS
  <2>1. PICK s \in generated : working[k].intent = OrderOf(generated, s)
    BY WorkingSignals
  <2> QED BY <2>1 DEF OrderOf
<1>6. working'[c.order].closed
  <2>1. working'[c.order] = Filled(o, q) /\ o \in WorkingOrders
    BY <1>1, FillStep
  <2> QED BY <1>1, <1>5, <2>1 DEF Filled, WorkingOrders
<1>7. ASSUME NEW k \in DOMAIN working, k # c.order PROVE working'[k] = working[k]
  <2>1. working'[k] = CancelAll(Siblings(c.order), now)[k]
    BY <1>1, <1>7, FillStep
  <2>2. Siblings(c.order) = {}
    BY <1>1, <1>5 DEF Siblings
  <2> QED BY <2>1, <2>2 DEF CancelAll
<1>8. Placed'
  <2>1. \A i \in DOMAIN book' \ pending' : \E k \in DOMAIN working' : working'[k].intent = book'[i]
    BY <1>1, <1>2, <1>4 DEF Placed
  <2>2. \A k \in DOMAIN working' :
           /\ working'[k].intent.id \notin pending'
           /\ \E s \in generated' : working'[k].intent = OrderOf(generated', s)
    BY <1>1, <1>2, <1>4 DEF Placed
  <2> QED BY <1>1, <1>2, <2>1, <2>2 DEF Placed
<1>9. \A k \in DOMAIN working' : OrderInTime(k)'
  <2> SUFFICES ASSUME NEW k \in DOMAIN working PROVE OrderInTime(k)'
    BY <1>4
  <2>1. CASE k = c.order
    <3>1. working'[k].intent.submitted < Traded'
      BY <1>1, <1>3, <1>4, <2>1
    <3> QED BY <1>6, <2>1, <3>1 DEF OrderInTime
  <2>2. CASE k # c.order
    <3>1. working[k].intent.submitted # now /\ working[k].intent.submitted \in Nat
      BY <1>1, <2>2, WorkingSignals
    <3>2. working[k].intent.submitted < now + 1 <=> working[k].intent.submitted < now
      BY <1>1, <3>1
    <3>3. OrderInTime(k)
      BY <1>1 DEF Following
    <3>4. working'[k] = working[k]
      BY <1>7, <2>2
    <3> QED BY <1>1, <1>3, <3>2, <3>3, <3>4 DEF OrderInTime
  <2> QED BY <2>1, <2>2
<1>10. positions'[1].quantity = Wanted(generated', Traded')
  <2>1. positions' = [positions EXCEPT ![1] =
           ApplyTrade(positions[1], FillRecord(c).side, FillRecord(c).quantity,
                      FillRecord(c).price)]
    BY <1>1, FillStep
  <2>2. 1 \in DOMAIN positions
    BY <1>1, ParametersAssumption DEF IndInv, TypeOK, Symbols
  <2>3. positions'[1].quantity = positions[1].quantity + o.intent.side * q
    BY <2>1, <2>2 DEF ApplyTrade, FillRecord
  <2>4. positions[1].quantity + o.intent.side * q = Wanted(generated, now + 1)
    BY CandidateFits
  <2> QED BY <1>3, <2>3, <2>4
<1>11. Following'
  BY <1>2, <1>3, <1>9, <1>10 DEF Following
<1> QED BY <1>8, <1>11

LEMMA NextFollows ==
    ASSUME TradesSeries, FollowInv, NothingRefused, [TradingNext]_tradingVars
    PROVE  FollowInv'
<1>1. SeriesInv' /\ generated' = generated
  BY SeriesStep DEF FollowInv
<1>2. [Next]_vars
  BY DEF TradingNext, tradingVars
<1>3. IndInv'
  BY <1>2, NextIndInv DEF FollowInv
<1>4. sym = 1
  <2>1. event.symbol \in {1}
    BY DEF FollowInv, IndInv, TypeOK, TradesSeries, Symbols
  <2> QED BY <2>1 DEF sym
<1>5. CASE UNCHANGED vars
  BY <1>1, <1>3, <1>5, StutterFollows DEF FollowInv
<1>6. CASE \E i \in pending : AcceptIntent(i)
  BY <1>1, <1>3, <1>6, AcceptFollows DEF FollowInv
<1>7. CASE \/ StartEvents
           \/ NoEvent
           \/ \E f \in FundingEvents : SettleFunding(f)
           \/ \E m \in Marks : RefuseMark(m) \/ ApplyMark(m)
           \/ CloseBar
           \/ Finish
  BY <1>1, <1>3, <1>7, QuietSteps DEF FollowInv
<1>8. CASE \E c \in queue : FillCandidate(c)
  BY <1>1, <1>3, <1>4, <1>8, FillFollows DEF FollowInv
<1>9. ASSUME NEW b \in Bars, OpenBar(b), TradingNext PROVE FollowInv'
  <2>1. b = candles[now + 1]
    BY <1>9 DEF TradingNext, OpenBar
  <2> QED BY <1>1, <1>3, <1>9, <2>1, OpenBarFollows DEF FollowInv
<1>10. \A i \in pending : ~RejectIntent(i)
  BY RejectsNothing
<1>11. \A c \in queue : ~CancelCandidate(c)
  BY <1>4, CancelsNothing
<1>12. \A m \in Marks : ~Liquidate(m)
  BY LiquidatesNothing
<1>13. UNCHANGED vars \/ (Next /\ TradingNext)
  BY DEF TradingNext, tradingVars
<1> QED BY <1>5, <1>6, <1>7, <1>8, <1>9, <1>10, <1>11, <1>12, <1>13 DEF Next, Returned

\* The position is the target of the last signal at least one row old, in
\* every series of one instrument and under every strategy, as long as the
\* engine refuses no order for its notional or margin: compile_signals leaves
\* no other way for the account to depart from the signals.
THEOREM TargetsFollowed ==
    ASSUME TradesSeries
    PROVE  TradingSpec /\ []NothingRefused => []FollowsTargets
<1>1. TradingInit => FollowInv
  BY FollowInit
<1>2. FollowInv /\ NothingRefused /\ [TradingNext]_tradingVars => FollowInv'
  BY NextFollows
<1>3. FollowInv => FollowsTargets
  <2> SUFFICES ASSUME FollowInv, AtBoundary \/ phase = "done"
               PROVE  positions[1].quantity = UnitQuantity * TargetBefore(generated, now)
    BY DEF FollowsTargets
  <2>1. phase # "bar"
    BY DEF AtBoundary
  <2> QED BY <2>1 DEF FollowInv, Following, Traded, Wanted
<1> QED BY <1>1, <1>2, <1>3, PTL DEF TradingSpec

(***************************************************************************)
(* The same for the end of a run, where compile_signals wants no target.   *)
(***************************************************************************)

\* The run trades all the rows the strategy has seen.
WholeSeries == \A run \in Experiments : Len(run.rows) = Horizon

EndInv == Len(candles) = Horizon /\ (phase = "done" => now = Horizon)

LEMMA EndInit == ASSUME WholeSeries PROVE TradingInit => EndInv
BY DEF WholeSeries, TradingInit, EndInv, Init

LEMMA NextEnd ==
    ASSUME EndInv, [TradingNext]_tradingVars
    PROVE  EndInv'
<1>1. candles' = candles
  BY DEF TradingNext, tradingVars
<1>2. [Next]_vars
  BY DEF TradingNext, tradingVars
<1>3. phase' = "done" => (phase = "done" \/ now = Horizon) /\ now' = now
  BY <1>2 DEF Next, vars, orderVars, loopVars, accountVars, AcceptIntent, RejectIntent,
     StartEvents, NoEvent, SettleFunding, RefuseMark, ApplyMark, Liquidate, OpenBar,
     CancelCandidate, FillCandidate, CloseBar, Finish, Returned, AtEvent,
     IsNextCandidate, now
<1> QED BY <1>1, <1>3 DEF EndInv

\* Every control finishes flat (BENCHMARKS.md:17) unless the engine refuses an
\* order for its notional or margin, which is what signal_flat finds.
THEOREM FlatUnlessRefused ==
    ASSUME TradesSeries, WholeSeries
    PROVE  TradingSpec /\ []NothingRefused => []FinishesFlat
<1>1. TradingInit => FollowInv /\ EndInv
  BY FollowInit, EndInit
<1>2. FollowInv /\ EndInv /\ NothingRefused /\ [TradingNext]_tradingVars
        => (FollowInv /\ EndInv)'
  BY NextFollows, NextEnd
<1>3. FollowInv /\ EndInv => FinishesFlat
  <2> SUFFICES ASSUME FollowInv, EndInv, phase = "done"
               PROVE  positions[1].quantity = 0
    BY DEF FinishesFlat
  <2>1. positions[1].quantity = UnitQuantity * TargetBefore(generated, Len(candles))
    BY DEF FollowInv, Following, Traded, Wanted, EndInv
  <2>2. TargetBefore(generated, Len(candles)) = 0
    BY DEF FollowInv, SeriesInv, Compiles, Compilable, FLAT
  <2> QED BY <2>1, <2>2, SignalAssumption
<1> QED BY <1>1, <1>2, <1>3, PTL DEF TradingSpec
=============================================================================
