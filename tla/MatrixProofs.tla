---------------------------- MODULE MatrixProofs ----------------------------
(***************************************************************************)
(* What the properties of the validation matrix rest on, for every list of *)
(* symbols and timeframes, every suite and every lake beside it: where     *)
(* each operation stands in the script of a run, what the locals of a run  *)
(* and the experiment store then hold, and why the gate is monotone.       *)
(***************************************************************************)
EXTENDS LakeProofs

-----------------------------------------------------------------------------
(***************************************************************************)
(* A flattened sequence of sequences: the j-th element of the i-th         *)
(* sequence stands at offset[i] + j, and nothing else is there.            *)
(***************************************************************************)
\* f is the recursive function inside FlattenSeq.
FlattenTable(f, seqs, n) ==
    f = [i \in 1..n |-> IF i = 1 THEN seqs[i] ELSE f[i - 1] \o seqs[i]]

LEMMA FlattenTableExists ==
    ASSUME NEW seqs, NEW n \in Nat
    PROVE  \E f : FlattenTable(f, seqs, n)
<1> DEFINE Bad == {m \in Nat : ~\E f : FlattenTable(f, seqs, m)}
<1> SUFFICES ASSUME Bad # {} PROVE FALSE
  OBVIOUS
<1>1. Bad \in SUBSET Nat
  OBVIOUS
<1> HIDE DEF Bad
<1>2. PICK m \in Bad : \A k \in Bad : m <= k
  BY <1>1, LeastNatural
<1> USE DEF Bad
<1>3. m # 0
  <2> DEFINE f == [i \in 1..0 |-> 0]
  <2>1. FlattenTable(f, seqs, 0)
    BY DEF FlattenTable
  <2> HIDE DEF f
  <2> QED BY <2>1
<1>4. PICK g : FlattenTable(g, seqs, m - 1)
  BY <1>2, <1>3
<1> DEFINE f == [i \in 1..m |-> IF i < m THEN g[i]
                               ELSE IF i = 1 THEN seqs[i] ELSE g[i - 1] \o seqs[i]]
<1>5. ASSUME NEW i \in 1..m
      PROVE  f[i] = IF i = 1 THEN seqs[i] ELSE f[i - 1] \o seqs[i]
  <2>1. CASE i = m
    <3>1. i # 1 => i - 1 \in 1..m /\ i - 1 < m
      BY <2>1
    <3> QED BY <2>1, <3>1
  <2>2. CASE i # m
    <3>1. i \in 1..m - 1
      BY <2>2
    <3>2. g[i] = IF i = 1 THEN seqs[i] ELSE g[i - 1] \o seqs[i]
      BY <1>4, <3>1 DEF FlattenTable
    <3>3. i # 1 => i - 1 \in 1..m /\ i - 1 < m
      OBVIOUS
    <3>4. i < m
      BY <2>2
    <3> QED BY <3>2, <3>3, <3>4
  <2> QED BY <2>1, <2>2
<1>6. f = [i \in 1..m |-> f[i]]
  OBVIOUS
<1> HIDE DEF f
<1>7. FlattenTable(f, seqs, m)
  BY <1>5, <1>6 DEF FlattenTable
<1> QED BY <1>7

\* flat lists the elements of seqs, those of the i-th after offset[i].
Offsets(flat, seqs, offset) ==
    LET n == Len(seqs)
    IN  /\ offset \in [1..n + 1 -> Nat] /\ offset[1] = 0
        /\ \A i \in 1..n : offset[i + 1] = offset[i] + Len(seqs[i])
        /\ \A i, k \in 1..n + 1 : i <= k => offset[i] <= offset[k]
        /\ Len(flat) = offset[n + 1]
        /\ \A i \in 1..n : \A j \in 1..Len(seqs[i]) : flat[offset[i] + j] = seqs[i][j]

LEMMA Flattened ==
    ASSUME NEW S, NEW seqs \in Seq(Seq(S))
    PROVE  /\ FlattenSeq(seqs) \in Seq(S)
           /\ \E offset : Offsets(FlattenSeq(seqs), seqs, offset)
<1>1. PICK n \in Nat : n = Len(seqs)
  BY LenProperties
<1>2. \A i \in 1..n : seqs[i] \in Seq(S) /\ Len(seqs[i]) \in Nat
  BY <1>1, ElementOfSeq, LenProperties
<1>3. CASE n = 0
  <2> DEFINE offset == [i \in 1..1 |-> 0]
  <2>1. seqs = << >> /\ FlattenSeq(seqs) = seqs
    BY <1>1, <1>3, EmptySeq DEF FlattenSeq
  <2>2. offset \in [1..1 -> Nat] /\ offset[1] = 0
    OBVIOUS
  <2> HIDE DEF offset
  <2>3. Offsets(FlattenSeq(seqs), seqs, offset)
    BY <1>1, <1>3, <2>1, <2>2 DEF Offsets
  <2>4. FlattenSeq(seqs) \in Seq(S)
    <3>1. << >> \in Seq(S) /\ FlattenSeq(seqs) = << >>
      BY <2>1
    <3> QED BY <3>1, Zenon
  <2> QED BY <2>3, <2>4
<1>4. CASE n # 0
  <2> DEFINE f == CHOOSE g : FlattenTable(g, seqs, n)
  <2>1. FlattenTable(f, seqs, n)
    BY FlattenTableExists
  <2>2. FlattenSeq(seqs) = f[n]
    BY <1>1, <1>4 DEF FlattenSeq, FlattenTable
  <2> HIDE DEF f
  <2>3. \A i \in 1..n : f[i] = IF i = 1 THEN seqs[i] ELSE f[i - 1] \o seqs[i]
    BY <2>1 DEF FlattenTable
  <2>4. \A i \in 1..n : f[i] \in Seq(S)
    <3> DEFINE Bad == {i \in 1..n : f[i] \notin Seq(S)}
    <3> SUFFICES ASSUME Bad # {} PROVE FALSE
      OBVIOUS
    <3>1. Bad \in SUBSET Nat
      OBVIOUS
    <3> HIDE DEF Bad
    <3>2. PICK m \in Bad : \A k \in Bad : m <= k
      BY <3>1, LeastNatural
    <3> USE DEF Bad
    <3>3. m # 1 => m - 1 \in 1..n /\ m - 1 \notin Bad
      BY <3>2
    <3>4. m # 1 => f[m - 1] \in Seq(S)
      BY <3>3
    <3>5. f[m] \in Seq(S)
      <4>1. m \in 1..n
        OBVIOUS
      <4>2. CASE m = 1
        BY <1>2, <2>3, <4>1, <4>2
      <4>3. CASE m # 1
        <5>1. f[m] = f[m - 1] \o seqs[m]
          BY <2>3, <4>1, <4>3
        <5>2. seqs[m] \in Seq(S)
          BY <1>2, <4>1
        <5> QED BY <3>4, <4>3, <5>1, <5>2, ConcatProperties
      <4> QED BY <4>2, <4>3
    <3> QED BY <3>5
  <2> DEFINE offset == [i \in 1..n + 1 |-> IF i = 1 THEN 0 ELSE Len(f[i - 1])]
  <2>5. \A i \in 1..n : Len(f[i]) \in Nat
    BY <2>4, LenProperties
  <2>6. offset \in [1..n + 1 -> Nat] /\ offset[1] = 0 /\ \A i \in 1..n : offset[i + 1] = Len(f[i])
    BY <2>5
  <2> HIDE DEF offset
  <2>7. ASSUME NEW i \in 1..n, i # 1
        PROVE  /\ i - 1 \in 1..n /\ offset[i] = Len(f[i - 1])
               /\ Len(f[i]) = Len(f[i - 1]) + Len(seqs[i])
               /\ \A k \in 1..Len(f[i]) :
                     f[i][k] = IF k <= offset[i] THEN f[i - 1][k] ELSE seqs[i][k - offset[i]]
    <3>1. i - 1 \in 1..n
      BY <2>7
    <3>2. offset[i] = Len(f[i - 1])
      BY <2>6, <3>1
    <3>3. f[i - 1] \in Seq(S) /\ seqs[i] \in Seq(S)
      BY <1>2, <2>4, <3>1
    <3>4. /\ Len(f[i - 1] \o seqs[i]) = Len(f[i - 1]) + Len(seqs[i])
          /\ \A k \in 1..Len(f[i - 1]) + Len(seqs[i]) :
                (f[i - 1] \o seqs[i])[k] = IF k <= Len(f[i - 1]) THEN f[i - 1][k]
                                           ELSE seqs[i][k - Len(f[i - 1])]
      BY <3>3, ConcatProperties
    <3>5. f[i] = f[i - 1] \o seqs[i]
      BY <2>3, <2>7
    <3> QED BY <3>1, <3>2, <3>4, <3>5
  <2>8. \A i \in 1..n : offset[i + 1] = offset[i] + Len(seqs[i])
    <3> TAKE i \in 1..n
    <3>1. CASE i = 1
      <4>1. offset[i + 1] = Len(f[i]) /\ f[i] = seqs[i] /\ offset[i] = 0
        BY <2>3, <2>6, <3>1
      <4> QED BY <1>2, <4>1
    <3>2. CASE i # 1
      BY <2>6, <2>7, <3>2
    <3> QED BY <3>1, <3>2
  <2>9. \A i, k \in 1..n + 1 : i <= k => offset[i] <= offset[k]
    <3> SUFFICES ASSUME NEW i \in 1..n + 1 PROVE \A k \in 1..n + 1 : i <= k => offset[i] <= offset[k]
      OBVIOUS
    <3> DEFINE Bad == {k \in 1..n + 1 : i <= k /\ ~(offset[i] <= offset[k])}
    <3> SUFFICES ASSUME Bad # {} PROVE FALSE
      OBVIOUS
    <3>1. Bad \in SUBSET Nat
      OBVIOUS
    <3> HIDE DEF Bad
    <3>2. PICK m \in Bad : \A k \in Bad : m <= k
      BY <3>1, LeastNatural
    <3>3. m \in 1..n + 1 /\ i <= m /\ ~(offset[i] <= offset[m])
      BY DEF Bad
    <3>4. m # i /\ m - 1 \in 1..n /\ i <= m - 1
      BY <2>6, <3>3
    <3>5. m - 1 \notin Bad
      BY <3>2, <3>3
    <3>6. offset[i] <= offset[m - 1]
      BY <3>4, <3>5 DEF Bad
    <3>7. offset[m] = offset[m - 1] + Len(seqs[m - 1])
      BY <2>8, <3>3, <3>4
    <3>8. offset[m - 1] \in Nat /\ offset[i] \in Nat /\ Len(seqs[m - 1]) \in Nat
      <4>1. m - 1 \in 1..n + 1 /\ i \in 1..n + 1
        BY <3>3, <3>4
      <4> QED BY <1>2, <2>6, <3>4, <4>1
    <3> QED BY <3>3, <3>6, <3>7, <3>8
  <2>10. \A m \in 1..n : \A i \in 1..m : \A j \in 1..Len(seqs[i]) :
            f[m][offset[i] + j] = seqs[i][j]
    <3> DEFINE Here(m) == \A i \in 1..m : \A j \in 1..Len(seqs[i]) :
                             f[m][offset[i] + j] = seqs[i][j]
               Bad == {m \in 1..n : ~Here(m)}
    <3> SUFFICES ASSUME Bad # {} PROVE FALSE
      OBVIOUS
    <3>1. Bad \in SUBSET Nat
      OBVIOUS
    <3> HIDE DEF Bad
    <3>2. PICK m \in Bad : \A k \in Bad : m <= k
      BY <3>1, LeastNatural
    <3>3. m \in 1..n /\ ~Here(m)
      BY DEF Bad
    <3>4. CASE m = 1
      <4>1. f[m] = seqs[1]
        BY <2>3, <3>3, <3>4
      <4>2. \A i \in 1..m : i = 1
        BY <3>4
      <4>3. \A j \in 1..Len(seqs[1]) : offset[1] + j = j
        BY <1>2, <1>4, <2>6
      <4> QED BY <3>3, <4>1, <4>2, <4>3
    <3>5. CASE m # 1
      <4>1. m - 1 \in 1..n /\ m - 1 \notin Bad
        BY <3>2, <3>3, <3>5
      <4>2. Here(m - 1)
        BY <4>1 DEF Bad
      <4>3. ASSUME NEW i \in 1..m, NEW j \in 1..Len(seqs[i])
            PROVE  f[m][offset[i] + j] = seqs[i][j]
        <5>1. i \in 1..n /\ i \in 1..n + 1 /\ i + 1 \in 1..n + 1 /\ m \in 1..n + 1
          BY <3>3
        <5>2. /\ offset[i] + j <= offset[i + 1] /\ offset[i] + j \in Nat \ {0}
              /\ offset[i] \in Nat /\ offset[i + 1] \in Nat
          <6>1. PICK l \in Nat : l = Len(seqs[i])
            BY <1>2, <5>1
          <6>2. offset[i] \in Nat /\ offset[i + 1] \in Nat /\ offset[i + 1] = offset[i] + l
            BY <2>6, <2>8, <5>1, <6>1
          <6>3. j \in 1..l
            BY <6>1
          <6> QED BY <6>2, <6>3
        <5>3. offset[i + 1] <= offset[m + 1] /\ offset[m + 1] = Len(f[m]) /\ offset[m] \in Nat
          BY <2>6, <2>9, <3>3, <5>1
        <5>4. offset[i] + j \in 1..Len(f[m])
          <6>1. PICK x, y, z : x = offset[i] + j /\ y = offset[i + 1] /\ z = Len(f[m])
            OBVIOUS
          <6>2. x \in Nat \ {0} /\ y \in Nat /\ z \in Nat /\ x <= y /\ y <= z
            BY <2>5, <3>3, <5>2, <5>3, <6>1
          <6>3. x \in 1..z
            BY <6>2
          <6> QED BY <6>1, <6>3
        <5>5. CASE i = m
          <6>1. ~(offset[i] + j <= offset[m]) /\ (offset[i] + j) - offset[m] = j
            BY <5>3, <5>5
          <6>2. f[m][offset[i] + j] = seqs[m][(offset[i] + j) - offset[m]]
            BY <2>7, <3>3, <3>5, <5>4, <6>1
          <6> QED BY <5>5, <6>1, <6>2
        <5>6. CASE i # m
          <6>1. i \in 1..m - 1 /\ i + 1 <= m
            BY <3>3, <5>6
          <6>2. offset[i + 1] <= offset[m]
            BY <2>9, <5>1, <6>1
          <6>3. offset[i] + j <= offset[m]
            BY <5>2, <5>3, <6>2
          <6>4. f[m][offset[i] + j] = f[m - 1][offset[i] + j]
            BY <2>7, <3>3, <3>5, <5>4, <6>3
          <6> QED BY <4>2, <6>1, <6>4
        <5> QED BY <5>5, <5>6
      <4> QED BY <3>3, <4>3
    <3> QED BY <3>4, <3>5
  <2>11. /\ n \in 1..n /\ Len(f[n]) = offset[n + 1]
         /\ \A i \in 1..n : \A j \in 1..Len(seqs[i]) : f[n][offset[i] + j] = seqs[i][j]
    <3>1. n \in 1..n
      BY <1>4
    <3>2. Len(f[n]) = offset[n + 1]
      BY <2>6, <3>1
    <3> QED BY <2>10, <3>1, <3>2
  <2>12. Offsets(f[n], seqs, offset)
    BY <1>1, <2>6, <2>8, <2>9, <2>11 DEF Offsets
  <2> QED BY <2>2, <2>4, <2>11, <2>12
<1> QED BY <1>3, <1>4

\* Every place of the flattened sequence is one of one of the sequences.
LEMMA OffsetsCover ==
    ASSUME NEW S, NEW seqs \in Seq(Seq(S)), NEW flat, NEW offset,
           Offsets(flat, seqs, offset), NEW p \in 1..Len(flat)
    PROVE  \E i \in 1..Len(seqs) : \E j \in 1..Len(seqs[i]) : p = offset[i] + j
<1>1. PICK n \in Nat : n = Len(seqs)
  BY LenProperties
<1>2. /\ offset \in [1..n + 1 -> Nat] /\ offset[1] = 0 /\ Len(flat) = offset[n + 1]
      /\ \A i \in 1..n : offset[i + 1] = offset[i] + Len(seqs[i])
  BY <1>1 DEF Offsets
<1>3. \A i \in 1..n : Len(seqs[i]) \in Nat
  BY <1>1, ElementOfSeq, LenProperties
<1> DEFINE T == {i \in 1..n : p <= offset[i + 1]}
<1>4. n # 0
  BY <1>2
<1>5. n \in T /\ T \in SUBSET Nat
  BY <1>2, <1>4
<1> HIDE DEF T
<1>6. PICK i \in T : \A k \in T : i <= k
  BY <1>5, LeastNatural
<1>7. i \in 1..n /\ p <= offset[i + 1] /\ p \in Nat
  BY <1>2 DEF T
<1>8. p > offset[i]
  <2>1. CASE i = 1
    BY <1>2, <2>1
  <2>2. CASE i # 1
    <3>1. i - 1 \in 1..n /\ i - 1 \notin T
      BY <1>6, <1>7, <2>2
    <3>2. ~(p <= offset[(i - 1) + 1])
      BY <3>1 DEF T
    <3>3. (i - 1) + 1 = i /\ offset[i] \in Nat
      BY <1>2, <1>7
    <3> QED BY <1>7, <3>2, <3>3
  <2> QED BY <2>1, <2>2
<1>9. offset[i] \in Nat /\ offset[i + 1] = offset[i] + Len(seqs[i]) /\ Len(seqs[i]) \in Nat
  BY <1>2, <1>3, <1>7
<1>10. p - offset[i] \in 1..Len(seqs[i]) /\ p = offset[i] + (p - offset[i])
  BY <1>7, <1>8, <1>9
<1> QED BY <1>1, <1>7, <1>10
-----------------------------------------------------------------------------
(***************************************************************************)
(* The script of a run.  The operations of the i-th symbol stand after     *)
(* at[i], those of the j-th cell of the i-th symbol after cellAt[<<i, j>>].*)
(***************************************************************************)
NS == Len(Symbols)
NT == Len(Timeframes)
CellOf(i, j) == <<Symbols[i], Timeframes[j]>>
Ops == {Op(kind, on) : kind \in {"instruments", "resolve", "load", "suite", "gate"},
                       on \in Requests \cup Cells \cup {None}}

LEMMA ListsOfProtocol ==
    /\ NS \in Nat /\ DOMAIN Symbols = 1..NS
    /\ NT \in Nat /\ DOMAIN Timeframes = 1..NT
    /\ \A i, k \in 1..NS : Symbols[i] = Symbols[k] => i = k
    /\ \A j, l \in 1..NT : Timeframes[j] = Timeframes[l] => j = l
    /\ \A i \in 1..NS : Symbols[i] \in Range(Symbols)
    /\ Cells = {CellOf(i, j) : i \in 1..NS, j \in 1..NT}
<1>1. /\ NS \in Nat /\ DOMAIN Symbols = 1..NS
      /\ NT \in Nat /\ DOMAIN Timeframes = 1..NT
  BY MatrixAssumption, LenProperties DEF NS, NT
<1>2. IsInjective(Symbols) /\ IsInjective(Timeframes)
  BY MatrixAssumption
<1>3. \A i \in 1..NS : Symbols[i] \in Range(Symbols)
  BY <1>1 DEF Range
<1>4. Cells = {CellOf(i, j) : i \in 1..NS, j \in 1..NT}
  BY <1>1 DEF Cells, CellOf
<1> QED BY <1>1, <1>2, <1>3, <1>4 DEF IsInjective

\* A request is for one series.
LEMMA RequestsApart ==
    /\ \A i \in 1..NS : {FundingOf[Symbols[i]], MarkOf[Symbols[i]]} \subseteq Requests \ Snapshots
    /\ \A i \in 1..NS, j \in 1..NT : CandlesOf[CellOf(i, j)] \in Requests \ Snapshots
    /\ \A i, k \in 1..NS :
          /\ FundingOf[Symbols[i]] # MarkOf[Symbols[k]]
          /\ FundingOf[Symbols[i]] = FundingOf[Symbols[k]] => i = k
          /\ MarkOf[Symbols[i]] = MarkOf[Symbols[k]] => i = k
    /\ \A i, k \in 1..NS, j, l \in 1..NT :
          /\ CandlesOf[CellOf(i, j)] \notin {FundingOf[Symbols[k]], MarkOf[Symbols[k]]}
          /\ CandlesOf[CellOf(i, j)] = CandlesOf[CellOf(k, l)] => i = k /\ j = l
          /\ CellOf(i, j) = CellOf(k, l) => i = k /\ j = l
<1>1. \A i, k \in 1..NS, j, l \in 1..NT : CellOf(i, j) = CellOf(k, l) => i = k /\ j = l
  <2> TAKE i, k \in 1..NS, j, l \in 1..NT
  <2>1. CellOf(i, j) = CellOf(k, l) => Symbols[i] = Symbols[k] /\ Timeframes[j] = Timeframes[l]
    BY DEF CellOf
  <2> QED BY <2>1, ListsOfProtocol
<1>2. \A i \in 1..NS, j \in 1..NT : CellOf(i, j) \in Cells
  BY ListsOfProtocol
<1>3. /\ \A s, t \in Range(Symbols) :
            /\ {FundingOf[s], MarkOf[s]} \subseteq Requests \ Snapshots
            /\ FundingOf[s] # MarkOf[t]
            /\ s # t => FundingOf[s] # FundingOf[t] /\ MarkOf[s] # MarkOf[t]
      /\ \A c, d \in Cells :
            /\ CandlesOf[c] \in Requests \ Snapshots
            /\ \A s \in Range(Symbols) : CandlesOf[c] \notin {FundingOf[s], MarkOf[s]}
            /\ c # d => CandlesOf[c] # CandlesOf[d]
  BY MatrixAssumption
<1>4. \A i, k \in 1..NS : i # k => Symbols[i] # Symbols[k]
  BY ListsOfProtocol
<1>5. \A i \in 1..NS : Symbols[i] \in Range(Symbols)
  BY ListsOfProtocol
<1> HIDE DEF CellOf
<1>6. \A i \in 1..NS : {FundingOf[Symbols[i]], MarkOf[Symbols[i]]} \subseteq Requests \ Snapshots
  BY <1>3, <1>5
<1>7. \A i \in 1..NS, j \in 1..NT : CandlesOf[CellOf(i, j)] \in Requests \ Snapshots
  BY <1>2, <1>3
<1>8. \A i, k \in 1..NS :
         /\ FundingOf[Symbols[i]] # MarkOf[Symbols[k]]
         /\ FundingOf[Symbols[i]] = FundingOf[Symbols[k]] => i = k
         /\ MarkOf[Symbols[i]] = MarkOf[Symbols[k]] => i = k
  BY <1>3, <1>4, <1>5
<1>9. \A i, k \in 1..NS, j, l \in 1..NT :
         /\ CandlesOf[CellOf(i, j)] \notin {FundingOf[Symbols[k]], MarkOf[Symbols[k]]}
         /\ CandlesOf[CellOf(i, j)] = CandlesOf[CellOf(k, l)] => i = k /\ j = l
  BY <1>1, <1>2, <1>3, <1>5
<1> QED BY <1>1, <1>6, <1>7, <1>8, <1>9

CellBlocks(i) == [j \in DOMAIN Timeframes |-> CellScript(CellOf(i, j))]
SymbolBlocks == [i \in DOMAIN Symbols |-> SymbolScript(Symbols[i])]

HeadOps(i, h) ==
    CASE h = 1 -> Op("resolve", FundingOf[Symbols[i]])
      [] h = 2 -> Op("resolve", MarkOf[Symbols[i]])
      [] h = 3 -> Op("load", FundingOf[Symbols[i]])
      [] OTHER -> Op("load", MarkOf[Symbols[i]])

CellOps(i, j, h) ==
    CASE h = 1 -> Op("resolve", CandlesOf[CellOf(i, j)])
      [] h = 2 -> Op("load", CandlesOf[CellOf(i, j)])
      [] OTHER -> Op("suite", CellOf(i, j))

LEMMA CellBlock ==
    ASSUME NEW i \in 1..NS, NEW j \in 1..NT
    PROVE  /\ CellScript(CellOf(i, j)) \in Seq(Ops)
           /\ Len(CellScript(CellOf(i, j))) = 3
           /\ \A h \in 1..3 : CellScript(CellOf(i, j))[h] = CellOps(i, j, h)
<1> DEFINE c == CellOf(i, j)
           x == Op("resolve", CandlesOf[c])
           y == Op("load", CandlesOf[c])
           z == Op("suite", c)
<1>1. c \in Cells /\ CandlesOf[c] \in Requests
  BY ListsOfProtocol, RequestsApart
<1> HIDE DEF c
<1>2. x \in Ops /\ y \in Ops /\ z \in Ops
  BY <1>1 DEF Ops
<1>3. CellScript(c) = <<x, y, z>>
  BY DEF CellScript
<1> HIDE DEF x, y, z
<1>4. <<x, y, z>> \in Seq(Ops) /\ Len(<<x, y, z>>) = 3
      /\ <<x, y, z>>[1] = x /\ <<x, y, z>>[2] = y /\ <<x, y, z>>[3] = z
  BY <1>2
<1>5. CellOps(i, j, 1) = x /\ CellOps(i, j, 2) = y /\ CellOps(i, j, 3) = z
  BY DEF CellOps, x, y, z, c
<1>6. \A h \in 1..3 : h = 1 \/ h = 2 \/ h = 3
  OBVIOUS
<1>7. \A h \in 1..3 : <<x, y, z>>[h] = CellOps(i, j, h)
  BY <1>4, <1>5, <1>6
<1> QED BY <1>3, <1>4, <1>7 DEF c

\* The script of the i-th symbol, where its j-th cell stands after offset[j].
LEMMA SymbolBlock ==
    ASSUME NEW i \in 1..NS
    PROVE  /\ SymbolScript(Symbols[i]) \in Seq(Ops)
           /\ \A h \in 1..4 : SymbolScript(Symbols[i])[h] = HeadOps(i, h)
           /\ \E offset \in [1..NT -> Nat] :
                 /\ \A j \in 1..NT : 4 + offset[j] + 3 <= Len(SymbolScript(Symbols[i]))
                 /\ \A j \in 1..NT, h \in 1..3 :
                       SymbolScript(Symbols[i])[4 + offset[j] + h] = CellOps(i, j, h)
                 /\ \A p \in 1..Len(SymbolScript(Symbols[i])) :
                       \/ p \in 1..4
                       \/ \E j \in 1..NT, h \in 1..3 : p = 4 + offset[j] + h
           /\ Len(SymbolScript(Symbols[i])) >= 4
<1> DEFINE s == Symbols[i]
           w == Op("resolve", FundingOf[s])
           x == Op("resolve", MarkOf[s])
           y == Op("load", FundingOf[s])
           z == Op("load", MarkOf[s])
           head == <<w, x, y, z>>
           blocks == CellBlocks(i)
           flat == FlattenSeq(blocks)
           whole == SymbolScript(s)
<1>1. FundingOf[s] \in Requests /\ MarkOf[s] \in Requests
  BY RequestsApart
<1>2. w \in Ops /\ x \in Ops /\ y \in Ops /\ z \in Ops
  BY <1>1 DEF Ops
<1>3. HeadOps(i, 1) = w /\ HeadOps(i, 2) = x /\ HeadOps(i, 3) = y /\ HeadOps(i, 4) = z
  BY DEF HeadOps
<1>4. whole = head \o flat
  BY DEF SymbolScript, CellBlocks, CellOf
<1>5. blocks = [j \in 1..NT |-> CellScript(CellOf(i, j))] /\ NT \in Nat
  BY ListsOfProtocol DEF CellBlocks
<1> HIDE DEF w, x, y, z, blocks, s
<1>6. /\ head \in Seq(Ops) /\ Len(head) = 4
      /\ head[1] = w /\ head[2] = x /\ head[3] = y /\ head[4] = z
  BY <1>2
<1>7. blocks \in Seq(Seq(Ops)) /\ Len(blocks) = NT
      /\ \A j \in 1..NT : blocks[j] = CellScript(CellOf(i, j)) /\ Len(blocks[j]) = 3
  <2>1. \A j \in 1..NT : CellScript(CellOf(i, j)) \in Seq(Ops) /\ Len(CellScript(CellOf(i, j))) = 3
    BY CellBlock
  <2>2. blocks \in [1..NT -> Seq(Ops)]
    BY <1>5, <2>1
  <2>3. blocks \in Seq(Seq(Ops)) /\ Len(blocks) = NT
    BY <1>5, <2>2
  <2> QED BY <1>5, <2>1, <2>3
<1>8. PICK offset : flat \in Seq(Ops) /\ Offsets(flat, blocks, offset)
  BY <1>7, Flattened
<1> HIDE DEF head, flat, whole
<1>9. /\ whole \in Seq(Ops) /\ Len(whole) = 4 + Len(flat) /\ Len(flat) \in Nat
      /\ \A p \in 1..4 + Len(flat) : whole[p] = IF p <= 4 THEN head[p] ELSE flat[p - 4]
  <2>1. PICK a, b : a = head /\ b = flat
    OBVIOUS
  <2>2. a \in Seq(Ops) /\ b \in Seq(Ops) /\ Len(a) = 4
    BY <1>6, <1>8, <2>1
  <2>3. Len(b) \in Nat
    BY <2>2, LenProperties
  <2>4. /\ a \o b \in Seq(Ops) /\ Len(a \o b) = Len(a) + Len(b)
        /\ \A p \in 1..Len(a) + Len(b) :
              (a \o b)[p] = IF p <= Len(a) THEN a[p] ELSE b[p - Len(a)]
    BY <2>2, ConcatProperties
  <2>5. PICK ab : ab = a \o b
    OBVIOUS
  <2>6. /\ ab \in Seq(Ops) /\ Len(ab) = 4 + Len(b)
        /\ \A p \in 1..4 + Len(b) : ab[p] = IF p <= 4 THEN a[p] ELSE b[p - 4]
    BY <2>2, <2>4, <2>5
  <2>7. whole = ab
    BY <1>4, <2>1, <2>5
  <2> QED BY <2>1, <2>3, <2>6, <2>7
<1>10. /\ \A j \in 1..NT : offset[j] \in Nat /\ offset[j] + 3 <= Len(flat)
       /\ \A j \in 1..NT, h \in 1..3 : flat[offset[j] + h] = blocks[j][h]
  <2>1. /\ offset \in [1..NT + 1 -> Nat] /\ Len(flat) = offset[NT + 1]
        /\ \A j \in 1..NT : offset[j + 1] = offset[j] + 3
        /\ \A j, k \in 1..NT + 1 : j <= k => offset[j] <= offset[k]
        /\ \A j \in 1..NT : \A h \in 1..3 : flat[offset[j] + h] = blocks[j][h]
    BY <1>7, <1>8 DEF Offsets
  <2>2. \A j \in 1..NT : j \in 1..NT + 1 /\ j + 1 \in 1..NT + 1 /\ NT + 1 \in 1..NT + 1 /\ j + 1 <= NT + 1
    BY <1>5
  <2> QED BY <2>1, <2>2
<1> DEFINE place == [j \in 1..NT |-> offset[j]]
<1>11. place \in [1..NT -> Nat]
  BY <1>10
<1>12. \A j \in 1..NT : 4 + place[j] + 3 <= Len(whole)
  BY <1>9, <1>10
<1>13. ASSUME NEW j \in 1..NT, NEW h \in 1..3
       PROVE  whole[4 + place[j] + h] = CellOps(i, j, h)
  <2>1. /\ 4 + offset[j] + h \in 1..4 + Len(flat)
        /\ ~(4 + offset[j] + h <= 4) /\ (4 + offset[j] + h) - 4 = offset[j] + h
    <3>1. PICK o \in Nat, l \in Nat : o = offset[j] /\ l = Len(flat)
      BY <1>9, <1>10
    <3>2. o + 3 <= l
      BY <1>10, <3>1
    <3>3. /\ 4 + o + h \in 1..4 + l /\ ~(4 + o + h <= 4) /\ (4 + o + h) - 4 = o + h
      BY <3>2
    <3> QED BY <3>1, <3>3
  <2>2. whole[4 + offset[j] + h] = flat[offset[j] + h]
    BY <1>9, <2>1
  <2>3. flat[offset[j] + h] = CellScript(CellOf(i, j))[h]
    <3>1. flat[offset[j] + h] = blocks[j][h]
      BY <1>10
    <3> QED BY <1>7, <3>1
  <2> QED BY <2>2, <2>3, CellBlock
<1>14. ASSUME NEW p \in 1..Len(whole), p \notin 1..4
       PROVE  \E j \in 1..NT, h \in 1..3 : p = 4 + place[j] + h
  <2>1. PICK q \in 1..Len(flat) : p = 4 + q
    <3>1. p - 4 \in 1..Len(flat) /\ p = 4 + (p - 4)
      BY <1>9, <1>14
    <3> QED BY <3>1
  <2>2. \E j \in 1..Len(blocks) : \E h \in 1..Len(blocks[j]) : q = offset[j] + h
    BY <1>7, <1>8, OffsetsCover
  <2>3. PICK j \in 1..NT, h \in 1..3 : q = offset[j] + h
    BY <1>7, <2>2
  <2>4. place[j] = offset[j] /\ offset[j] \in Nat
    BY <1>10
  <2>5. p = 4 + place[j] + h
    BY <2>1, <2>3, <2>4
  <2> QED BY <2>5
<1>15. \A h \in 1..4 : whole[h] = HeadOps(i, h)
  <2>1. \A h \in 1..4 : whole[h] = head[h]
    BY <1>9
  <2>2. \A h \in 1..4 : h = 1 \/ h = 2 \/ h = 3 \/ h = 4
    OBVIOUS
  <2> QED BY <1>3, <1>6, <2>1, <2>2
<1>16. whole \in Seq(Ops) /\ Len(whole) >= 4
  BY <1>9
<1> HIDE DEF place
<1> QED BY <1>11, <1>12, <1>13, <1>14, <1>15, <1>16 DEF whole, s

ScriptMap(at, cellAt) ==
    /\ Len(Script) \in Nat /\ Len(Script) >= 2 /\ DOMAIN Script = 1..Len(Script)
    /\ Script[1] = Op("instruments", None)
    /\ Script[Len(Script)] = Op("gate", None)
    /\ \A i \in 1..NS : at[i] \in Nat \ {0} /\ at[i] + 4 < Len(Script)
    /\ \A i \in 1..NS, h \in 1..4 : Script[at[i] + h] = HeadOps(i, h)
    /\ \A i \in 1..NS, j \in 1..NT :
          /\ cellAt[<<i, j>>] \in Nat \ {0}
          /\ at[i] + 4 <= cellAt[<<i, j>>] /\ cellAt[<<i, j>>] + 3 < Len(Script)
    /\ \A i \in 1..NS, j \in 1..NT, h \in 1..3 : Script[cellAt[<<i, j>>] + h] = CellOps(i, j, h)
    /\ \A p \in 2..Len(Script) - 1 :
          \/ \E i \in 1..NS, h \in 1..4 : p = at[i] + h
          \/ \E i \in 1..NS, j \in 1..NT, h \in 1..3 : p = cellAt[<<i, j>>] + h

\* Where the cells of the i-th symbol stand in its own script.
InBlock(i, offset) ==
    /\ offset \in [1..NT -> Nat]
    /\ \A j \in 1..NT : 4 + offset[j] + 3 <= Len(SymbolScript(Symbols[i]))
    /\ \A j \in 1..NT, h \in 1..3 :
          SymbolScript(Symbols[i])[4 + offset[j] + h] = CellOps(i, j, h)
    /\ \A p \in 1..Len(SymbolScript(Symbols[i])) :
          \/ p \in 1..4
          \/ \E j \in 1..NT, h \in 1..3 : p = 4 + offset[j] + h

LEMMA ScriptMapped == \E at, cellAt : ScriptMap(at, cellAt)
<1> DEFINE first == <<Op("instruments", None)>>
           last == <<Op("gate", None)>>
           blocks == SymbolBlocks
           flat == FlattenSeq(blocks)
<1>1. first \in Seq(Ops) /\ Len(first) = 1 /\ last \in Seq(Ops) /\ Len(last) = 1
      /\ first[1] = Op("instruments", None) /\ last[1] = Op("gate", None)
  <2>1. Op("instruments", None) \in Ops /\ Op("gate", None) \in Ops
    BY DEF Ops
  <2> QED BY <2>1
<1>2. NS \in Nat /\ NT \in Nat /\ blocks = [i \in 1..NS |-> SymbolScript(Symbols[i])]
  BY ListsOfProtocol DEF SymbolBlocks
<1>3. Script = first \o flat \o last
  BY DEF Script, SymbolBlocks
<1> HIDE DEF first, last, blocks
<1>4. blocks \in Seq(Seq(Ops)) /\ Len(blocks) = NS
      /\ \A i \in 1..NS : blocks[i] = SymbolScript(Symbols[i])
  <2>1. \A i \in 1..NS : SymbolScript(Symbols[i]) \in Seq(Ops)
    BY SymbolBlock
  <2>2. blocks \in [1..NS -> Seq(Ops)]
    BY <1>2, <2>1
  <2> QED BY <1>2, <2>2
<1>5. PICK offset : flat \in Seq(Ops) /\ Offsets(flat, blocks, offset)
  BY <1>4, Flattened
<1> HIDE DEF flat
<1>6. PICK n \in Nat : n = Len(flat)
  BY <1>5, LenProperties
<1>7. /\ Script \in Seq(Ops) /\ Len(Script) = n + 2
      /\ Script[1] = Op("instruments", None) /\ Script[n + 2] = Op("gate", None)
      /\ \A p \in 1..n : Script[p + 1] = flat[p]
  <2>1. PICK a, b, c : a = first /\ b = flat /\ c = last
    OBVIOUS
  <2>2. a \in Seq(Ops) /\ b \in Seq(Ops) /\ c \in Seq(Ops) /\ Len(a) = 1 /\ Len(b) = n /\ Len(c) = 1
    BY <1>1, <1>5, <1>6, <2>1
  <2>3. PICK ab : ab = a \o b
    OBVIOUS
  <2>4. /\ ab \in Seq(Ops) /\ Len(ab) = 1 + n
        /\ \A p \in 1..1 + n : ab[p] = IF p <= 1 THEN a[p] ELSE b[p - 1]
    <3>1. /\ a \o b \in Seq(Ops) /\ Len(a \o b) = Len(a) + Len(b)
          /\ \A p \in 1..Len(a) + Len(b) :
                (a \o b)[p] = IF p <= Len(a) THEN a[p] ELSE b[p - Len(a)]
      BY <2>2, ConcatProperties
    <3> QED BY <2>2, <2>3, <3>1
  <2>5. PICK abc : abc = ab \o c
    OBVIOUS
  <2>6. /\ abc \in Seq(Ops) /\ Len(abc) = (1 + n) + 1
        /\ \A p \in 1..(1 + n) + 1 : abc[p] = IF p <= 1 + n THEN ab[p] ELSE c[p - (1 + n)]
    <3>1. ab \in Seq(Ops) /\ Len(ab) = 1 + n
      BY <2>4
    <3>2. /\ ab \o c \in Seq(Ops) /\ Len(ab \o c) = Len(ab) + Len(c)
          /\ \A p \in 1..Len(ab) + Len(c) :
                (ab \o c)[p] = IF p <= Len(ab) THEN ab[p] ELSE c[p - Len(ab)]
      BY <2>2, <3>1, ConcatProperties
    <3> QED BY <2>2, <2>5, <3>1, <3>2
  <2>7. abc[1] = a[1] /\ abc[n + 2] = c[1] /\ \A p \in 1..n : abc[p + 1] = b[p]
    <3>1. abc[1] = a[1]
      BY <2>4, <2>6
    <3>2. abc[n + 2] = c[1]
      <4>1. n + 2 \in 1..(1 + n) + 1 /\ ~(n + 2 <= 1 + n) /\ n + 2 - (1 + n) = 1
        OBVIOUS
      <4> QED BY <2>6, <4>1
    <3>3. ASSUME NEW p \in 1..n PROVE abc[p + 1] = b[p]
      <4>1. p + 1 \in 1..(1 + n) + 1 /\ p + 1 <= 1 + n /\ ~(p + 1 <= 1) /\ p + 1 - 1 = p
            /\ p + 1 \in 1..1 + n
        OBVIOUS
      <4> QED BY <2>4, <2>6, <4>1
    <3> QED BY <3>1, <3>2, <3>3
  <2>8. Script = abc
    BY <1>3, <2>1, <2>3, <2>5
  <2> QED BY <1>1, <2>1, <2>6, <2>7, <2>8
<1>8. \A i \in 1..NS : \E o : InBlock(i, o)
  BY SymbolBlock DEF InBlock
<1> DEFINE inner == [i \in 1..NS |-> CHOOSE o : InBlock(i, o)]
<1>9. \A i \in 1..NS : InBlock(i, inner[i])
  BY <1>8
<1> HIDE DEF inner
<1> DEFINE at == [i \in 1..NS |-> 1 + offset[i]]
           cellAt == [x \in (1..NS) \X (1..NT) |-> 5 + offset[x[1]] + inner[x[1]][x[2]]]
<1>10. /\ \A i \in 1..NS : offset[i] \in Nat
       /\ \A i \in 1..NS : offset[i] + Len(blocks[i]) <= n
       /\ \A i \in 1..NS : \A p \in 1..Len(blocks[i]) : flat[offset[i] + p] = blocks[i][p]
  <2>1. /\ offset \in [1..NS + 1 -> Nat] /\ n = offset[NS + 1]
        /\ \A i \in 1..NS : offset[i + 1] = offset[i] + Len(blocks[i])
        /\ \A i, k \in 1..NS + 1 : i <= k => offset[i] <= offset[k]
        /\ \A i \in 1..NS : \A p \in 1..Len(blocks[i]) : flat[offset[i] + p] = blocks[i][p]
    BY <1>4, <1>5, <1>6 DEF Offsets
  <2>2. \A i \in 1..NS : i \in 1..NS + 1 /\ i + 1 \in 1..NS + 1 /\ NS + 1 \in 1..NS + 1 /\ i + 1 <= NS + 1
    BY <1>2
  <2>3. \A i \in 1..NS : offset[i + 1] <= n
    BY <2>1, <2>2
  <2>4. \A i \in 1..NS : offset[i] \in Nat
    BY <2>1, <2>2
  <2>5. \A i \in 1..NS : offset[i] + Len(blocks[i]) <= n
    BY <2>1, <2>3
  <2> QED BY <2>1, <2>4, <2>5
<1>11. ASSUME NEW i \in 1..NS
       PROVE  \E o \in Nat, l \in Nat :
                /\ o = offset[i] /\ l = Len(blocks[i]) /\ l >= 4 /\ o + l <= n
                /\ \A p \in 1..l : Script[1 + o + p] = SymbolScript(Symbols[i])[p]
  <2>1. PICK o \in Nat, l \in Nat : o = offset[i] /\ l = Len(blocks[i])
    BY <1>4, <1>10, ElementOfSeq, LenProperties
  <2>2. l >= 4
    BY <1>4, <2>1, SymbolBlock
  <2>3. o + l <= n
    BY <1>10, <2>1
  <2>4. ASSUME NEW p \in 1..l PROVE Script[1 + o + p] = SymbolScript(Symbols[i])[p]
    <3>1. o + p \in 1..n /\ 1 + o + p = (o + p) + 1
      BY <2>3
    <3>2. flat[o + p] = blocks[i][p]
      BY <1>10, <2>1
    <3>3. Script[(o + p) + 1] = flat[o + p]
      BY <1>7, <3>1
    <3> QED BY <1>4, <3>1, <3>2, <3>3
  <2> QED BY <2>1, <2>2, <2>3, <2>4
<1>a. \A i \in 1..NS : at[i] = 1 + offset[i]
  OBVIOUS
<1>b. \A i \in 1..NS, j \in 1..NT : cellAt[<<i, j>>] = 5 + offset[i] + inner[i][j]
  OBVIOUS
<1> HIDE DEF at, cellAt
<1>12. ASSUME NEW i \in 1..NS
       PROVE  /\ at[i] \in Nat \ {0} /\ at[i] + 4 < n + 2
              /\ \A h \in 1..4 : Script[at[i] + h] = HeadOps(i, h)
  <2>1. PICK o \in Nat, l \in Nat :
           /\ o = offset[i] /\ l = Len(blocks[i]) /\ l >= 4 /\ o + l <= n
           /\ \A p \in 1..l : Script[1 + o + p] = SymbolScript(Symbols[i])[p]
    BY <1>11
  <2>2. at[i] = 1 + o
    BY <1>a, <2>1
  <2>3. ASSUME NEW h \in 1..4 PROVE Script[1 + o + h] = HeadOps(i, h)
    <3>1. h \in 1..l
      BY <2>1
    <3>2. Script[1 + o + h] = SymbolScript(Symbols[i])[h]
      BY <2>1, <3>1
    <3> QED BY <3>2, SymbolBlock
  <2>4. 1 + o \in Nat \ {0} /\ (1 + o) + 4 < n + 2
    <3>1. PICK all \in Nat : all = n
      BY <1>6 DEF Offsets
    <3>2. 1 + o \in Nat \ {0} /\ (1 + o) + 4 < all + 2
      <4>1. l >= 4 /\ o + l <= all
        BY <2>1, <3>1
      <4> QED BY <4>1
    <3> QED BY <3>1, <3>2
  <2> QED BY <2>2, <2>3, <2>4
<1>13. ASSUME NEW i \in 1..NS, NEW j \in 1..NT
       PROVE  /\ cellAt[<<i, j>>] \in Nat \ {0}
              /\ at[i] + 4 <= cellAt[<<i, j>>] /\ cellAt[<<i, j>>] + 3 < n + 2
              /\ \A h \in 1..3 : Script[cellAt[<<i, j>>] + h] = CellOps(i, j, h)
  <2>1. PICK o \in Nat, l \in Nat :
           /\ o = offset[i] /\ l = Len(blocks[i]) /\ l >= 4 /\ o + l <= n
           /\ \A p \in 1..l : Script[1 + o + p] = SymbolScript(Symbols[i])[p]
    BY <1>11
  <2>2. PICK k \in Nat : k = inner[i][j]
    BY <1>9 DEF InBlock
  <2>3. at[i] = 1 + o /\ cellAt[<<i, j>>] = 5 + o + k
    BY <1>a, <1>b, <2>1, <2>2
  <2>4. 4 + k + 3 <= l
    BY <1>4, <1>9, <2>1, <2>2 DEF InBlock
  <2>5. ASSUME NEW h \in 1..3 PROVE Script[5 + o + k + h] = CellOps(i, j, h)
    <3>1. 4 + k + h \in 1..l /\ 1 + o + (4 + k + h) = 5 + o + k + h
      BY <2>4
    <3>2. SymbolScript(Symbols[i])[4 + k + h] = CellOps(i, j, h)
      BY <1>9, <2>2 DEF InBlock
    <3>3. Script[1 + o + (4 + k + h)] = SymbolScript(Symbols[i])[4 + k + h]
      BY <2>1, <3>1
    <3> QED BY <3>1, <3>2, <3>3
  <2>6. /\ 5 + o + k \in Nat \ {0} /\ (1 + o) + 4 <= 5 + o + k
        /\ (5 + o + k) + 3 < n + 2
    <3>1. o + l <= n /\ 4 + k + 3 <= l
      BY <2>1, <2>4
    <3> QED BY <3>1
  <2> QED BY <2>3, <2>5, <2>6
<1>14. ASSUME NEW p \in 2..n + 1
       PROVE  \/ \E i \in 1..NS, h \in 1..4 : p = at[i] + h
              \/ \E i \in 1..NS, j \in 1..NT, h \in 1..3 : p = cellAt[<<i, j>>] + h
  <2>1. PICK q \in 1..n : p = 1 + q
    <3>1. p - 1 \in 1..n /\ p = 1 + (p - 1)
      OBVIOUS
    <3> QED BY <3>1
  <2>2. \E i \in 1..Len(blocks) : \E r \in 1..Len(blocks[i]) : q = offset[i] + r
    <3>1. q \in 1..Len(flat)
      BY <1>6
    <3>2. blocks \in Seq(Seq(Ops)) /\ Offsets(flat, blocks, offset)
      BY <1>4, <1>5
    <3>3. PICK f, b : f = flat /\ b = blocks
      OBVIOUS
    <3>4. q \in 1..Len(f) /\ b \in Seq(Seq(Ops)) /\ Offsets(f, b, offset)
      BY <3>1, <3>2, <3>3
    <3>5. \E i \in 1..Len(b) : \E r \in 1..Len(b[i]) : q = offset[i] + r
      BY <3>4, OffsetsCover
    <3> QED BY <3>3, <3>5
  <2>3. PICK i \in 1..NS : \E r \in 1..Len(blocks[i]) : q = offset[i] + r
    BY <1>4, <2>2
  <2>4. PICK r \in 1..Len(blocks[i]) : q = offset[i] + r
    BY <2>3
  <2>5. PICK o \in Nat, l \in Nat : o = offset[i] /\ l = Len(blocks[i])
    BY <1>11
  <2>6. at[i] = 1 + o /\ p = 1 + o + r /\ r \in 1..l
    BY <1>a, <2>1, <2>4, <2>5
  <2>7. r \in 1..4 \/ \E j \in 1..NT, h \in 1..3 : r = 4 + inner[i][j] + h
    <3>1. r \in 1..Len(SymbolScript(Symbols[i]))
      BY <1>4, <2>4
    <3>2. InBlock(i, inner[i])
      BY <1>9
    <3> QED BY <3>1, <3>2 DEF InBlock
  <2>8. CASE r \in 1..4
    BY <2>6, <2>8
  <2>9. CASE \E j \in 1..NT, h \in 1..3 : r = 4 + inner[i][j] + h
    <3>1. PICK j \in 1..NT, h \in 1..3 : r = 4 + inner[i][j] + h
      BY <2>9
    <3>2. PICK k \in Nat : k = inner[i][j]
      BY <1>9 DEF InBlock
    <3>3. cellAt[<<i, j>>] = 5 + o + k
      BY <1>b, <2>5, <3>2
    <3>a. r = 4 + k + h
      BY <3>1, <3>2
    <3>4. p = 5 + o + k + h
      BY <2>6, <3>a
    <3>5. p = cellAt[<<i, j>>] + h
      BY <3>3, <3>4
    <3> QED BY <3>5
  <2> QED BY <2>7, <2>8, <2>9
<1>15. DOMAIN Script = 1..n + 2
  BY <1>7, LenProperties
<1>16. PICK l \in Nat : l = n + 2 /\ l >= 2 /\ l - 1 = n + 1
  OBVIOUS
<1>17. /\ Len(Script) = l /\ DOMAIN Script = 1..l
       /\ Script[1] = Op("instruments", None) /\ Script[l] = Op("gate", None)
  BY <1>7, <1>15, <1>16
<1>18. \A p \in 2..l - 1 :
          \/ \E i \in 1..NS, h \in 1..4 : p = at[i] + h
          \/ \E i \in 1..NS, j \in 1..NT, h \in 1..3 : p = cellAt[<<i, j>>] + h
  BY <1>14, <1>16
<1>19. \A i \in 1..NS : /\ at[i] \in Nat \ {0} /\ at[i] + 4 < l
                       /\ \A h \in 1..4 : Script[at[i] + h] = HeadOps(i, h)
  BY <1>12, <1>16
<1>20. \A i \in 1..NS, j \in 1..NT :
          /\ cellAt[<<i, j>>] \in Nat \ {0}
          /\ at[i] + 4 <= cellAt[<<i, j>>] /\ cellAt[<<i, j>>] + 3 < l
          /\ \A h \in 1..3 : Script[cellAt[<<i, j>>] + h] = CellOps(i, j, h)
  BY <1>13, <1>16
<1> HIDE DEF ScriptMap
<1>21. ScriptMap(at, cellAt)
  <2>1. /\ Len(Script) \in Nat /\ Len(Script) >= 2 /\ DOMAIN Script = 1..Len(Script)
        /\ Script[1] = Op("instruments", None)
        /\ Script[Len(Script)] = Op("gate", None)
    BY <1>16, <1>17
  <2>2. \A i \in 1..NS : at[i] \in Nat \ {0} /\ at[i] + 4 < Len(Script)
    BY <1>17, <1>19
  <2>3. \A i \in 1..NS, h \in 1..4 : Script[at[i] + h] = HeadOps(i, h)
    BY <1>19
  <2>4. \A i \in 1..NS, j \in 1..NT :
          /\ cellAt[<<i, j>>] \in Nat \ {0}
          /\ at[i] + 4 <= cellAt[<<i, j>>] /\ cellAt[<<i, j>>] + 3 < Len(Script)
    BY <1>17, <1>20
  <2>5. \A i \in 1..NS, j \in 1..NT, h \in 1..3 : Script[cellAt[<<i, j>>] + h] = CellOps(i, j, h)
    BY <1>20
  <2>6. \A p \in 2..Len(Script) - 1 :
          \/ \E i \in 1..NS, h \in 1..4 : p = at[i] + h
          \/ \E i \in 1..NS, j \in 1..NT, h \in 1..3 : p = cellAt[<<i, j>>] + h
    BY <1>17, <1>18
  <2> QED BY <2>1, <2>2, <2>3, <2>4, <2>5, <2>6, Zenon DEF ScriptMap
<1> QED BY <1>21

(***************************************************************************)
(* What the invariant below needs of the script: each request is resolved  *)
(* once, before it is loaded and before any suite that uses it, and each   *)
(* cell has one suite.                                                     *)
(***************************************************************************)
Inputs(c) == {CandlesOf[c], FundingOf[c[1]], MarkOf[c[1]]}

Ordered(p) ==
    /\ Script[p].kind \in {"instruments", "resolve", "load", "suite", "gate"}
    /\ Script[p].kind = "instruments" => p = 1
    /\ Script[p].kind = "gate" => p = Len(Script)
    /\ Script[p].kind \in {"resolve", "load"} => Script[p].on \in Requests \ Snapshots
    /\ Script[p].kind = "suite" => Script[p].on \in Cells
    /\ Script[p].kind = "load" => \E r \in 1..p - 1 : Script[r] = Op("resolve", Script[p].on)
    /\ Script[p].kind = "suite" =>
          \A k \in Inputs(Script[p].on) : \E r \in 1..p - 1 : Script[r] = Op("resolve", k)

OpOnce(kind) ==
    \A p, q \in 1..Len(Script) :
        Script[p].kind = kind /\ Script[q] = Script[p] => p = q

LEMMA OpParts ==
    \A kind, on : Op(kind, on).kind = kind /\ Op(kind, on).on = on
BY DEF Op

\* The place p is one of an operation of the i-th symbol, or of its j-th cell.
Placed(at, cellAt, p) ==
    \/ p = 1 /\ Script[p] = Op("instruments", None)
    \/ p = Len(Script) /\ Script[p] = Op("gate", None)
    \/ \E i \in 1..NS :
          \/ p = at[i] + 1 /\ Script[p] = Op("resolve", FundingOf[Symbols[i]])
          \/ p = at[i] + 2 /\ Script[p] = Op("resolve", MarkOf[Symbols[i]])
          \/ p = at[i] + 3 /\ Script[p] = Op("load", FundingOf[Symbols[i]])
          \/ p = at[i] + 4 /\ Script[p] = Op("load", MarkOf[Symbols[i]])
    \/ \E i \in 1..NS, j \in 1..NT :
          \/ p = cellAt[<<i, j>>] + 1 /\ Script[p] = Op("resolve", CandlesOf[CellOf(i, j)])
          \/ p = cellAt[<<i, j>>] + 2 /\ Script[p] = Op("load", CandlesOf[CellOf(i, j)])
          \/ p = cellAt[<<i, j>>] + 3 /\ Script[p] = Op("suite", CellOf(i, j))

\* Where a symbol, or a cell, resolves k.
OfSymbol(at, k, x) ==
    \E i \in 1..NS : \/ k = FundingOf[Symbols[i]] /\ x = at[i] + 1
                     \/ k = MarkOf[Symbols[i]] /\ x = at[i] + 2
OfCell(cellAt, k, x) ==
    \E i \in 1..NS, j \in 1..NT : k = CandlesOf[CellOf(i, j)] /\ x = cellAt[<<i, j>>] + 1

LEMMA PlaceOfResolve ==
    ASSUME NEW at, NEW cellAt, NEW x, NEW k,
           Placed(at, cellAt, x), Script[x] = Op("resolve", k)
    PROVE  OfSymbol(at, k, x) \/ OfCell(cellAt, k, x)
<1>1. ASSUME NEW kind, NEW on, Script[x] = Op(kind, on) PROVE kind = "resolve" /\ on = k
  BY <1>1, OpParts
<1>2. /\ Script[x] # Op("instruments", None) /\ Script[x] # Op("gate", None)
      /\ \A on : Script[x] # Op("load", on) /\ Script[x] # Op("suite", on)
  BY <1>1
<1>3. \A on : Script[x] = Op("resolve", on) => on = k
  BY <1>1
<1>4. ASSUME NEW i \in 1..NS,
             \/ x = at[i] + 1 /\ Script[x] = Op("resolve", FundingOf[Symbols[i]])
             \/ x = at[i] + 2 /\ Script[x] = Op("resolve", MarkOf[Symbols[i]])
             \/ x = at[i] + 3 /\ Script[x] = Op("load", FundingOf[Symbols[i]])
             \/ x = at[i] + 4 /\ Script[x] = Op("load", MarkOf[Symbols[i]])
      PROVE  OfSymbol(at, k, x)
  <2>1. \/ x = at[i] + 1 /\ k = FundingOf[Symbols[i]]
        \/ x = at[i] + 2 /\ k = MarkOf[Symbols[i]]
    BY <1>2, <1>3, <1>4, Zenon
  <2> QED BY <2>1 DEF OfSymbol
<1>5. ASSUME NEW i \in 1..NS, NEW j \in 1..NT,
             \/ x = cellAt[<<i, j>>] + 1 /\ Script[x] = Op("resolve", CandlesOf[CellOf(i, j)])
             \/ x = cellAt[<<i, j>>] + 2 /\ Script[x] = Op("load", CandlesOf[CellOf(i, j)])
             \/ x = cellAt[<<i, j>>] + 3 /\ Script[x] = Op("suite", CellOf(i, j))
      PROVE  OfCell(cellAt, k, x)
  <2>1. x = cellAt[<<i, j>>] + 1 /\ k = CandlesOf[CellOf(i, j)]
    BY <1>2, <1>3, <1>5, Zenon
  <2> QED BY <2>1 DEF OfCell
<1> HIDE DEF OfSymbol, OfCell
<1> QED BY <1>2, <1>4, <1>5 DEF Placed

LEMMA Places ==
    ASSUME NEW at, NEW cellAt, ScriptMap(at, cellAt), NEW p \in 1..Len(Script)
    PROVE  Placed(at, cellAt, p)
<1> USE DEF Placed
<1>1. CASE p = 1
  BY <1>1 DEF ScriptMap
<1>2. CASE p = Len(Script)
  BY <1>2 DEF ScriptMap
<1>3. CASE p # 1 /\ p # Len(Script)
  <2>1. p \in 2..Len(Script) - 1
    BY <1>3 DEF ScriptMap
  <2>2. \/ \E i \in 1..NS, h \in 1..4 : p = at[i] + h
        \/ \E i \in 1..NS, j \in 1..NT, h \in 1..3 : p = cellAt[<<i, j>>] + h
    BY <2>1 DEF ScriptMap
  <2>3. ASSUME NEW i \in 1..NS, NEW h \in 1..4, p = at[i] + h
        PROVE  \/ p = at[i] + 1 /\ Script[p] = Op("resolve", FundingOf[Symbols[i]])
               \/ p = at[i] + 2 /\ Script[p] = Op("resolve", MarkOf[Symbols[i]])
               \/ p = at[i] + 3 /\ Script[p] = Op("load", FundingOf[Symbols[i]])
               \/ p = at[i] + 4 /\ Script[p] = Op("load", MarkOf[Symbols[i]])
    <3>1. Script[p] = HeadOps(i, h)
      BY <2>3 DEF ScriptMap
    <3>2. h = 1 \/ h = 2 \/ h = 3 \/ h = 4
      OBVIOUS
    <3> QED BY <2>3, <3>1, <3>2 DEF HeadOps
  <2>4. ASSUME NEW i \in 1..NS, NEW j \in 1..NT, NEW h \in 1..3, p = cellAt[<<i, j>>] + h
        PROVE  \/ p = cellAt[<<i, j>>] + 1 /\ Script[p] = Op("resolve", CandlesOf[CellOf(i, j)])
               \/ p = cellAt[<<i, j>>] + 2 /\ Script[p] = Op("load", CandlesOf[CellOf(i, j)])
               \/ p = cellAt[<<i, j>>] + 3 /\ Script[p] = Op("suite", CellOf(i, j))
    <3>1. Script[p] = CellOps(i, j, h)
      BY <2>4 DEF ScriptMap
    <3>2. h = 1 \/ h = 2 \/ h = 3
      OBVIOUS
    <3> QED BY <2>4, <3>1, <3>2 DEF CellOps
  <2> QED BY <2>2, <2>3, <2>4
<1> QED BY <1>1, <1>2, <1>3

LEMMA ScriptOrdered ==
    /\ Len(Script) \in Nat /\ Len(Script) >= 2
    /\ Script[1] = Op("instruments", None)
    /\ Script[Len(Script)] = Op("gate", None)
    /\ \A p \in 1..Len(Script) : Ordered(p)
    /\ OpOnce("resolve") /\ OpOnce("suite")
    /\ \A c \in Cells : \E q \in 1..Len(Script) : Script[q] = Op("suite", c)
<1>1. PICK at, cellAt : ScriptMap(at, cellAt)
  BY ScriptMapped
<1>2. PICK n \in Nat : n = Len(Script)
  BY <1>1 DEF ScriptMap
<1>3. n >= 2 /\ Script[1] = Op("instruments", None) /\ Script[Len(Script)] = Op("gate", None)
  BY <1>1, <1>2 DEF ScriptMap
<1>4. \A i \in 1..NS : at[i] \in Nat \ {0} /\ at[i] + 4 < n
  BY <1>1, <1>2 DEF ScriptMap
<1>5. \A i \in 1..NS, j \in 1..NT :
         cellAt[<<i, j>>] \in Nat \ {0} /\ at[i] + 4 <= cellAt[<<i, j>>] /\ cellAt[<<i, j>>] + 3 < n
  BY <1>1, <1>2 DEF ScriptMap
<1>6. ASSUME NEW i \in 1..NS
      PROVE  /\ at[i] + 1 \in 1..n /\ Script[at[i] + 1] = Op("resolve", FundingOf[Symbols[i]])
             /\ at[i] + 2 \in 1..n /\ Script[at[i] + 2] = Op("resolve", MarkOf[Symbols[i]])
  <2>1. at[i] + 1 \in 1..n /\ at[i] + 2 \in 1..n
    BY <1>4
  <2>2. Script[at[i] + 1] = HeadOps(i, 1) /\ Script[at[i] + 2] = HeadOps(i, 2)
    BY <1>1 DEF ScriptMap
  <2> QED BY <2>1, <2>2 DEF HeadOps
<1>7. ASSUME NEW i \in 1..NS, NEW j \in 1..NT
      PROVE  /\ cellAt[<<i, j>>] + 1 \in 1..n
             /\ Script[cellAt[<<i, j>>] + 1] = Op("resolve", CandlesOf[CellOf(i, j)])
             /\ cellAt[<<i, j>>] + 3 \in 1..n
             /\ Script[cellAt[<<i, j>>] + 3] = Op("suite", CellOf(i, j))
  <2>1. cellAt[<<i, j>>] + 1 \in 1..n /\ cellAt[<<i, j>>] + 3 \in 1..n
    BY <1>5
  <2>2. /\ Script[cellAt[<<i, j>>] + 1] = CellOps(i, j, 1)
        /\ Script[cellAt[<<i, j>>] + 3] = CellOps(i, j, 3)
    BY <1>1 DEF ScriptMap
  <2> QED BY <2>1, <2>2 DEF CellOps
<1>8. \A i \in 1..NS, j \in 1..NT :
         Inputs(CellOf(i, j)) = {CandlesOf[CellOf(i, j)], FundingOf[Symbols[i]], MarkOf[Symbols[i]]}
  BY DEF Inputs, CellOf
<1>9. \A i \in 1..NS, j \in 1..NT : CellOf(i, j) \in Cells
  BY ListsOfProtocol
<1> HIDE DEF CellOf
<1>b. \A i, k \in 1..NS, j \in 1..NT :
         CandlesOf[CellOf(i, j)] # FundingOf[Symbols[k]] /\ CandlesOf[CellOf(i, j)] # MarkOf[Symbols[k]]
  BY RequestsApart
<1>c. \A i, k \in 1..NS, j, l \in 1..NT :
         CandlesOf[CellOf(i, j)] = CandlesOf[CellOf(k, l)] => i = k /\ j = l
  BY RequestsApart
<1>d. \A w, x \in 1..NS, y, z \in 1..NT : CellOf(w, y) = CellOf(x, z) => w = x /\ y = z
  BY RequestsApart
<1>a. ASSUME NEW p \in 1..n PROVE Placed(at, cellAt, p)
  BY <1>1, <1>2, Places
<1>10. ASSUME NEW p \in 1..n PROVE Ordered(p)
  <2>1. CASE p = 1 /\ Script[p] = Op("instruments", None)
    <3>1. Script[p].kind = "instruments"
      BY <2>1, OpParts
    <3> QED BY <2>1, <3>1 DEF Ordered
  <2>2. CASE p = Len(Script) /\ Script[p] = Op("gate", None)
    <3>1. Script[p].kind = "gate"
      BY <2>2, OpParts
    <3> QED BY <2>2, <3>1 DEF Ordered
  <2>3. ASSUME NEW k \in Requests \ Snapshots, Script[p] = Op("resolve", k)
        PROVE  Ordered(p)
    <3>1. Script[p].kind = "resolve" /\ Script[p].on = k
      BY <2>3, OpParts
    <3> QED BY <3>1 DEF Ordered
  <2>4. ASSUME NEW k \in Requests \ Snapshots, NEW r \in 1..p - 1,
               Script[p] = Op("load", k), Script[r] = Op("resolve", k)
        PROVE  Ordered(p)
    <3>1. Script[p].kind = "load" /\ Script[p].on = k
      BY <2>4, OpParts
    <3> QED BY <2>4, <3>1 DEF Ordered
  <2>5. ASSUME NEW i \in 1..NS, NEW j \in 1..NT,
               p = cellAt[<<i, j>>] + 3, Script[p] = Op("suite", CellOf(i, j))
        PROVE  Ordered(p)
    <3>1. Script[p].kind = "suite" /\ Script[p].on = CellOf(i, j)
      BY <2>5, OpParts
    <3>2. PICK a \in Nat, b \in Nat : a = at[i] /\ b = cellAt[<<i, j>>]
      BY <1>4, <1>5
    <3>3. a + 4 <= b /\ p = b + 3
      BY <1>5, <2>5, <3>2
    <3>4. b + 1 \in 1..p - 1 /\ a + 1 \in 1..p - 1 /\ a + 2 \in 1..p - 1
      BY <3>3
    <3>5. /\ Script[b + 1] = Op("resolve", CandlesOf[CellOf(i, j)])
          /\ Script[a + 1] = Op("resolve", FundingOf[Symbols[i]])
          /\ Script[a + 2] = Op("resolve", MarkOf[Symbols[i]])
      BY <1>6, <1>7, <3>2
    <3>6. \A k \in Inputs(CellOf(i, j)) : \E r \in 1..p - 1 : Script[r] = Op("resolve", k)
      BY <1>8, <3>4, <3>5
    <3> QED BY <1>9, <3>1, <3>6 DEF Ordered
  <2>6. ASSUME NEW i \in 1..NS,
               \/ p = at[i] + 1 /\ Script[p] = Op("resolve", FundingOf[Symbols[i]])
               \/ p = at[i] + 2 /\ Script[p] = Op("resolve", MarkOf[Symbols[i]])
               \/ p = at[i] + 3 /\ Script[p] = Op("load", FundingOf[Symbols[i]])
               \/ p = at[i] + 4 /\ Script[p] = Op("load", MarkOf[Symbols[i]])
        PROVE  Ordered(p)
    <3>1. FundingOf[Symbols[i]] \in Requests \ Snapshots /\ MarkOf[Symbols[i]] \in Requests \ Snapshots
      BY RequestsApart
    <3>2. at[i] \in Nat \ {0}
      BY <1>4
    <3>3. p = at[i] + 3 => at[i] + 1 \in 1..p - 1
      BY <3>2
    <3>4. p = at[i] + 4 => at[i] + 2 \in 1..p - 1
      BY <3>2
    <3> QED BY <1>6, <2>3, <2>4, <2>6, <3>1, <3>3, <3>4
  <2>7. ASSUME NEW i \in 1..NS, NEW j \in 1..NT,
               \/ p = cellAt[<<i, j>>] + 1 /\ Script[p] = Op("resolve", CandlesOf[CellOf(i, j)])
               \/ p = cellAt[<<i, j>>] + 2 /\ Script[p] = Op("load", CandlesOf[CellOf(i, j)])
               \/ p = cellAt[<<i, j>>] + 3 /\ Script[p] = Op("suite", CellOf(i, j))
        PROVE  Ordered(p)
    <3>1. CandlesOf[CellOf(i, j)] \in Requests \ Snapshots
      BY RequestsApart
    <3>2. cellAt[<<i, j>>] \in Nat \ {0}
      BY <1>5
    <3>3. p = cellAt[<<i, j>>] + 2 => cellAt[<<i, j>>] + 1 \in 1..p - 1
      BY <3>2
    <3> QED BY <1>7, <2>3, <2>4, <2>5, <2>7, <3>1, <3>3
  <2> HIDE DEF Ordered
  <2> QED BY <1>a, <2>1, <2>2, <2>6, <2>7 DEF Placed
<1>11. ASSUME NEW x \in 1..n, NEW y, Script[x] = Op("resolve", y)
       PROVE  OfSymbol(at, y, x) \/ OfCell(cellAt, y, x)
  <2>1. Placed(at, cellAt, x)
    BY <1>a
  <2> QED BY <1>11, <2>1, PlaceOfResolve
<1>12. ASSUME NEW p \in 1..n, NEW c, Script[p] = Op("suite", c)
       PROVE  \E i \in 1..NS, j \in 1..NT : c = CellOf(i, j) /\ p = cellAt[<<i, j>>] + 3
  <2>1. \A kind, on : Script[p] = Op(kind, on) => kind = "suite" /\ on = c
    BY <1>12, OpParts
  <2>2. /\ Script[p] # Op("instruments", None) /\ Script[p] # Op("gate", None)
        /\ \A on : Script[p] # Op("resolve", on) /\ Script[p] # Op("load", on)
        /\ \A on : Script[p] = Op("suite", on) => on = c
    BY <2>1
  <2> QED BY <1>a, <2>2, Zenon DEF Placed
<1>13. ASSUME NEW p \in 1..n, NEW q \in 1..n, NEW k,
              Script[p] = Op("resolve", k), Script[q] = Op("resolve", k)
       PROVE  p = q
  <2>1. /\ OfSymbol(at, k, p) \/ OfCell(cellAt, k, p)
        /\ OfSymbol(at, k, q) \/ OfCell(cellAt, k, q)
    BY <1>11, <1>13
  <2> USE DEF OfSymbol, OfCell
  <2>2. ASSUME OfSymbol(at, k, p), OfSymbol(at, k, q) PROVE p = q
    <3>1. PICK i \in 1..NS : \/ k = FundingOf[Symbols[i]] /\ p = at[i] + 1
                             \/ k = MarkOf[Symbols[i]] /\ p = at[i] + 2
      BY <2>2
    <3>2. PICK l \in 1..NS : \/ k = FundingOf[Symbols[l]] /\ q = at[l] + 1
                             \/ k = MarkOf[Symbols[l]] /\ q = at[l] + 2
      BY <2>2
    <3> QED BY <3>1, <3>2, RequestsApart
  <2>3. ASSUME OfCell(cellAt, k, p), OfCell(cellAt, k, q) PROVE p = q
    <3>1. PICK i \in 1..NS, j \in 1..NT : k = CandlesOf[CellOf(i, j)] /\ p = cellAt[<<i, j>>] + 1
      BY <2>3
    <3>2. PICK l \in 1..NS, m \in 1..NT : k = CandlesOf[CellOf(l, m)] /\ q = cellAt[<<l, m>>] + 1
      BY <2>3
    <3>3. i = l /\ j = m
      BY <1>c, <3>1, <3>2
    <3> QED BY <3>1, <3>2, <3>3
  <2>4. ASSUME NEW x, NEW y, OfSymbol(at, k, x), OfCell(cellAt, k, y) PROVE FALSE
    <3>1. PICK i \in 1..NS : k = FundingOf[Symbols[i]] \/ k = MarkOf[Symbols[i]]
      BY <2>4
    <3>2. PICK l \in 1..NS, m \in 1..NT : k = CandlesOf[CellOf(l, m)]
      BY <2>4
    <3> QED BY <1>b, <3>1, <3>2
  <2> QED BY <2>1, <2>2, <2>3, <2>4
<1>14. ASSUME NEW p \in 1..n, NEW q \in 1..n, NEW c,
              Script[p] = Op("suite", c), Script[q] = Op("suite", c)
       PROVE  p = q
  <2>1. PICK i \in 1..NS, j \in 1..NT : c = CellOf(i, j) /\ p = cellAt[<<i, j>>] + 3
    BY <1>12, <1>14
  <2>2. PICK k \in 1..NS, l \in 1..NT : c = CellOf(k, l) /\ q = cellAt[<<k, l>>] + 3
    BY <1>12, <1>14
  <2>a. CellOf(i, j) = CellOf(k, l)
    BY <2>1, <2>2
  <2>3. i = k /\ j = l
    BY <1>d, <2>a, SMT
  <2> QED BY <2>1, <2>2, <2>3
<1>15. ASSUME NEW p \in 1..n PROVE Script[p] = Op(Script[p].kind, Script[p].on)
  <2>1. \E kind, on : Script[p] = Op(kind, on)
    BY <1>a DEF Placed
  <2> QED BY <2>1, OpParts
<1>16. OpOnce("resolve") /\ OpOnce("suite")
  BY <1>2, <1>13, <1>14, <1>15 DEF OpOnce
<1>17. \A c \in Cells : \E q \in 1..n : Script[q] = Op("suite", c)
  <2> TAKE c \in Cells
  <2>1. PICK i \in 1..NS, j \in 1..NT : c = CellOf(i, j)
    BY ListsOfProtocol
  <2> QED BY <1>7, <2>1
<1> QED BY <1>2, <1>3, <1>10, <1>16, <1>17
-----------------------------------------------------------------------------
(***************************************************************************)
(* The invariant of the matrix.  What the locals of a run hold follows     *)
(* from how far it is in its script, what the registry holds of this run   *)
(* from the cells it has finished.                                         *)
(***************************************************************************)
ResolvedSoFar(versions, pos) ==
    \A k \in Requests :
        /\ versions[k] # None <=> \E q \in 1..pos - 1 : Script[q] = Op("resolve", k)
        /\ versions[k] # None => versions[k] \in Versions /\ RequestOf[versions[k]] = k

\* Rows were loaded from one valid version of the request.
LoadedFrom(read, versions, argument) ==
    \A k \in Requests : read[k] # None =>
        LET v == IF k \in Snapshots THEN argument ELSE versions[k]
        IN  v \in Versions /\ RequestOf[v] = k /\ IsValid(v) /\ read[k] = RowsOf[v]

LocalsInv ==
    /\ position \in 0..Len(Script)
    /\ resolved = [k \in Requests |-> resolved[k]]
    /\ loaded = [k \in Requests |-> loaded[k]]
    /\ position = 0 => \A k \in Requests : resolved[k] = None /\ loaded[k] = None
    /\ position # 0 => instruments \in Versions /\ RequestOf[instruments] \in Snapshots
    /\ ResolvedSoFar(resolved, position)
    /\ LoadedFrom(loaded, resolved, instruments)
    /\ recorded \in 0..SuiteSize
    /\ recorded # 0 => position # 0 /\ Script[position].kind = "suite"

\* What run r recorded of a cell; the first n experiments of its suite.
Of(experiments, r, c) == {e \in experiments : e.run = r /\ e.cell = c}
Suite(r, c, data, n) == {[run |-> r, cell |-> c, data |-> data, nth |-> i] : i \in 1..n}

\* The cells whose suite stands before pos.
SuitesBefore(pos) == {Script[q].on : q \in {x \in 1..pos - 1 : Script[x].kind = "suite"}}

Finished(list, pos) ==
    /\ list \in Seq(Range(list))
    /\ {list[i].cell : i \in DOMAIN list} = SuitesBefore(pos)
    /\ IsFiniteSet(SuitesBefore(pos)) /\ Cardinality(SuitesBefore(pos)) = Len(list)

FullSuites(list, experiments, r) ==
    \A i \in DOMAIN list :
        Of(experiments, r, list[i].cell) = Suite(r, list[i].cell, list[i].data, SuiteSize)

RegistryInv ==
    /\ runs \in Nat
    /\ \A e \in registry : e.run \in 1..runs /\ e.cell \in Cells
    /\ position = 0 => cells = << >>
    /\ position # 0 =>
          /\ runs # 0
          /\ Finished(cells, position)
          /\ FullSuites(cells, registry, runs)
          /\ \A e \in registry : e.run = runs =>
                \E q \in 1..position : Script[q] = Op("suite", e.cell)
          /\ \A c \in Cells : Script[position] = Op("suite", c) =>
                Of(registry, runs, c) = Suite(runs, c, Composite(c), recorded)
    /\ gate # None =>
          /\ Complete(gate.cells)
          /\ \E r \in 1..runs :
                /\ r = runs => position = 0 \/ Script[position].kind = "gate"
                /\ FullSuites(gate.cells, registry, r)

\* The versions of k that the directory f certifies.
Curated(f, k) ==
    {path.of : path \in {x \in DOMAIN f : /\ x.zone = "manifests"
                                          /\ f[x].status = "CURATED"
                                          /\ RequestOf[x.of] = k}}

\* The series of a cell, each with the version data says it was.
Pins(c, data) ==
    {<<CandlesOf[c], data.candles>>, <<FundingOf[c[1]], data.funding>>, <<MarkOf[c[1]], data.marks>>}

IsData(d) == d = [candles |-> d.candles, funding |-> d.funding,
                  marks |-> d.marks, instruments |-> d.instruments]

AgreementInv ==
    outages = 0 =>
        /\ \A k \in Requests : resolved[k] # None => resolved[k] \in Curated(files, k)
        /\ \A e \in registry : IsData(e.data) /\ \A pin \in Pins(e.cell, e.data) :
              pin[2] \in Curated(files, pin[1]) /\ resolved[pin[1]] \in {None, pin[2]}
        /\ \A e, f \in registry :
              \A x \in Pins(e.cell, e.data), y \in Pins(f.cell, f.data) : x[1] = y[1] => x[2] = y[2]

MatrixInv == LocalsInv /\ RegistryInv /\ AgreementInv

(***************************************************************************)
(* The locals of a run.                                                    *)
(***************************************************************************)
\* What the loader returns of a sound lake is what was validated.
LEMMA RowsValidated ==
    ASSUME LakeInv, NEW v \in Versions, Intact(v), Parses(v)
    PROVE  IsValid(v) /\ Rows(v) = RowsOf[v]
<1>1. ManifestPath(v) \in DOMAIN files /\ files[ManifestPath(v)].status = "CURATED"
  BY DEF Intact, Certificates
<1>2. Sound(ManifestPath(v), files[ManifestPath(v)], DOMAIN files, outages > 0)
  BY <1>1 DEF LakeInv
<1>3. ManifestPath(v).zone = "manifests" /\ ManifestPath(v).of = v
  BY DEF ManifestPath, Path
<1>4. Certificate(v, files[ManifestPath(v)], DOMAIN files, outages > 0)
  BY <1>2, <1>3 DEF Sound
<1>5. IsValid(v)
  BY <1>1, <1>4 DEF Certificate, Status
<1>6. PICK artifacts, at : /\ artifacts = files[ManifestPath(v)].artifacts
                           /\ DOMAIN artifacts = Evidence(v, at)
  BY <1>4 DEF Certificate
<1>7. CuratedArtifacts(v) = Parts("curated", v)
  <2>1. CuratedArtifacts(v) = {x \in Evidence(v, at) : x.zone = "curated"}
    BY <1>6 DEF CuratedArtifacts
  <2> QED BY <1>5, <2>1 DEF Evidence, Parts, Path
<1>8. ASSUME NEW m \in Months(v)
      PROVE  /\ Path("curated", v, m) \in Held(v)
             /\ files[Path("curated", v, m)] = RowsOf[v][m]
  <2> DEFINE path == Path("curated", v, m)
  <2>1. path.zone = "curated" /\ path.of = v /\ path.part = m
    BY DEF Path
  <2>2. path \in CuratedArtifacts(v)
    BY <1>7 DEF Parts
  <2> HIDE DEF path
  <2>3. path \in DOMAIN files /\ path \in Held(v)
    BY <2>2 DEF Intact, Held
  <2>4. files[path] # Torn
    BY <2>3 DEF Parses
  <2>5. Sound(path, files[path], DOMAIN files, outages > 0)
    BY <2>3 DEF LakeInv
  <2>6. files[path] = Data(path)
    BY <2>1, <2>4, <2>5 DEF Sound, Holds
  <2>7. Data(path) = RowsOf[v][m]
    BY <2>1 DEF Data, IsParquet, ParquetZones
  <2> QED BY <2>3, <2>6, <2>7 DEF path
<1>9. {path.part : path \in Held(v)} = Months(v)
  <2>1. Held(v) \subseteq Parts("curated", v)
    BY <1>7 DEF Held
  <2>2. \A m : Path("curated", v, m).part = m
    BY DEF Path
  <2>3. Held(v) = {Path("curated", v, m) : m \in Months(v)}
    BY <1>8, <2>1 DEF Parts
  <2> QED BY <2>2, <2>3
<1>10. Rows(v) = [m \in Months(v) |-> RowsOf[v][m]]
  BY <1>8, <1>9 DEF Rows
<1>11. RowsOf[v] = [m \in Months(v) |-> RowsOf[v][m]]
  BY LakeAssumption
<1> QED BY <1>5, <1>10, <1>11

LEMMA EndLocals ==
    ASSUME NEW how, End(how)
    PROVE  LocalsInv'
<1>1. position' = 0 /\ recorded' = 0
      /\ resolved' = [k \in Requests |-> None] /\ loaded' = [k \in Requests |-> None]
  BY DEF End
<1>2. \A k \in Requests : resolved'[k] = None /\ loaded'[k] = None
  BY <1>1
<1>3. ResolvedSoFar(resolved', 0) /\ LoadedFrom(loaded', resolved', instruments')
  BY <1>2 DEF ResolvedSoFar, LoadedFrom
<1>4. Len(Script) \in Nat /\ SuiteSize \in Nat
  BY ScriptOrdered, MatrixAssumption
<1> QED BY <1>1, <1>2, <1>3, <1>4 DEF LocalsInv

LEMMA StartLocals ==
    ASSUME LocalsInv, NEW v \in Versions, RequestOf[v] \in Snapshots, Start(v)
    PROVE  LocalsInv'
<1>1. position = 0 /\ position' = 1 /\ instruments' = v
      /\ resolved' = resolved /\ loaded' = loaded /\ recorded' = recorded
  BY DEF Start
<1>2. /\ \A k \in Requests : resolved[k] = None /\ loaded[k] = None
      /\ recorded \in 0..SuiteSize /\ recorded = 0
  BY <1>1 DEF LocalsInv
<1>3. ResolvedSoFar(resolved, 1) /\ LoadedFrom(loaded, resolved, v)
  BY <1>2 DEF ResolvedSoFar, LoadedFrom
<1>4. 1 \in 0..Len(Script)
  BY ScriptOrdered
<1> QED BY <1>1, <1>2, <1>3, <1>4 DEF LocalsInv

\* The command is somewhere in its script, and only the gate ends it.
LEMMA InScript ==
    ASSUME LocalsInv, position # 0
    PROVE  /\ position \in 1..Len(Script) /\ Ordered(position)
           /\ Script[position].kind # "gate" => position + 1 \in 1..Len(Script)
<1>1. Len(Script) \in Nat /\ position \in 1..Len(Script)
  BY ScriptOrdered DEF LocalsInv
<1>2. Script[Len(Script)].kind = "gate"
  BY ScriptOrdered, OpParts
<1> QED BY <1>1, <1>2, ScriptOrdered

LEMMA OpOfParts ==
    ASSUME NEW p \in 1..Len(Script)
    PROVE  Script[p] = Op(Script[p].kind, Script[p].on)
<1>1. PICK at, cellAt : ScriptMap(at, cellAt)
  BY ScriptMapped
<1>2. Placed(at, cellAt, p)
  BY <1>1, Places
<1>3. \E kind, on : Script[p] = Op(kind, on)
  BY <1>2 DEF Placed
<1> QED BY <1>3, OpParts

LEMMA MatchesCurated ==
    ASSUME LakeInv, NEW k
    PROVE  /\ Matches(k) = Curated(files, k)
           /\ \A v \in Matches(k) : v \in Versions /\ RequestOf[v] = k
<1>1. Matches(k) = Curated(files, k)
  BY DEF Matches, Certificates, Curated
<1>2. \A path \in DOMAIN files : path.of \in Versions
  BY DEF LakeInv, Sound, Paths
<1> QED BY <1>1, <1>2 DEF Curated

LEMMA ResolveLocals ==
    ASSUME LakeInv, LocalsInv, Resolve
    PROVE  LocalsInv'
<1>1. position # 0 /\ Script[position].kind = "resolve"
  BY DEF Resolve, Doing
<1>2. PICK k : k = This
  OBVIOUS
<1>3. PICK v \in Matches(k) : resolved' = [resolved EXCEPT ![k] = v]
  BY <1>2 DEF Resolve
<1>4. /\ position \in 1..Len(Script) /\ position + 1 \in 1..Len(Script)
      /\ k \in Requests \ Snapshots
  BY <1>1, <1>2, InScript DEF Ordered, This
<1>5. Script[position] = Op("resolve", k)
  BY <1>1, <1>2, <1>4, OpOfParts DEF This
<1>6. ASSUME NEW q \in 1..position - 1 PROVE Script[q] # Op("resolve", k)
  <2>1. q \in 1..Len(Script) /\ q # position
    BY <1>4
  <2>2. OpOnce("resolve")
    BY ScriptOrdered
  <2> QED BY <1>1, <1>4, <1>5, <2>1, <2>2 DEF OpOnce
<1>7. resolved[k] = None
  BY <1>4, <1>6 DEF LocalsInv, ResolvedSoFar
<1>8. v \in Versions /\ RequestOf[v] = k
  BY MatchesCurated
<1>9. /\ position' = position + 1 /\ instruments' = instruments
      /\ loaded' = loaded /\ recorded' = recorded /\ recorded = 0
  BY <1>1 DEF Resolve, Advance, LocalsInv
<1>10. v # None
  BY <1>8, LakeAssumption
<1>11. /\ resolved' = [x \in Requests |-> resolved'[x]] /\ resolved'[k] = v
       /\ \A x \in Requests : x # k => resolved'[x] = resolved[x]
  BY <1>3, <1>4 DEF LocalsInv
<1>12. ResolvedSoFar(resolved', position + 1)
  <2>1. PICK p \in Nat \ {0} : p = position
    BY <1>4
  <2>2. (p + 1) - 1 = p /\ 1..p = (1..p - 1) \cup {p}
    BY <2>1
  <2>3. ASSUME NEW x \in Requests
        PROVE  resolved'[x] # None <=> \E q \in 1..p : Script[q] = Op("resolve", x)
    <3>1. CASE x = k
      BY <1>5, <1>10, <1>11, <2>1, <2>2, <3>1
    <3>2. CASE x # k
      <4>1. Script[p] # Op("resolve", x)
        BY <1>5, <2>1, <3>2, OpParts
      <4>2. resolved[x] # None <=> \E q \in 1..p - 1 : Script[q] = Op("resolve", x)
        BY <2>1 DEF LocalsInv, ResolvedSoFar
      <4> QED BY <1>11, <2>2, <3>2, <4>1, <4>2
    <3> QED BY <3>1, <3>2
  <2>4. \A x \in Requests : resolved'[x] # None => resolved'[x] \in Versions /\ RequestOf[resolved'[x]] = x
    BY <1>8, <1>11 DEF LocalsInv, ResolvedSoFar
  <2> QED BY <2>1, <2>2, <2>3, <2>4 DEF ResolvedSoFar
<1>13. LoadedFrom(loaded, resolved', instruments)
  <2>1. LoadedFrom(loaded, resolved, instruments)
    BY DEF LocalsInv
  <2>2. None \notin Versions
    BY LakeAssumption
  <2>3. loaded[k] = None
    BY <1>4, <1>7, <2>1, <2>2 DEF LoadedFrom
  <2> QED BY <1>11, <2>1, <2>3 DEF LoadedFrom
<1>14. SuiteSize \in Nat
  BY MatrixAssumption
<1> QED BY <1>4, <1>9, <1>11, <1>12, <1>13, <1>14 DEF LocalsInv

\* Advancing past anything but a resolution resolves nothing.
LEMMA ResolvedPast ==
    ASSUME LocalsInv, position # 0, Script[position].kind # "resolve"
    PROVE  ResolvedSoFar(resolved, position + 1)
<1>1. PICK p \in Nat \ {0} : p = position
  BY InScript
<1>2. (p + 1) - 1 = p /\ 1..p = (1..p - 1) \cup {p}
  BY <1>1
<1>3. \A x : Script[p] # Op("resolve", x)
  BY <1>1, OpParts
<1>4. ResolvedSoFar(resolved, p)
  BY <1>1 DEF LocalsInv
<1> QED BY <1>1, <1>2, <1>3, <1>4 DEF ResolvedSoFar

LEMMA LoadLocals ==
    ASSUME LakeInv, LocalsInv, Load
    PROVE  LocalsInv'
<1>1. position # 0 /\ Script[position].kind \in {"load", "instruments"}
  BY DEF Load, Loading, Doing
<1>2. PICK v : v = Wanted
  OBVIOUS
<1>3. v \in Versions /\ (IF RequestOf[v] \in Snapshots THEN v = instruments
                         ELSE v = resolved[RequestOf[v]])
  <2>1. CASE Script[position].kind = "instruments"
    BY <1>1, <1>2, <2>1 DEF Wanted, Doing, LocalsInv
  <2>2. CASE Script[position].kind = "load"
    <3>1. PICK k \in Requests \ Snapshots :
             k = This /\ \E r \in 1..position - 1 : Script[r] = Op("resolve", k)
      BY <1>1, <2>2, InScript DEF Ordered, This
    <3>2. v = resolved[k]
      BY <1>2, <2>2, <3>1 DEF Wanted, Doing
    <3>3. resolved[k] # None /\ resolved[k] \in Versions /\ RequestOf[resolved[k]] = k
      BY <3>1 DEF LocalsInv, ResolvedSoFar
    <3> QED BY <3>1, <3>2, <3>3
  <2> QED BY <1>1, <2>1, <2>2
<1>4. PICK k \in Requests : k = RequestOf[v]
  BY <1>3, LakeAssumption
<1>5. /\ loaded' = [loaded EXCEPT ![k] = Rows(v)] /\ Intact(v) /\ Parses(v)
      /\ position' = position + 1 /\ instruments' = instruments
      /\ resolved' = resolved /\ recorded' = recorded /\ recorded = 0
  BY <1>1, <1>2, <1>4 DEF Load, Advance, LocalsInv
<1>6. IsValid(v) /\ Rows(v) = RowsOf[v]
  BY <1>3, <1>5, RowsValidated
<1>7. /\ loaded' = [x \in Requests |-> loaded'[x]] /\ loaded'[k] = RowsOf[v]
      /\ \A x \in Requests : x # k => loaded'[x] = loaded[x]
  BY <1>5, <1>6 DEF LocalsInv
<1>8. LoadedFrom(loaded', resolved, instruments)
  <2>1. LoadedFrom(loaded, resolved, instruments)
    BY DEF LocalsInv
  <2>2. k \in Snapshots => v = instruments
    BY <1>3, <1>4
  <2>3. k \notin Snapshots => v = resolved[k]
    BY <1>3, <1>4
  <2> QED BY <1>3, <1>4, <1>6, <1>7, <2>1, <2>2, <2>3 DEF LoadedFrom
<1>9. ResolvedSoFar(resolved, position + 1)
  BY <1>1, ResolvedPast
<1>10. position \in 1..Len(Script) /\ position + 1 \in 1..Len(Script) /\ Len(Script) \in Nat
  BY <1>1, InScript, ScriptOrdered
<1>11. SuiteSize \in Nat
  BY MatrixAssumption
<1>12. /\ position' \in 0..Len(Script) /\ position' # 0 /\ position # 0
       /\ recorded' = 0 /\ 0 \in 0..SuiteSize
  BY <1>5, <1>10, <1>11
<1>13. /\ ResolvedSoFar(resolved', position') /\ LoadedFrom(loaded', resolved', instruments')
       /\ resolved' = resolved /\ instruments' = instruments
  BY <1>5, <1>8, <1>9
<1>14. loaded' = [x \in Requests |-> loaded'[x]]
  BY <1>7
<1> QED BY <1>12, <1>13, <1>14 DEF LocalsInv

LEMMA SuiteLocals ==
    ASSUME LocalsInv, RunExperiment \/ FinishCell
    PROVE  LocalsInv'
<1>1. /\ position # 0 /\ Script[position].kind = "suite"
      /\ resolved' = resolved /\ loaded' = loaded /\ instruments' = instruments
  BY DEF RunExperiment, FinishCell, Doing
<1>2. position \in 1..Len(Script) /\ position + 1 \in 1..Len(Script) /\ Len(Script) \in Nat
  BY <1>1, InScript, ScriptOrdered
<1>3. SuiteSize \in Nat /\ recorded \in 0..SuiteSize
  BY MatrixAssumption DEF LocalsInv
<1>4. CASE RunExperiment
  <2>1. position' = position /\ recorded' \in 0..SuiteSize
    BY <1>3, <1>4 DEF RunExperiment
  <2> QED BY <1>1, <2>1 DEF LocalsInv
<1>5. CASE FinishCell
  <2>1. position' = position + 1 /\ recorded' = 0
    BY <1>5 DEF FinishCell, Advance
  <2>2. ResolvedSoFar(resolved, position + 1)
    BY <1>1, ResolvedPast
  <2> QED BY <1>1, <1>2, <1>3, <2>1, <2>2 DEF LocalsInv
<1> QED BY <1>4, <1>5

\* How a step ends a command, if it does.
LEMMA Ends ==
    ASSUME Block \/ RaiseOnTorn \/ RaiseInSuite \/ Report \/ RefuseGate \/ KillMatrix
    PROVE  \E how : End(how)
BY DEF Block, RaiseOnTorn, RaiseInSuite, Report, RefuseGate, KillMatrix, Abort

LEMMA NextLocals ==
    ASSUME LakeInv, LocalsInv, [Next]_vars
    PROVE  LocalsInv'
<1>1. CASE UNCHANGED localVars
  BY <1>1 DEF localVars, LocalsInv
<1>2. ASSUME NEW how, End(how) PROVE LocalsInv'
  BY <1>2, EndLocals
<1>3. CASE \E v \in {w \in Versions : RequestOf[w] \in Snapshots} : Start(v)
  BY <1>3, StartLocals
<1>4. CASE MatrixStep
  <2>1. WriteGate => UNCHANGED localVars
    BY DEF WriteGate
  <2> QED BY <1>1, <1>2, <1>4, <2>1, Ends, ResolveLocals, LoadLocals, SuiteLocals DEF MatrixStep
<1>5. CASE KillMatrix
  BY <1>2, <1>5, Ends
<1>6. UNCHANGED matrixVars \/ vars' = vars => UNCHANGED localVars
  BY DEF matrixVars, vars
<1> QED BY <1>1, <1>2, <1>3, <1>4, <1>5, <1>6 DEF Next

(***************************************************************************)
(* The registry, the finished cells and the gate document.                 *)
(***************************************************************************)
LEMMA OfItsRange ==
    ASSUME NEW S, NEW s \in Seq(S)
    PROVE  s \in Seq(Range(s))
<1>1. Len(s) \in Nat /\ DOMAIN s = 1..Len(s) /\ s = [i \in 1..Len(s) |-> s[i]]
  BY LenProperties
<1>2. s \in [1..Len(s) -> Range(s)]
  BY <1>1 DEF Range
<1> QED BY <1>1, <1>2

LEMMA Appended ==
    ASSUME NEW s, s \in Seq(Range(s)), NEW x
    PROVE  LET t == Append(s, x)
           IN  /\ Len(s) \in Nat /\ DOMAIN s = 1..Len(s)
               /\ t \in Seq(Range(t)) /\ Len(t) = Len(s) + 1 /\ DOMAIN t = 1..Len(s) + 1
               /\ t[Len(s) + 1] = x /\ \A i \in 1..Len(s) : t[i] = s[i]
<1> DEFINE t == Append(s, x)
<1>1. Len(s) \in Nat /\ DOMAIN s = 1..Len(s)
  BY LenProperties
<1> DEFINE S == Range(s) \cup {x}
<1>2. s \in Seq(S)
  <2>1. \A i \in 1..Len(s) : s[i] \in S
    BY <1>1 DEF Range
  <2>2. s = [i \in 1..Len(s) |-> s[i]]
    BY <1>1, LenProperties
  <2> HIDE DEF S
  <2>3. s \in [1..Len(s) -> S]
    BY <2>1, <2>2
  <2> QED BY <1>1, <2>3
<1>3. x \in S
  OBVIOUS
<1> HIDE DEF S
<1>4. /\ t \in Seq(S) /\ Len(t) = Len(s) + 1
      /\ \A i \in 1..Len(s) : t[i] = s[i]
      /\ t[Len(s) + 1] = x
  BY <1>1, <1>2, <1>3, AppendProperties
<1> HIDE DEF t
<1>5. DOMAIN t = 1..Len(s) + 1
  BY <1>4, LenProperties
<1>7. t \in Seq(Range(t))
  BY <1>4, OfItsRange
<1> QED BY <1>1, <1>4, <1>5, <1>7, Zenon DEF t

LEMMA SuitesAdvance ==
    ASSUME NEW p \in 1..Len(Script)
    PROVE  /\ Script[p].kind # "suite" => SuitesBefore(p + 1) = SuitesBefore(p)
           /\ \A c : Script[p] = Op("suite", c) =>
                 SuitesBefore(p + 1) = SuitesBefore(p) \cup {c} /\ c \notin SuitesBefore(p)
<1>1. p \in Nat \ {0} /\ (p + 1) - 1 = p /\ 1..p = (1..p - 1) \cup {p}
      /\ \A q \in 1..p - 1 : q # p /\ q \in 1..Len(Script)
  BY ScriptOrdered
<1> DEFINE T(r) == {x \in 1..r - 1 : Script[x].kind = "suite"}
<1>2. Script[p].kind # "suite" => T(p + 1) = T(p)
  BY <1>1
<1>3. Script[p].kind = "suite" => T(p + 1) = T(p) \cup {p}
  BY <1>1
<1>4. ASSUME NEW c, Script[p] = Op("suite", c)
      PROVE  SuitesBefore(p + 1) = SuitesBefore(p) \cup {c} /\ c \notin SuitesBefore(p)
  <2>1. Script[p].kind = "suite" /\ Script[p].on = c
    BY <1>4, OpParts
  <2>2. SuitesBefore(p + 1) = SuitesBefore(p) \cup {c}
    BY <1>3, <2>1 DEF SuitesBefore
  <2>3. ASSUME c \in SuitesBefore(p) PROVE FALSE
    <3>1. PICK q \in 1..p - 1 : Script[q].kind = "suite" /\ Script[q].on = c
      BY <2>3 DEF SuitesBefore
    <3>2. q \in 1..Len(Script) /\ q # p
      BY <1>1
    <3>3. Script[q] = Op("suite", c)
      BY <3>1, <3>2, OpOfParts
    <3> QED BY <1>4, <2>1, <3>2, <3>3, ScriptOrdered DEF OpOnce
  <2> QED BY <2>2, <2>3
<1> QED BY <1>2, <1>4 DEF SuitesBefore

LEMMA SuitesOfAll == SuitesBefore(Len(Script)) = Cells
<1>1. PICK n \in Nat : n = Len(Script) /\ n >= 2
  BY ScriptOrdered
<1>2. Script[n].kind = "gate"
  BY <1>1, ScriptOrdered, OpParts
<1>3. ASSUME NEW q \in 1..n - 1, Script[q].kind = "suite" PROVE Script[q].on \in Cells
  BY <1>1, <1>3, ScriptOrdered DEF Ordered
<1>4. ASSUME NEW c \in Cells
      PROVE  \E q \in 1..n - 1 : Script[q].kind = "suite" /\ Script[q].on = c
  <2>1. PICK q \in 1..n : Script[q] = Op("suite", c)
    BY <1>1, ScriptOrdered
  <2>2. Script[q].kind = "suite" /\ Script[q].on = c
    BY <2>1, OpParts
  <2>3. q # n
    BY <1>2, <2>2
  <2>4. q \in 1..n - 1
    BY <2>3
  <2> QED BY <2>2, <2>4
<1> QED BY <1>1, <1>3, <1>4 DEF SuitesBefore

LEMMA SuiteGrows ==
    ASSUME NEW r, NEW c, NEW data, NEW n \in Nat
    PROVE  /\ Suite(r, c, data, 0) = {}
           /\ Suite(r, c, data, n + 1)
                = Suite(r, c, data, n) \cup {[run |-> r, cell |-> c, data |-> data, nth |-> n + 1]}
<1>1. 1..0 = {} /\ 1..n + 1 = (1..n) \cup {n + 1}
  OBVIOUS
<1> QED BY <1>1 DEF Suite

\* Experiments are recorded once.
LEMMA SuiteCounted ==
    ASSUME NEW r, NEW c, NEW data, NEW n \in Nat
    PROVE  IsFiniteSet(Suite(r, c, data, n)) /\ Cardinality(Suite(r, c, data, n)) = n
<1> DEFINE e(i) == [run |-> r, cell |-> c, data |-> data, nth |-> i]
           Bad == {m \in Nat : ~(/\ IsFiniteSet(Suite(r, c, data, m))
                                 /\ Cardinality(Suite(r, c, data, m)) = m)}
<1> SUFFICES ASSUME Bad # {} PROVE FALSE
  OBVIOUS
<1>1. Bad \in SUBSET Nat
  OBVIOUS
<1> HIDE DEF Bad
<1>2. PICK m \in Bad : \A k \in Bad : m <= k
  BY <1>1, LeastNatural
<1>3. m \in Nat
  BY <1>1
<1>4. m # 0
  BY FS_EmptySet, SuiteGrows DEF Bad
<1>5. m - 1 \in Nat /\ m - 1 \notin Bad /\ (m - 1) + 1 = m
  BY <1>2, <1>3, <1>4
<1>6. IsFiniteSet(Suite(r, c, data, m - 1)) /\ Cardinality(Suite(r, c, data, m - 1)) = m - 1
  BY <1>5 DEF Bad
<1>7. Suite(r, c, data, m) = Suite(r, c, data, m - 1) \cup {e(m)}
  BY <1>5, SuiteGrows
<1>8. e(m) \notin Suite(r, c, data, m - 1)
  <2>1. \A i \in 1..m - 1 : e(i).nth # e(m).nth
    BY <1>3
  <2> QED BY <2>1 DEF Suite
<1> HIDE DEF e
<1>9. IsFiniteSet(Suite(r, c, data, m)) /\ Cardinality(Suite(r, c, data, m)) = m
  BY <1>5, <1>6, <1>7, <1>8, FS_AddElement
<1> QED BY <1>2, <1>9 DEF Bad

LEMMA EndRegistry ==
    ASSUME RegistryInv, NEW how, End(how), UNCHANGED <<runs, registry, gate>>
    PROVE  RegistryInv'
<1>1. position' = 0 /\ cells' = << >>
  BY DEF End
<1> QED BY <1>1 DEF RegistryInv

LEMMA StartRegistry ==
    ASSUME LocalsInv, RegistryInv, NEW v, Start(v)
    PROVE  RegistryInv'
<1>1. /\ position = 0 /\ position' = 1 /\ runs' = runs + 1
      /\ cells' = cells /\ registry' = registry /\ gate' = gate
  BY DEF Start
<1>2. runs \in Nat /\ cells = << >>
  BY <1>1 DEF RegistryInv
<1>3. ASSUME NEW e \in registry PROVE e.run \in 1..runs + 1 /\ e.run # runs + 1 /\ e.cell \in Cells
  BY <1>2 DEF RegistryInv
<1>4. SuitesBefore(1) = {}
  BY DEF SuitesBefore
<1>5. Finished(<< >>, 1)
  BY <1>4, FS_EmptySet DEF Finished
<1>6. FullSuites(<< >>, registry, runs + 1)
  BY DEF FullSuites
<1>7. \A c : Script[1] # Op("suite", c)
  BY ScriptOrdered, OpParts
<1>8. gate # None => \E r \in 1..runs + 1 : r # runs + 1 /\ FullSuites(gate.cells, registry, r)
  <2>1. ASSUME NEW r \in 1..runs PROVE r \in 1..runs + 1 /\ r # runs + 1
    BY <1>2
  <2> QED BY <2>1 DEF RegistryInv
<1> QED BY <1>1, <1>2, <1>3, <1>5, <1>6, <1>7, <1>8 DEF RegistryInv

\* What a step that leaves the registry alone must establish at its new place.
LEMMA PassRegistry ==
    ASSUME LocalsInv, RegistryInv, position # 0, Script[position].kind \notin {"suite", "gate"},
           position' = position + 1, recorded' = 0,
           UNCHANGED <<cells, runs, registry, gate>>
    PROVE  RegistryInv'
<1>1. /\ position \in 1..Len(Script) /\ position + 1 \in 1..Len(Script)
      /\ position \in Nat /\ position # position + 1 /\ position + 1 # 0
  BY InScript, ScriptOrdered
<1>2. SuitesBefore(position + 1) = SuitesBefore(position)
  BY <1>1, SuitesAdvance
<1>3. Finished(cells, position + 1)
  BY <1>2 DEF RegistryInv, Finished
<1>4. \A e \in registry : e.run = runs =>
         \E q \in 1..position + 1 : q # position + 1 /\ Script[q] = Op("suite", e.cell)
  <2>1. \A q \in 1..position : q \in 1..position + 1 /\ q # position + 1
    BY <1>1
  <2> QED BY <2>1 DEF RegistryInv
<1>5. ASSUME NEW c \in Cells, Script[position + 1] = Op("suite", c)
      PROVE  Of(registry, runs, c) = {}
  <2>1. \A q \in 1..position + 1 : Script[q] = Op("suite", c) => q = position + 1
    <3>1. \A q \in 1..position + 1 : q \in 1..Len(Script)
      BY <1>1, ScriptOrdered
    <3>2. Script[position + 1].kind = "suite"
      BY <1>5, OpParts
    <3>3. OpOnce("suite")
      BY ScriptOrdered
    <3> QED BY <1>1, <1>5, <3>1, <3>2, <3>3 DEF OpOnce
  <2> QED BY <1>4, <2>1 DEF Of
<1>6. \A r, c, data : Suite(r, c, data, 0) = {}
  BY SuiteGrows
<1>7. gate # None => \E r \in 1..runs : r # runs /\ FullSuites(gate.cells, registry, r)
  BY DEF RegistryInv
<1> QED BY <1>1, <1>3, <1>4, <1>5, <1>6, <1>7 DEF RegistryInv

LEMMA RecordRegistry ==
    ASSUME LocalsInv, RegistryInv, RunExperiment
    PROVE  RegistryInv'
<1>1. position # 0 /\ Script[position].kind = "suite"
  BY DEF RunExperiment, Doing
<1>2. PICK c \in Cells : c = This
  BY <1>1, InScript DEF Ordered, This
<1>3. position \in 1..Len(Script) /\ Script[position] = Op("suite", c)
  BY <1>1, <1>2, InScript, OpOfParts DEF This
<1>4. PICK data : data = Composite(c)
  OBVIOUS
<1> DEFINE e == [run |-> runs, cell |-> c, data |-> data, nth |-> recorded + 1]
<1>5. /\ registry' = registry \cup {e} /\ recorded' = recorded + 1
      /\ position' = position /\ cells' = cells /\ runs' = runs /\ gate' = gate
      /\ Composite(c)' = data
  BY <1>2, <1>4 DEF RunExperiment, Composite
<1>6. e.run = runs /\ e.cell = c
  OBVIOUS
<1>7. recorded \in Nat /\ Suite(runs, c, data, recorded + 1) = Suite(runs, c, data, recorded) \cup {e}
  <2>1. recorded \in Nat
    BY MatrixAssumption DEF LocalsInv
  <2> QED BY <2>1, SuiteGrows
<1> HIDE DEF e
<1>8. runs \in Nat /\ runs # 0 /\ runs \in 1..runs
  BY <1>1 DEF RegistryInv
<1>9. \A f \in registry' : f.run \in 1..runs /\ f.cell \in Cells
  BY <1>2, <1>5, <1>6, <1>8 DEF RegistryInv
<1>10. Of(registry', runs, c) = Suite(runs, c, data, recorded')
  <2>1. Of(registry', runs, c) = Of(registry, runs, c) \cup {e}
    BY <1>5, <1>6 DEF Of
  <2>2. Of(registry, runs, c) = Suite(runs, c, data, recorded)
    BY <1>1, <1>3, <1>4 DEF RegistryInv
  <2> QED BY <1>5, <1>7, <2>1, <2>2
<1>11. \A r, d : r # runs \/ d # c => Of(registry', r, d) = Of(registry, r, d)
  BY <1>5, <1>6 DEF Of
<1>12. FullSuites(cells, registry', runs)
  <2>1. \A i \in DOMAIN cells : cells[i].cell # c
    <3>1. {cells[i].cell : i \in DOMAIN cells} = SuitesBefore(position)
      BY <1>1 DEF RegistryInv, Finished
    <3>2. c \notin SuitesBefore(position)
      BY <1>3, SuitesAdvance
    <3> QED BY <3>1, <3>2
  <2>2. FullSuites(cells, registry, runs)
    BY <1>1 DEF RegistryInv
  <2> QED BY <1>11, <2>1, <2>2 DEF FullSuites
<1>13. \A f \in registry' : f.run = runs => \E q \in 1..position : Script[q] = Op("suite", f.cell)
  <2>1. position \in 1..position
    BY <1>3
  <2> QED BY <1>1, <1>3, <1>5, <1>6, <2>1 DEF RegistryInv
<1>14. \A d \in Cells : Script[position] = Op("suite", d) => d = c
  BY <1>3, OpParts
<1>15. gate # None => \E r \in 1..runs : r # runs /\ FullSuites(gate.cells, registry', r)
  <2>1. SUFFICES ASSUME gate # None
                 PROVE  \E r \in 1..runs : r # runs /\ FullSuites(gate.cells, registry', r)
    OBVIOUS
  <2>2. PICK r \in 1..runs : r # runs /\ FullSuites(gate.cells, registry, r)
    BY <1>1, <2>1 DEF RegistryInv
  <2>3. FullSuites(gate.cells, registry', r)
    BY <1>1, <1>11, <2>2 DEF FullSuites
  <2> QED BY <2>2, <2>3
<1>16. /\ Finished(cells, position) /\ (gate # None => Complete(gate.cells))
       /\ (position = 0 => cells = << >>)
  BY <1>1 DEF RegistryInv
<1> QED BY <1>5, <1>8, <1>9, <1>10, <1>12, <1>13, <1>14, <1>15, <1>16 DEF RegistryInv

LEMMA FinishRegistry ==
    ASSUME LocalsInv, RegistryInv, FinishCell
    PROVE  RegistryInv'
<1>1. position # 0 /\ Script[position].kind = "suite"
  BY DEF FinishCell, Doing
<1>2. PICK c \in Cells : c = This
  BY <1>1, InScript DEF Ordered, This
<1>3. /\ position \in 1..Len(Script) /\ Script[position] = Op("suite", c)
      /\ position + 1 \in 1..Len(Script) /\ position \in Nat
      /\ position # position + 1 /\ position + 1 # 0
  BY <1>1, <1>2, InScript, OpOfParts, ScriptOrdered DEF This
<1>4. PICK data : data = Composite(c)
  OBVIOUS
<1>5. PICK done : done = [cell |-> c, data |-> data, metrics |-> MetricsOf(data)]
  OBVIOUS
<1>6. PICK later : later = Append(cells, done)
  OBVIOUS
<1>7. /\ cells' = later /\ recorded = SuiteSize /\ recorded' = 0
      /\ position' = position + 1 /\ registry' = registry /\ runs' = runs /\ gate' = gate
  BY <1>2, <1>4, <1>5, <1>6 DEF FinishCell, Advance
<1>8. done.cell = c /\ done.data = data
  BY <1>5
<1>9. PICK n \in Nat : n = Len(cells)
  BY <1>1, LenProperties DEF RegistryInv, Finished
<1>10. /\ DOMAIN cells = 1..n /\ DOMAIN later = 1..n + 1
       /\ later \in Seq(Range(later)) /\ Len(later) = n + 1
       /\ later[n + 1] = done /\ \A i \in 1..n : later[i] = cells[i]
  <2>1. PICK s : s = cells
    OBVIOUS
  <2>2. s \in Seq(Range(s)) /\ n = Len(s)
    BY <1>1, <1>9, <2>1 DEF RegistryInv, Finished
  <2>3. /\ DOMAIN s = 1..n /\ Append(s, done) \in Seq(Range(Append(s, done)))
        /\ Len(Append(s, done)) = n + 1 /\ DOMAIN Append(s, done) = 1..n + 1
        /\ Append(s, done)[n + 1] = done /\ \A i \in 1..n : Append(s, done)[i] = s[i]
    BY <2>2, Appended
  <2>4. later = Append(s, done)
    BY <1>6, <2>1
  <2> QED BY <2>1, <2>3, <2>4
<1>11. 1..n + 1 = (1..n) \cup {n + 1}
  OBVIOUS
<1>12. Finished(later, position + 1)
  <2>1. /\ {cells[i].cell : i \in 1..n} = SuitesBefore(position)
        /\ IsFiniteSet(SuitesBefore(position)) /\ Cardinality(SuitesBefore(position)) = n
    BY <1>1, <1>9, <1>10 DEF RegistryInv, Finished
  <2>2. SuitesBefore(position + 1) = SuitesBefore(position) \cup {c} /\ c \notin SuitesBefore(position)
    BY <1>3, SuitesAdvance
  <2>3. {later[i].cell : i \in DOMAIN later} = SuitesBefore(position + 1)
    BY <1>8, <1>10, <1>11, <2>1, <2>2
  <2>4. IsFiniteSet(SuitesBefore(position + 1)) /\ Cardinality(SuitesBefore(position + 1)) = n + 1
    BY <2>1, <2>2, FS_AddElement
  <2> QED BY <1>10, <2>3, <2>4 DEF Finished
<1>13. FullSuites(later, registry, runs)
  <2>1. FullSuites(cells, registry, runs)
    BY <1>1 DEF RegistryInv
  <2>2. Of(registry, runs, c) = Suite(runs, c, data, SuiteSize)
    BY <1>1, <1>3, <1>4, <1>7 DEF RegistryInv
  <2> QED BY <1>8, <1>10, <1>11, <2>1, <2>2 DEF FullSuites
<1>14. \A e \in registry : e.run = runs =>
          \E q \in 1..position + 1 : q # position + 1 /\ Script[q] = Op("suite", e.cell)
  <2>1. \A q \in 1..position : q \in 1..position + 1 /\ q # position + 1
    BY <1>3
  <2> QED BY <1>1, <2>1 DEF RegistryInv
<1>15. ASSUME NEW d \in Cells, Script[position + 1] = Op("suite", d)
       PROVE  Of(registry, runs, d) = {}
  <2>1. \A q \in 1..position + 1 : Script[q] = Op("suite", d) => q = position + 1
    <3>1. \A q \in 1..position + 1 : q \in 1..Len(Script)
      BY <1>3, ScriptOrdered
    <3>2. Script[position + 1].kind = "suite"
      BY <1>15, OpParts
    <3>3. OpOnce("suite")
      BY ScriptOrdered
    <3> QED BY <1>3, <1>15, <3>1, <3>2, <3>3 DEF OpOnce
  <2> QED BY <1>14, <2>1 DEF Of
<1>16. \A r, d, x : Suite(r, d, x, 0) = {}
  BY SuiteGrows
<1>17. gate # None => \E r \in 1..runs : r # runs /\ FullSuites(gate.cells, registry, r)
  BY <1>1 DEF RegistryInv
<1> QED BY <1>1, <1>3, <1>7, <1>12, <1>13, <1>14, <1>15, <1>16, <1>17 DEF RegistryInv

LEMMA WriteRegistry ==
    ASSUME LocalsInv, RegistryInv, WriteGate
    PROVE  RegistryInv'
<1>1. position # 0 /\ Script[position].kind = "gate"
  BY DEF WriteGate, Doing
<1>2. position = Len(Script)
  BY <1>1, InScript DEF Ordered
<1>3. gate' = Document /\ UNCHANGED <<localVars, runs, registry>>
  BY DEF WriteGate
<1>4. PICK list : list = cells
  OBVIOUS
<1>5. Document.cells = list
  BY <1>4 DEF Document
<1>6. /\ runs \in Nat /\ runs # 0 /\ Finished(list, position) /\ FullSuites(list, registry, runs)
      /\ \A e \in registry : e.run \in 1..runs /\ e.cell \in Cells
  BY <1>1, <1>4 DEF RegistryInv
<1>7. Complete(list)
  BY <1>2, <1>6, SuitesOfAll DEF Complete, Finished
<1>8. runs \in 1..runs
  BY <1>6
<1>9. gate'.cells = list
  BY <1>3, <1>5
<1>10. \A c : Composite(c)' = Composite(c)
  BY <1>3 DEF localVars, Composite
<1> QED BY <1>1, <1>3, <1>6, <1>7, <1>8, <1>9, <1>10 DEF RegistryInv, localVars

LEMMA NextRegistry ==
    ASSUME LocalsInv, RegistryInv, [Next]_vars
    PROVE  RegistryInv'
<1>1. CASE UNCHANGED matrixVars
  BY <1>1 DEF matrixVars, localVars, RegistryInv, Composite
<1>2. ASSUME NEW how, End(how), UNCHANGED <<runs, registry, gate>> PROVE RegistryInv'
  BY <1>2, EndRegistry
<1>3. CASE Block \/ RaiseOnTorn \/ RaiseInSuite \/ Report \/ RefuseGate \/ KillMatrix
  <2>1. \E how : End(how)
    BY <1>3, Ends
  <2>2. UNCHANGED <<runs, registry, gate>>
    BY <1>3 DEF Block, RaiseOnTorn, RaiseInSuite, Report, RefuseGate, KillMatrix, Abort
  <2> QED BY <1>2, <2>1, <2>2
<1>4. CASE \E v \in {w \in Versions : RequestOf[w] \in Snapshots} : Start(v)
  BY <1>4, StartRegistry
<1>5. CASE Load \/ Resolve
  <2>1. /\ position # 0 /\ Script[position].kind \in {"resolve", "load", "instruments"}
        /\ position' = position + 1 /\ recorded' = recorded
        /\ UNCHANGED <<cells, runs, registry, gate>>
    BY <1>5 DEF Load, Loading, Resolve, Doing, Advance
  <2>2. recorded = 0
    BY <2>1 DEF LocalsInv
  <2> QED BY <2>1, <2>2, PassRegistry
<1>6. MatrixStep => RegistryInv'
  BY <1>3, <1>5, RecordRegistry, FinishRegistry, WriteRegistry DEF MatrixStep
<1>7. vars' = vars => UNCHANGED matrixVars
  BY DEF vars
<1> QED BY <1>1, <1>2, <1>3, <1>4, <1>6, <1>7 DEF Next

(***************************************************************************)
(* While the power holds, nothing that is certified is lost, and so a      *)
(* request is never resolved to a second version.                          *)
(***************************************************************************)
LEMMA PutCurated ==
    ASSUME LakeInv, NEW x, NEW y, x.zone = "manifests" => y.status = Status(x.of),
           files' = Put(files, x, y), NEW k
    PROVE  Curated(files, k) \subseteq Curated(files', k)
<1>1. ASSUME NEW path \in DOMAIN files, path.zone = "manifests", files[path].status = "CURATED"
      PROVE  path \in DOMAIN files' /\ files'[path].status = "CURATED"
  <2>1. path \in DOMAIN files' /\ files'[path] = IF path = x THEN y ELSE files[path]
    BY DEF Put
  <2>2. Sound(path, files[path], DOMAIN files, outages > 0)
    BY DEF LakeInv
  <2>3. Status(path.of) = "CURATED"
    BY <1>1, <2>2 DEF Sound, Certificate
  <2> QED BY <1>1, <2>1, <2>3
<1> QED BY <1>1 DEF Curated

LEMMA CuratedStay ==
    ASSUME LakeInv, [Next]_vars, outages' = 0
    PROVE  outages = 0 /\ \A k : Curated(files, k) \subseteq Curated(files', k)
<1>1. CASE UNCHANGED <<files, outages>>
  BY <1>1
<1>2. ASSUME NEW p \in Ingesters, NEW v \in Versions, Fetch(p, v)
      PROVE  outages = 0 /\ \A k : Curated(files, k) \subseteq Curated(files', k)
  <2>1. PICK page : page = Path("raw", v, fetches + 1)
    OBVIOUS
  <2>2. page.zone # "manifests"
    BY <2>1 DEF Path
  <2>3. files' = Put(files, page, Data(page)) /\ outages' = outages
    BY <1>2, <2>1 DEF Fetch, faults
  <2> QED BY <2>2, <2>3, PutCurated
<1>3. ASSUME NEW p \in Ingesters, Replace(p)
      PROVE  outages = 0 /\ \A k : Curated(files, k) \subseteq Curated(files', k)
  <2>1. PICK path, payload :
           /\ files' = Put(files, path, payload)
           /\ payload = IF path.zone = "manifests"
                          THEN Manifest(path.of, job[p].at, job[p].artifacts) ELSE Data(path)
    BY <1>3 DEF Replace
  <2>2. path.zone = "manifests" => payload.status = Status(path.of)
    BY <2>1 DEF Manifest
  <2>3. outages' = outages
    BY <1>3 DEF Replace, faults
  <2> QED BY <2>1, <2>2, <2>3, PutCurated
<1>4. ASSUME NEW p \in Ingesters, Ingest(p) \/ Kill(p)
      PROVE  outages = 0 /\ \A k : Curated(files, k) \subseteq Curated(files', k)
  <2>1. CASE ~Replace(p)
    BY <1>1, <1>4, <2>1 DEF Ingest, AcceptDownload, RefuseDownload, KeepExisting, FindAbsent,
                            Return, Kill, faults
  <2> QED BY <1>3, <2>1
<1>5. CASE LakeStep
  BY <1>2, <1>4, <1>5 DEF LakeStep
<1>6. CASE \E damaged \in Damage : \E torn \in SUBSET damaged : PowerFailure(damaged \ torn, torn)
  <2>1. outages' = outages + 1 /\ outages \in Nat
    BY <1>6 DEF PowerFailure, LakeInv
  <2> QED BY <2>1
<1>7. (\E v : Start(v)) \/ MatrixStep \/ KillMatrix \/ vars' = vars => UNCHANGED <<files, outages>>
  BY DEF Start, MatrixStep, Load, Resolve, Block, RaiseOnTorn, RunExperiment, RaiseInSuite,
         FinishCell, WriteGate, Report, RefuseGate, KillMatrix, Abort, vars, lakeVars, faults
<1> QED BY <1>1, <1>5, <1>6, <1>7 DEF Next

LEMMA PinsRequests ==
    ASSUME NEW c \in Cells, NEW data, NEW pin \in Pins(c, data)
    PROVE  pin[1] \in Requests /\ pin[1] \in Inputs(c)
<1>1. PICK i \in 1..NS, j \in 1..NT : c = CellOf(i, j)
  BY ListsOfProtocol
<1>2. c[1] = Symbols[i]
  BY <1>1 DEF CellOf
<1>3. CandlesOf[c] \in Requests /\ FundingOf[c[1]] \in Requests /\ MarkOf[c[1]] \in Requests
  BY <1>1, <1>2, RequestsApart
<1> QED BY <1>3 DEF Pins, Inputs

\* A step that resolves nothing and records nothing.
LEMMA KeepAgreement ==
    ASSUME AgreementInv, RegistryInv, outages' = 0 => outages = 0,
           outages' = 0 => \A k : Curated(files, k) \subseteq Curated(files', k),
           registry' = registry, \A k \in Requests : resolved'[k] \in {None, resolved[k]}
    PROVE  AgreementInv'
<1> SUFFICES ASSUME outages' = 0
             PROVE  /\ \A k \in Requests : resolved'[k] # None => resolved'[k] \in Curated(files', k)
                    /\ \A e \in registry : IsData(e.data) /\ \A pin \in Pins(e.cell, e.data) :
                          pin[2] \in Curated(files', pin[1]) /\ resolved'[pin[1]] \in {None, pin[2]}
                    /\ \A e, f \in registry :
                          \A x \in Pins(e.cell, e.data), y \in Pins(f.cell, f.data) :
                             x[1] = y[1] => x[2] = y[2]
  BY DEF AgreementInv
<1>1. outages = 0 /\ \A k : Curated(files, k) \subseteq Curated(files', k)
  OBVIOUS
<1>2. ASSUME NEW e \in registry, NEW pin \in Pins(e.cell, e.data)
      PROVE  pin[2] \in Curated(files', pin[1]) /\ resolved'[pin[1]] \in {None, pin[2]}
  <2>1. pin[1] \in Requests
    BY PinsRequests DEF RegistryInv
  <2>2. pin[2] \in Curated(files, pin[1]) /\ resolved[pin[1]] \in {None, pin[2]}
    BY <1>1 DEF AgreementInv
  <2> QED BY <1>1, <2>1, <2>2
<1>3. \A k \in Requests : resolved'[k] # None => resolved'[k] \in Curated(files', k)
  BY <1>1 DEF AgreementInv
<1> QED BY <1>1, <1>2, <1>3 DEF AgreementInv

LEMMA ResolveAgreement ==
    ASSUME LakeInv, LocalsInv, RegistryInv, AgreementInv, Resolve
    PROVE  AgreementInv'
<1>1. position # 0 /\ Script[position].kind = "resolve"
  BY DEF Resolve, Doing
<1>2. PICK k \in Requests : k = This
  BY <1>1, InScript DEF Ordered, This
<1>3. PICK v : Matches(k) = {v} /\ resolved' = [resolved EXCEPT ![k] = v]
  BY <1>2 DEF Resolve
<1>4. files' = files /\ outages' = outages /\ registry' = registry
  BY DEF Resolve, lakeVars, faults
<1>5. Curated(files, k) = {v}
  BY <1>3, MatchesCurated
<1>6. resolved'[k] = v /\ \A x \in Requests : x # k => resolved'[x] = resolved[x]
  BY <1>3 DEF LocalsInv
<1>7. ASSUME outages = 0, NEW e \in registry, NEW pin \in Pins(e.cell, e.data)
      PROVE  pin[2] \in Curated(files, pin[1]) /\ resolved'[pin[1]] \in {None, pin[2]}
  <2>1. pin[1] \in Requests
    BY PinsRequests DEF RegistryInv
  <2>2. pin[2] \in Curated(files, pin[1]) /\ resolved[pin[1]] \in {None, pin[2]}
    BY <1>7 DEF AgreementInv
  <2> QED BY <1>5, <1>6, <2>1, <2>2
<1>8. outages = 0 => \A x \in Requests : resolved'[x] # None => resolved'[x] \in Curated(files, x)
  BY <1>5, <1>6 DEF AgreementInv
<1> QED BY <1>4, <1>7, <1>8 DEF AgreementInv

LEMMA RecordAgreement ==
    ASSUME LocalsInv, RegistryInv, AgreementInv, RunExperiment
    PROVE  AgreementInv'
<1>1. position # 0 /\ Script[position].kind = "suite"
  BY DEF RunExperiment, Doing
<1>2. PICK c \in Cells : /\ c = This
                        /\ \A k \in Inputs(c) : \E r \in 1..position - 1 : Script[r] = Op("resolve", k)
  BY <1>1, InScript DEF Ordered, This
<1>3. PICK data : data = Composite(c)
  OBVIOUS
<1>4. PICK new : new = [run |-> runs, cell |-> c, data |-> data, nth |-> recorded + 1]
  OBVIOUS
<1>5. /\ files' = files /\ outages' = outages /\ resolved' = resolved
      /\ registry' = registry \cup {new}
  BY <1>2, <1>3, <1>4 DEF RunExperiment, lakeVars, faults
<1>6. new.cell = c /\ new.data = data /\ IsData(data)
  BY <1>3, <1>4 DEF IsData, Composite
<1>7. ASSUME NEW pin \in Pins(c, data)
      PROVE  /\ pin[1] \in Requests /\ pin[2] = resolved[pin[1]] /\ pin[2] # None
             /\ outages = 0 => pin[2] \in Curated(files, pin[1])
  <2>1. pin[1] \in Requests /\ pin[1] \in Inputs(c)
    BY PinsRequests
  <2>2. pin[2] = resolved[pin[1]]
    BY <1>3 DEF Pins, Composite
  <2>3. resolved[pin[1]] # None
    BY <1>2, <2>1 DEF LocalsInv, ResolvedSoFar
  <2> QED BY <2>1, <2>2, <2>3 DEF AgreementInv
<1>8. ASSUME outages = 0, NEW e \in registry, NEW x \in Pins(e.cell, e.data),
             NEW y \in Pins(c, data), x[1] = y[1]
      PROVE  x[2] = y[2]
  <2>1. resolved[x[1]] \in {None, x[2]}
    BY <1>8 DEF AgreementInv
  <2> QED BY <1>7, <1>8, <2>1
<1>9. ASSUME NEW x \in Pins(c, data), NEW y \in Pins(c, data), x[1] = y[1]
      PROVE  x[2] = y[2]
  BY <1>7, <1>9
<1>10. ASSUME outages = 0, NEW e \in registry'
       PROVE  IsData(e.data) /\ \A pin \in Pins(e.cell, e.data) :
                 pin[2] \in Curated(files, pin[1]) /\ resolved[pin[1]] \in {None, pin[2]}
  <2>1. CASE e \in registry
    BY <1>10, <2>1 DEF AgreementInv
  <2>2. CASE e = new
    BY <1>6, <1>7, <1>10, <2>2
  <2> QED BY <1>5, <2>1, <2>2
<1>11. ASSUME outages = 0, NEW e \in registry', NEW f \in registry',
              NEW x \in Pins(e.cell, e.data), NEW y \in Pins(f.cell, f.data), x[1] = y[1]
       PROVE  x[2] = y[2]
  <2>1. CASE e \in registry /\ f \in registry
    BY <1>11, <2>1 DEF AgreementInv
  <2>2. CASE e \in registry /\ f = new
    BY <1>6, <1>8, <1>11, <2>2
  <2>3. CASE e = new /\ f \in registry
    BY <1>6, <1>8, <1>11, <2>3
  <2>4. CASE e = new /\ f = new
    BY <1>6, <1>9, <1>11, <2>4
  <2> QED BY <1>5, <2>1, <2>2, <2>3, <2>4
<1>12. outages = 0 => \A k \in Requests : resolved[k] # None => resolved[k] \in Curated(files, k)
  BY DEF AgreementInv
<1> QED BY <1>5, <1>10, <1>11, <1>12 DEF AgreementInv

LEMMA NextAgreement ==
    ASSUME LakeInv, LocalsInv, RegistryInv, AgreementInv, [Next]_vars
    PROVE  AgreementInv'
<1>1. outages' = 0 => outages = 0 /\ \A k : Curated(files, k) \subseteq Curated(files', k)
  BY CuratedStay
<1>2. CASE registry' = registry /\ resolved' = resolved
  BY <1>1, <1>2, KeepAgreement
<1>3. ASSUME NEW how, End(how), registry' = registry PROVE AgreementInv'
  <2>1. \A k \in Requests : resolved'[k] = None
    BY <1>3 DEF End
  <2> QED BY <1>1, <1>3, <2>1, KeepAgreement
<1>4. CASE Block \/ RaiseOnTorn \/ RaiseInSuite \/ Report \/ RefuseGate \/ KillMatrix
  <2>1. \E how : End(how)
    BY <1>4, Ends
  <2>2. registry' = registry
    BY <1>4 DEF Block, RaiseOnTorn, RaiseInSuite, Report, RefuseGate, KillMatrix, Abort
  <2> QED BY <1>3, <2>1, <2>2
<1>5. CASE Load \/ FinishCell \/ WriteGate \/ (\E v : Start(v)) \/ UNCHANGED matrixVars \/ vars' = vars
  BY <1>2, <1>5 DEF Load, FinishCell, WriteGate, Start, matrixVars, localVars, vars
<1>6. MatrixStep => AgreementInv'
  BY <1>4, <1>5, ResolveAgreement, RecordAgreement DEF MatrixStep
<1> QED BY <1>3, <1>4, <1>5, <1>6 DEF Next

-----------------------------------------------------------------------------
(***************************************************************************)
(* The invariant, and what it says of the matrix.                          *)
(***************************************************************************)
LEMMA InitMatrix == Init => MatrixInv
<1> SUFFICES ASSUME Init PROVE MatrixInv
  OBVIOUS
<1>1. /\ position = 0 /\ recorded = 0 /\ cells = << >> /\ runs = 0 /\ registry = {} /\ gate = None
      /\ resolved = [k \in Requests |-> None] /\ loaded = [k \in Requests |-> None]
  BY DEF Init, MatrixInit
<1>2. ResolvedSoFar(resolved, 0) /\ LoadedFrom(loaded, resolved, instruments)
  BY <1>1 DEF ResolvedSoFar, LoadedFrom
<1>3. Len(Script) \in Nat /\ SuiteSize \in Nat
  BY ScriptOrdered, MatrixAssumption
<1>4. LocalsInv
  BY <1>1, <1>2, <1>3 DEF LocalsInv
<1>5. RegistryInv
  BY <1>1 DEF RegistryInv
<1>6. AgreementInv
  BY <1>1 DEF AgreementInv
<1> QED BY <1>4, <1>5, <1>6 DEF MatrixInv

THEOREM MatrixInvariant == Spec => [](LakeInv /\ MatrixInv)
<1>1. Init => LakeInv /\ MatrixInv
  BY InitMatrix, LakeInitInv DEF Init
<1>2. LakeInv /\ MatrixInv /\ [Next]_vars => (LakeInv /\ MatrixInv)'
  <2> SUFFICES ASSUME LakeInv, MatrixInv, [Next]_vars PROVE LakeInv' /\ MatrixInv'
    OBVIOUS
  <2>1. LakeInv'
    BY NextLakeInv
  <2>2. LocalsInv /\ RegistryInv /\ AgreementInv
    BY DEF MatrixInv
  <2>3. LocalsInv' /\ RegistryInv' /\ AgreementInv'
    BY <2>2, NextLocals, NextRegistry, NextAgreement
  <2> QED BY <2>1, <2>3 DEF MatrixInv
<1> QED BY <1>1, <1>2, PTL DEF Spec

(***************************************************************************)
(* Every file, every local of a command and every experiment is of its     *)
(* kind, whatever the interleaving, the deaths and the power failures.     *)
(***************************************************************************)
LEMMA MatrixTyped == LakeInv /\ MatrixInv => TypeOK
<1> SUFFICES ASSUME LakeInv, LocalsInv, RegistryInv PROVE TypeOK
  BY DEF MatrixInv
<1>1. ASSUME NEW path \in DOMAIN files
      PROVE  /\ path \in Paths
             /\ IF path.zone = "manifests" THEN files[path].status \in {"CURATED", "QUARANTINED"}
                ELSE IF IsParquet(path) THEN files[path] \in MonthRows \cup {Torn}
                ELSE files[path] = path.of
  <2>1. path \in Paths /\ Sound(path, files[path], DOMAIN files, outages > 0)
    BY DEF LakeInv, Sound
  <2>2. CASE path.zone = "manifests"
    BY <2>1, <2>2 DEF Sound, Certificate, Status
  <2>3. CASE path.zone # "manifests" /\ ~IsParquet(path)
    BY <2>1, <2>3 DEF Sound, Holds, Data
  <2>4. CASE path.zone # "manifests" /\ IsParquet(path)
    <3>1. path.of \in Versions /\ path.part \in Months(path.of)
      BY <2>1, <2>4 DEF Sound, Paths
    <3>2. RowsOf[path.of] \in [Months(path.of) -> MonthRows]
      BY <3>1, LakeAssumption
    <3>3. Data(path) \in MonthRows
      BY <2>4, <3>1, <3>2 DEF Data
    <3>4. files[path] = Data(path) \/ files[path] = Torn
      BY <2>1, <2>4 DEF Sound, Holds
    <3> QED BY <2>1, <2>4, <3>3, <3>4
  <2> QED BY <2>1, <2>2, <2>3, <2>4
<1>2. ASSUME NEW p \in Ingesters, job[p] # None
      PROVE  /\ job[p].version \in Versions /\ job[p].at \in 1..fetches
             /\ job[p].todo \in Seq(Paths) /\ (job[p].absent => job[p].todo # << >>)
             /\ DOMAIN job[p].artifacts \subseteq Paths
  <2>1. Busy(job[p], DOMAIN files, outages > 0, fetches)
    BY <1>2 DEF LakeInv
  <2>2. job[p].version \in Versions /\ job[p].at \in 1..fetches /\ job[p].at \in Nat
    BY <2>1 DEF Busy
  <2>3. DOMAIN job[p].artifacts \subseteq
           Evidence(job[p].version, job[p].at) \cup {ManifestPath(job[p].version)}
    BY <2>1 DEF Busy, Progress
  <2>4. /\ Evidence(job[p].version, job[p].at) \subseteq Paths
        /\ ManifestPath(job[p].version) \in Paths
    BY <2>2, EvidencePaths
  <2>5. job[p].todo \in Seq(Paths) /\ (job[p].absent => job[p].todo # << >>)
    BY <2>1 DEF Busy
  <2> QED BY <2>2, <2>3, <2>4, <2>5
<1>3. ASSUME NEW k \in Requests
      PROVE  /\ resolved[k] # None => resolved[k] \in Versions /\ RequestOf[resolved[k]] = k
             /\ loaded[k] # None => DOMAIN loaded[k] \subseteq MonthsOf[k]
  <2>1. resolved[k] # None => resolved[k] \in Versions /\ RequestOf[resolved[k]] = k
    BY DEF LocalsInv, ResolvedSoFar
  <2>2. ASSUME loaded[k] # None PROVE DOMAIN loaded[k] \subseteq MonthsOf[k]
    <3>1. PICK v \in Versions : RequestOf[v] = k /\ loaded[k] = RowsOf[v]
      BY <2>2 DEF LocalsInv, LoadedFrom
    <3>2. DOMAIN RowsOf[v] \subseteq MonthsOf[k]
      BY <3>1, LakeAssumption DEF Months
    <3> QED BY <3>1, <3>2
  <2> QED BY <2>1, <2>2
<1>4. unflushed \subseteq DOMAIN files
  BY DEF LakeInv
<1>5. position \in 0..Len(Script) /\ recorded \in 0..SuiteSize
  BY DEF LocalsInv
<1>6. \A e \in registry : e.run \in 1..runs /\ e.cell \in Cells
  BY DEF RegistryInv
<1> QED BY <1>1, <1>2, <1>3, <1>4, <1>5, <1>6 DEF TypeOK

THEOREM MatrixTypeCorrect == Spec => []TypeOK
BY MatrixInvariant, MatrixTyped, PTL

(***************************************************************************)
(* The loader returns the whole validated content of the resolved version, *)
(* or nothing: also after deaths and power failures (loader.py).           *)
(***************************************************************************)
LEMMA LoadsValidated == MatrixInv => LoadedIsValidated
<1> SUFFICES ASSUME LocalsInv PROVE LoadedIsValidated
  BY DEF MatrixInv
<1> QED BY DEF LocalsInv, LoadedFrom, LoadedIsValidated

THEOREM OnlyValidatedRowsLoaded == Spec => []LoadedIsValidated
BY MatrixInvariant, LoadsValidated, PTL

(***************************************************************************)
(* While the power holds, the experiments of a cell are all about one      *)
(* version of each of its series (resolve_unique).                         *)
(***************************************************************************)
LEMMA AgreementFixes == MatrixInv => OneVersionPerWindow
<1> SUFFICES ASSUME AgreementInv, outages = 0, NEW e \in registry, NEW f \in registry,
                    e.cell = f.cell, e.data.instruments = f.data.instruments
             PROVE  e.data = f.data
  BY DEF MatrixInv, OneVersionPerWindow
<1>1. IsData(e.data) /\ IsData(f.data)
  BY DEF AgreementInv
<1>2. \A x \in Pins(e.cell, e.data), y \in Pins(f.cell, f.data) : x[1] = y[1] => x[2] = y[2]
  BY DEF AgreementInv
<1>3. e.data.candles = f.data.candles
  <2>1. /\ <<CandlesOf[e.cell], e.data.candles>> \in Pins(e.cell, e.data)
        /\ <<CandlesOf[e.cell], f.data.candles>> \in Pins(f.cell, f.data)
    BY DEF Pins
  <2> QED BY <1>2, <2>1
<1>4. e.data.funding = f.data.funding
  <2>1. /\ <<FundingOf[e.cell[1]], e.data.funding>> \in Pins(e.cell, e.data)
        /\ <<FundingOf[e.cell[1]], f.data.funding>> \in Pins(f.cell, f.data)
    BY DEF Pins
  <2> QED BY <1>2, <2>1
<1>5. e.data.marks = f.data.marks
  <2>1. /\ <<MarkOf[e.cell[1]], e.data.marks>> \in Pins(e.cell, e.data)
        /\ <<MarkOf[e.cell[1]], f.data.marks>> \in Pins(f.cell, f.data)
    BY DEF Pins
  <2> QED BY <1>2, <2>1
<1> QED BY <1>1, <1>3, <1>4, <1>5 DEF IsData

THEOREM WindowsKeepOneVersion == Spec => []OneVersionPerWindow
BY MatrixInvariant, AgreementFixes, PTL

(***************************************************************************)
(* A gate document is only ever written over a complete matrix, each cell  *)
(* of which one and the same run recorded in full, on the data it names.   *)
(***************************************************************************)
LEMMA RegistryBacks == MatrixInv => GateBacked
<1> SUFFICES ASSUME RegistryInv, gate # None
             PROVE  /\ Complete(gate.cells)
                    /\ \E r \in 1..runs : \A i \in DOMAIN gate.cells :
                          SuiteSize = Cardinality({e \in registry :
                             /\ e.run = r
                             /\ e.cell = gate.cells[i].cell
                             /\ e.data = gate.cells[i].data})
  BY DEF MatrixInv, GateBacked
<1>1. PICK r \in 1..runs : FullSuites(gate.cells, registry, r)
  BY DEF RegistryInv
<1>2. ASSUME NEW i \in DOMAIN gate.cells
      PROVE  SuiteSize = Cardinality({e \in registry :
                 /\ e.run = r
                 /\ e.cell = gate.cells[i].cell
                 /\ e.data = gate.cells[i].data})
  <2>1. PICK c, data : c = gate.cells[i].cell /\ data = gate.cells[i].data
    OBVIOUS
  <2>2. Of(registry, r, c) = Suite(r, c, data, SuiteSize)
    BY <1>1, <2>1 DEF FullSuites
  <2>3. \A e \in Suite(r, c, data, SuiteSize) : e.data = data
    BY DEF Suite
  <2>4. {e \in registry : e.run = r /\ e.cell = c /\ e.data = data} = Suite(r, c, data, SuiteSize)
    BY <2>2, <2>3 DEF Of
  <2>5. SuiteSize \in Nat
    BY MatrixAssumption
  <2>6. Cardinality(Suite(r, c, data, SuiteSize)) = SuiteSize
    BY <2>5, SuiteCounted
  <2> QED BY <2>1, <2>4, <2>6
<1> QED BY <1>1, <1>2 DEF RegistryInv

THEOREM GateStandsOnSuites == Spec => []GateBacked
BY MatrixInvariant, RegistryBacks, PTL

(***************************************************************************)
(* A run computes its cells in the order of the protocol and its document  *)
(* from the cells alone.                                                   *)
(***************************************************************************)
\* The i-th cell is that of the i-th suite of the script.
Shaped(list) ==
    /\ list \in Seq(Range(list))
    /\ \A i \in DOMAIN list :
          /\ list[i] = [cell |-> list[i].cell, data |-> list[i].data,
                        metrics |-> MetricsOf(list[i].data)]
          /\ \E q \in 1..Len(Script) : /\ Script[q] = Op("suite", list[i].cell)
                                      /\ Cardinality(SuitesBefore(q)) = i - 1

Summary(list) == [cells |-> list, decision |-> Decision(list),
                  experiments |-> SuiteSize * Len(list)]

ShapeInv ==
    /\ position # 0 => /\ Shaped(cells)
                       /\ \A i \in DOMAIN cells : cells[i].data.instruments = instruments
    /\ gate # None => Shaped(gate.cells) /\ gate = Summary(gate.cells)

LEMMA FinishShape ==
    ASSUME LocalsInv, RegistryInv, ShapeInv, FinishCell
    PROVE  ShapeInv'
<1>1. position # 0 /\ Script[position].kind = "suite"
  BY DEF FinishCell, Doing
<1>2. PICK c \in Cells : c = This
  BY <1>1, InScript DEF Ordered, This
<1>3. position \in 1..Len(Script) /\ Script[position] = Op("suite", c)
  BY <1>1, <1>2, InScript, OpOfParts DEF This
<1>4. PICK data : data = Composite(c)
  OBVIOUS
<1>5. PICK done : done = [cell |-> c, data |-> data, metrics |-> MetricsOf(data)]
  OBVIOUS
<1>6. PICK s : s = cells
  OBVIOUS
<1>7. s \in Seq(Range(s)) /\ Cardinality(SuitesBefore(position)) = Len(s)
  BY <1>1, <1>6 DEF RegistryInv, Finished
<1>8. PICK t : t = Append(s, done)
  OBVIOUS
<1>9. /\ Len(s) \in Nat /\ DOMAIN s = 1..Len(s)
      /\ t \in Seq(Range(t)) /\ DOMAIN t = 1..Len(s) + 1
      /\ t[Len(s) + 1] = done /\ \A i \in 1..Len(s) : t[i] = s[i]
  BY <1>7, <1>8, Appended
<1>10. cells' = t /\ instruments' = instruments /\ gate' = gate /\ position' = position + 1
  BY <1>2, <1>4, <1>5, <1>6, <1>8 DEF FinishCell, Advance
<1>11. done.cell = c /\ done.data = data /\ data.instruments = instruments
  BY <1>4, <1>5 DEF Composite
<1>12. \A i \in DOMAIN t : i \in DOMAIN s \/ i = Len(s) + 1
  BY <1>9
<1>13. Shaped(s) /\ \A i \in DOMAIN s : s[i].data.instruments = instruments
  BY <1>1, <1>6 DEF ShapeInv
<1>14. ASSUME NEW i \in DOMAIN t
       PROVE  /\ t[i] = [cell |-> t[i].cell, data |-> t[i].data, metrics |-> MetricsOf(t[i].data)]
              /\ \E q \in 1..Len(Script) : /\ Script[q] = Op("suite", t[i].cell)
                                          /\ Cardinality(SuitesBefore(q)) = i - 1
              /\ t[i].data.instruments = instruments
  <2>1. CASE i \in DOMAIN s
    <3>1. t[i] = s[i]
      BY <1>9, <2>1
    <3> QED BY <1>13, <2>1, <3>1 DEF Shaped
  <2>2. CASE i = Len(s) + 1
    <3>1. t[i] = done /\ i - 1 = Len(s)
      BY <1>9, <2>2
    <3> QED BY <1>3, <1>5, <1>7, <1>11, <3>1
  <2> QED BY <1>12, <2>1, <2>2
<1>15. Shaped(t) /\ \A i \in DOMAIN t : t[i].data.instruments = instruments
  BY <1>9, <1>14 DEF Shaped
<1> QED BY <1>10, <1>15 DEF ShapeInv

LEMMA NextShape ==
    ASSUME LocalsInv, RegistryInv, ShapeInv, [Next]_vars
    PROVE  ShapeInv'
<1>1. CASE UNCHANGED matrixVars \/ RunExperiment
  BY <1>1 DEF matrixVars, localVars, RunExperiment, ShapeInv
<1>2. ASSUME NEW how, End(how), gate' = gate PROVE ShapeInv'
  BY <1>2 DEF End, ShapeInv
<1>3. CASE Block \/ RaiseOnTorn \/ RaiseInSuite \/ Report \/ RefuseGate \/ KillMatrix
  <2>1. \E how : End(how)
    BY <1>3, Ends
  <2>2. gate' = gate
    BY <1>3 DEF Block, RaiseOnTorn, RaiseInSuite, Report, RefuseGate, KillMatrix, Abort
  <2> QED BY <1>2, <2>1, <2>2
<1>4. ASSUME NEW v, Start(v) PROVE ShapeInv'
  <2>1. cells' = << >> /\ gate' = gate
    BY <1>4 DEF Start, RegistryInv
  <2>2. Shaped(<< >>) /\ DOMAIN << >> = {}
    BY DEF Shaped
  <2> QED BY <2>1, <2>2 DEF ShapeInv
<1>5. CASE Load \/ Resolve
  <2>1. position # 0 /\ UNCHANGED <<cells, instruments, gate>>
    BY <1>5 DEF Load, Loading, Resolve, Doing
  <2> QED BY <2>1 DEF ShapeInv
<1>6. CASE WriteGate
  <2>1. position # 0 /\ gate' = Document /\ UNCHANGED localVars
    BY <1>6 DEF WriteGate, Doing
  <2>2. PICK list : list = cells
    OBVIOUS
  <2>3. Document = Summary(list) /\ Summary(list).cells = list
    BY <2>2 DEF Document, Summary
  <2>4. Shaped(list)
    BY <2>1, <2>2 DEF ShapeInv
  <2> QED BY <2>1, <2>3, <2>4 DEF ShapeInv, localVars
<1>7. MatrixStep => ShapeInv'
  BY <1>1, <1>3, <1>5, <1>6, FinishShape DEF MatrixStep
<1>8. vars' = vars => UNCHANGED matrixVars
  BY DEF vars
<1> QED BY <1>1, <1>2, <1>3, <1>4, <1>7, <1>8 DEF Next

\* Only one suite has i - 1 suites before it.
LEMMA SuitePlaced ==
    ASSUME NEW p \in 1..Len(Script), NEW q \in 1..Len(Script), NEW c, NEW d, p < q,
           Script[p] = Op("suite", c), Script[q] = Op("suite", d)
    PROVE  Cardinality(SuitesBefore(p)) # Cardinality(SuitesBefore(q))
<1>1. SuitesBefore(p + 1) = SuitesBefore(p) \cup {c} /\ c \notin SuitesBefore(p)
  BY SuitesAdvance
<1>2. SuitesBefore(p + 1) \subseteq SuitesBefore(q)
  <2>1. \A x \in 1..(p + 1) - 1 : x \in 1..q - 1
    OBVIOUS
  <2> QED BY <2>1 DEF SuitesBefore
<1>3. IsFiniteSet(SuitesBefore(q))
  <2>1. SuitesBefore(q) = {Script[x].on : x \in {y \in 1..q - 1 : Script[y].kind = "suite"}}
    BY DEF SuitesBefore
  <2>2. q - 1 \in Nat /\ 1 \in Nat
    OBVIOUS
  <2>3. IsFiniteSet(1..q - 1)
    BY <2>2, FS_Interval
  <2>4. IsFiniteSet({y \in 1..q - 1 : Script[y].kind = "suite"})
    BY <2>3, FS_Subset
  <2> DEFINE Ys == {y \in 1..q - 1 : Script[y].kind = "suite"}
  <2>5. PICK on : on = [x \in Ys |-> Script[x].on]
    OBVIOUS
  <2>6. SuitesBefore(q) = {on[x] : x \in Ys}
    BY <2>1, <2>5
  <2> HIDE DEF Ys
  <2>7. on \in Surjection(Ys, {on[x] : x \in Ys})
    BY <2>5 DEF Surjection
  <2> QED BY <2>4, <2>6, <2>7, FS_Surjection DEF Ys
<1>4. /\ IsFiniteSet(SuitesBefore(p)) /\ Cardinality(SuitesBefore(p)) \in Nat
      /\ Cardinality(SuitesBefore(p + 1)) = Cardinality(SuitesBefore(p)) + 1
  <2>1. SuitesBefore(p) \subseteq SuitesBefore(q)
    BY <1>1, <1>2
  <2>2. IsFiniteSet(SuitesBefore(p))
    BY <1>3, <2>1, FS_Subset
  <2> QED BY <1>1, <2>2, FS_AddElement, FS_CardinalityType
<1>5. Cardinality(SuitesBefore(p + 1)) <= Cardinality(SuitesBefore(q))
  BY <1>2, <1>3, FS_Subset
<1> QED BY <1>3, <1>4, <1>5, FS_CardinalityType

\* Two lists of cells that agree on the data of a cell are one list.
LEMMA SameShape ==
    ASSUME NEW s, NEW t, Shaped(s), Shaped(t), Len(s) = Len(t),
           \A i \in DOMAIN s, j \in DOMAIN t : s[i].cell = t[j].cell => s[i].data = t[j].data
    PROVE  s = t
<1>1. /\ Len(s) \in Nat /\ DOMAIN s = 1..Len(s) /\ s = [i \in 1..Len(s) |-> s[i]]
      /\ DOMAIN t = 1..Len(s) /\ t = [i \in 1..Len(s) |-> t[i]]
  BY LenProperties DEF Shaped
<1>2. ASSUME NEW i \in 1..Len(s) PROVE s[i] = t[i]
  <2>1. PICK p \in 1..Len(Script) :
           Script[p] = Op("suite", s[i].cell) /\ Cardinality(SuitesBefore(p)) = i - 1
    BY <1>1 DEF Shaped
  <2>2. PICK q \in 1..Len(Script) :
           Script[q] = Op("suite", t[i].cell) /\ Cardinality(SuitesBefore(q)) = i - 1
    BY <1>1 DEF Shaped
  <2>3. ~(p < q) /\ ~(q < p)
    BY <2>1, <2>2, SuitePlaced
  <2>4. p = q
    BY <2>3, ScriptOrdered
  <2>5. s[i].cell = t[i].cell
    BY <2>1, <2>2, <2>4, OpParts
  <2>6. s[i].data = t[i].data
    BY <1>1, <2>5
  <2>7. PICK c, data : c = s[i].cell /\ data = s[i].data
    OBVIOUS
  <2>8. s[i] = [cell |-> c, data |-> data, metrics |-> MetricsOf(data)]
    BY <1>1, <2>7 DEF Shaped
  <2>9. t[i] = [cell |-> c, data |-> data, metrics |-> MetricsOf(data)]
    <3>1. t[i].cell = c /\ t[i].data = data
      BY <2>5, <2>6, <2>7
    <3>2. t[i] = [cell |-> t[i].cell, data |-> t[i].data, metrics |-> MetricsOf(t[i].data)]
      BY <1>1 DEF Shaped
    <3> QED BY <3>1, <3>2
  <2> QED BY <2>8, <2>9
<1> QED BY <1>1, <1>2

(***************************************************************************)
(* A run that comes to a gate an earlier run has written, with the same    *)
(* snapshot, has computed the same document (write_once of                 *)
(* serialization.py accepts it), wherever the runs in between died.        *)
(***************************************************************************)
LEMMA ShapeReproduces == MatrixInv /\ ShapeInv => RerunReproduces
<1> SUFFICES ASSUME MatrixInv, ShapeInv, outages = 0, Doing("gate"), gate # None,
                    \A i \in DOMAIN gate.cells : gate.cells[i].data.instruments = instruments
             PROVE  gate = Document
  BY DEF RerunReproduces
<1>1. position # 0 /\ position = Len(Script)
  <2>1. position # 0 /\ Script[position].kind = "gate" /\ LocalsInv
    BY DEF Doing, MatrixInv
  <2> QED BY <2>1, InScript DEF Ordered
<1>2. PICK s : s = cells
  OBVIOUS
<1>3. PICK t : t = gate.cells
  OBVIOUS
<1>4. /\ Shaped(s) /\ Shaped(t) /\ gate = Summary(t)
      /\ \A i \in DOMAIN s : s[i].data.instruments = instruments
      /\ \A i \in DOMAIN t : t[i].data.instruments = instruments
  BY <1>1, <1>2, <1>3 DEF ShapeInv
<1>5. /\ Finished(s, position) /\ FullSuites(s, registry, runs)
      /\ Complete(t)
  BY <1>1, <1>2, <1>3 DEF MatrixInv, RegistryInv
<1>6. PICK r : FullSuites(t, registry, r)
  BY <1>3 DEF MatrixInv, RegistryInv
<1>7. Len(s) = Len(t)
  BY <1>1, <1>5, SuitesOfAll DEF Finished, Complete
<1>8. \A run, c, data : \E e \in Suite(run, c, data, SuiteSize) : e.data = data /\ e.cell = c
  <2>1. 1 \in 1..SuiteSize
    BY MatrixAssumption
  <2> TAKE run, c, data
  <2>2. PICK e : e = [run |-> run, cell |-> c, data |-> data, nth |-> 1]
    OBVIOUS
  <2>3. e \in Suite(run, c, data, SuiteSize)
    BY <2>1, <2>2 DEF Suite
  <2>4. e.data = data /\ e.cell = c
    BY <2>2
  <2> QED BY <2>3, <2>4
<1>9. ASSUME NEW i \in DOMAIN s, NEW j \in DOMAIN t, s[i].cell = t[j].cell
      PROVE  s[i].data = t[j].data
  <2>1. Suite(runs, s[i].cell, s[i].data, SuiteSize) \subseteq registry
    BY <1>5 DEF FullSuites, Of
  <2>2. Suite(r, t[j].cell, t[j].data, SuiteSize) \subseteq registry
    BY <1>6 DEF FullSuites, Of
  <2>3. PICK e \in registry : e.data = s[i].data /\ e.cell = s[i].cell
    BY <1>8, <2>1
  <2>4. PICK f \in registry : f.data = t[j].data /\ f.cell = t[j].cell
    BY <1>8, <2>2
  <2>5. e.data.instruments = f.data.instruments
    BY <1>4, <2>3, <2>4
  <2> QED BY <1>9, <2>3, <2>4, <2>5, AgreementFixes DEF OneVersionPerWindow
<1>10. s = t
  BY <1>4, <1>7, <1>9, SameShape
<1> QED BY <1>2, <1>4, <1>10 DEF Document, Summary

THEOREM RerunsReproduceTheGate == Spec => []RerunReproduces
<1>1. Init => ShapeInv
  BY DEF Init, MatrixInit, ShapeInv
<1>2. LakeInv /\ MatrixInv /\ ShapeInv /\ [Next]_vars => ShapeInv'
  BY NextShape DEF MatrixInv
<1> QED BY <1>1, <1>2, MatrixInvariant, ShapeReproduces, PTL DEF Spec
-----------------------------------------------------------------------------
(***************************************************************************)
(* The order statistics of the gate: among finitely many whole numbers one *)
(* stands at every rank, and raising numbers never lowers it.              *)
(***************************************************************************)
Below(v, x) == {i \in DOMAIN v : v[i] < x}
UpTo(v, x) == {i \in DOMAIN v : v[i] <= x}

LEMMA Ranked ==
    ASSUME NEW n \in Nat, NEW v \in [1..n -> Int], NEW k \in 1..n
    PROVE  /\ Sorted(v, k) \in Int
           /\ Cardinality(Below(v, Sorted(v, k))) < k
           /\ Cardinality(UpTo(v, Sorted(v, k))) >= k
<1> DEFINE J == {i \in 1..n : Cardinality(UpTo(v, v[i])) >= k}
           T == {UpTo(v, v[i]) : i \in J}
           all == 1..n
<1>1. IsFiniteSet(1..n) /\ Cardinality(1..n) = n
  BY FS_Interval
<1>2. J # {}
  <2>1. PICK m \in 1..n : \A i \in 1..n : v[i] <= v[m]
    BY GreatestAt
  <2>2. UpTo(v, v[m]) = 1..n
    BY <2>1 DEF UpTo
  <2> QED BY <1>1, <2>2
<1>3. J \in SUBSET (1..n) /\ T \in SUBSET (SUBSET all) /\ T # {}
  <2>1. \A i \in 1..n : UpTo(v, v[i]) \subseteq all
    BY DEF UpTo
  <2>2. J \in SUBSET (1..n)
    OBVIOUS
  <2> HIDE DEF J
  <2> QED BY <1>2, <2>1, <2>2
<1>a. IsFiniteSet(all)
  BY <1>1
<1> HIDE DEF T, J, all
<1>4. PICK s \in T : \A t \in T : t \subseteq s => t = s
  BY <1>a, <1>3, SmallestSubset
<1>5. PICK i \in J : s = UpTo(v, v[i])
  BY <1>4 DEF T
<1>6. ASSUME NEW j \in J, v[j] < v[i] PROVE FALSE
  <2>1. UpTo(v, v[j]) \in T
    BY DEF T
  <2>2. UpTo(v, v[j]) \subseteq UpTo(v, v[i]) /\ i \in UpTo(v, v[i]) /\ i \notin UpTo(v, v[j])
    BY <1>3, <1>6 DEF UpTo
  <2> QED BY <1>4, <1>5, <2>1, <2>2
<1>7. ASSUME ~(Cardinality(Below(v, v[i])) < k) PROVE FALSE
  <2>1. Below(v, v[i]) \in SUBSET (1..n)
    BY DEF Below
  <2>2. Cardinality(Below(v, v[i])) >= k /\ Below(v, v[i]) # {}
    <3>1. Cardinality(Below(v, v[i])) \in Nat /\ (Below(v, v[i]) = {} => Cardinality(Below(v, v[i])) = 0)
      BY <2>1, Counts
    <3>2. k \in Nat /\ k > 0
      OBVIOUS
    <3> QED BY <1>7, <3>1, <3>2
  <2>3. PICK m \in Below(v, v[i]) : \A j \in Below(v, v[i]) : v[j] <= v[m]
    BY <2>1, <2>2, GreatestAt
  <2>4. m \in 1..n /\ v[m] < v[i]
    BY <2>1 DEF Below
  <2>5. UpTo(v, v[m]) = Below(v, v[i])
    BY <1>3, <2>3, <2>4 DEF Below, UpTo
  <2> QED BY <1>6, <2>2, <2>4, <2>5 DEF J
<1>8. v[i] \in Range(v) /\ Cardinality(UpTo(v, v[i])) >= k
  BY <1>3 DEF J, Range
<1> DEFINE At(x) == Cardinality(Below(v, x)) < k /\ Cardinality(UpTo(v, x)) >= k
<1>9. Sorted(v, k) = CHOOSE x \in Range(v) : At(x)
  BY DEF Sorted, Below, UpTo
<1>10. \E x \in Range(v) : At(x)
  BY <1>7, <1>8
<1> HIDE DEF At
<1>11. Sorted(v, k) \in Range(v) /\ At(Sorted(v, k))
  BY <1>9, <1>10
<1> QED BY <1>11 DEF At, Range

LEMMA SortedMonotone ==
    ASSUME NEW n \in Nat, NEW v \in [1..n -> Int], NEW w \in [1..n -> Int],
           \A i \in 1..n : v[i] <= w[i], NEW k \in 1..n
    PROVE  Sorted(v, k) <= Sorted(w, k)
<1>1. PICK x : x = Sorted(v, k)
  OBVIOUS
<1>2. PICK y : y = Sorted(w, k)
  OBVIOUS
<1>3. /\ x \in Int /\ Cardinality(Below(v, x)) < k
      /\ y \in Int /\ Cardinality(UpTo(w, y)) >= k
  BY <1>1, <1>2, Ranked
<1>4. ASSUME y < x PROVE FALSE
  <2>1. UpTo(w, y) \subseteq Below(v, x)
    BY <1>3, <1>4 DEF UpTo, Below
  <2>2. Below(v, x) \in SUBSET (1..n) /\ UpTo(w, y) \in SUBSET (1..n)
    BY DEF UpTo, Below
  <2>3. Cardinality(UpTo(w, y)) <= Cardinality(Below(v, x))
    BY <2>1, <2>2, Counts
  <2>4. Cardinality(UpTo(w, y)) \in Nat /\ Cardinality(Below(v, x)) \in Nat
    BY <2>2, Counts
  <2> QED BY <1>3, <2>3, <2>4
<1> QED BY <1>1, <1>2, <1>3, <1>4
\* A list of judged cells: as long as the matrix, with metrics of the analytics.
Field(cs, n, field) == [i \in 1..n |-> cs[i].metrics[field]]

IsJudged(cs, n) ==
    /\ cs = [i \in 1..n |-> cs[i]]
    /\ \A i \in 1..n : cs[i].metrics \in
          [return : Int, trend : Int, random : Int,
           drawdown : Nat, trendDrawdown : Nat, trades : Nat]

\* ds is cs with the return of one cell raised.
Raised(cs, ds, n, i) ==
    /\ ds = [j \in 1..n |-> ds[j]]
    /\ \A j \in 1..n : j # i => ds[j] = cs[j]
    /\ ds[i].cell = cs[i].cell
    /\ ds[i].metrics.return \in Int
    /\ ds[i].metrics.return > cs[i].metrics.return
    /\ ds[i].metrics = [cs[i].metrics EXCEPT !.return = ds[i].metrics.return]

LEMMA LenOf ==
    ASSUME NEW n \in Nat, NEW cs, cs = [i \in 1..n |-> cs[i]]
    PROVE  DOMAIN cs = 1..n /\ Len(cs) = n
<1>1. cs \in [1..n -> {cs[i] : i \in 1..n}]
  OBVIOUS
<1>2. cs \in Seq({cs[i] : i \in 1..n})
  BY <1>1, IsASeq
<1>3. DOMAIN cs = 1..n
  BY <1>1
<1>4. Len(cs) \in Nat /\ DOMAIN cs = 1..Len(cs)
  BY <1>2, LenProperties
<1> QED BY <1>3, <1>4

LEMMA RaisedFields ==
    ASSUME NEW n \in Nat, NEW cs, NEW ds, NEW i \in 1..n,
           IsJudged(cs, n), Raised(cs, ds, n, i)
    PROVE  /\ IsJudged(ds, n)
           /\ \A j \in 1..n : /\ ds[j].cell = cs[j].cell
                              /\ ds[j].metrics.return >= cs[j].metrics.return
                              /\ \A field \in {"trend", "random", "drawdown", "trendDrawdown",
                                               "trades"} :
                                    ds[j].metrics[field] = cs[j].metrics[field]
<1> DEFINE Kind == [return : Int, trend : Int, random : Int,
                    drawdown : Nat, trendDrawdown : Nat, trades : Nat]
<1>1. ds[i].metrics \in Kind
  BY DEF IsJudged, Raised
<1>2. \A j \in 1..n : ds[j].metrics \in Kind
  BY <1>1 DEF IsJudged, Raised
<1>3. IsJudged(ds, n)
  BY <1>2 DEF IsJudged, Raised
<1>4. ASSUME NEW j \in 1..n
      PROVE  /\ ds[j].cell = cs[j].cell
             /\ ds[j].metrics.return >= cs[j].metrics.return
             /\ \A field \in {"trend", "random", "drawdown", "trendDrawdown", "trades"} :
                    ds[j].metrics[field] = cs[j].metrics[field]
  <2>1. cs[j].metrics \in Kind
    BY DEF IsJudged
  <2>2. CASE j = i
    <3>1. PICK m \in Kind : m = cs[i].metrics
      BY <2>1, <2>2
    <3>2. PICK r \in Int : r = ds[i].metrics.return
      BY DEF Raised
    <3>3. r > m.return /\ ds[i].metrics = [m EXCEPT !.return = r]
      BY <3>1, <3>2 DEF Raised
    <3>4. \A field \in {"trend", "random", "drawdown", "trendDrawdown", "trades"} :
             ds[i].metrics[field] = m[field]
      BY <3>3
    <3>5. m.return \in Int /\ r >= m.return
      BY <3>3
    <3>6. ds[i].cell = cs[i].cell
      BY DEF Raised
    <3>7. /\ ds[j].metrics.return >= cs[j].metrics.return
          /\ ds[j].cell = cs[j].cell
      BY <2>2, <3>1, <3>2, <3>5, <3>6
    <3>8. \A field \in {"trend", "random", "drawdown", "trendDrawdown", "trades"} :
             ds[j].metrics[field] = cs[j].metrics[field]
      BY <2>2, <3>1, <3>4
    <3> QED BY <3>7, <3>8
  <2>3. CASE j # i
    <3>1. ds[j] = cs[j]
      BY <2>3 DEF Raised
    <3>2. cs[j].metrics.return \in Int
      BY <2>1
    <3> QED BY <3>1, <3>2
  <2> QED BY <2>2, <2>3
<1> QED BY <1>3, <1>4

LEMMA MediansMonotone ==
    ASSUME NEW n \in Nat, n # 0, NEW cs, NEW ds, NEW field,
           Len(cs) = n, Len(ds) = n,
           Field(cs, n, field) \in [1..n -> Int], Field(ds, n, field) \in [1..n -> Int],
           \A i \in 1..n : Field(cs, n, field)[i] <= Field(ds, n, field)[i]
    PROVE  /\ TwiceMedian(cs, field) \in Int /\ TwiceMedian(ds, field) \in Int
           /\ TwiceMedian(cs, field) <= TwiceMedian(ds, field)
<1>1. PICK v : v = Field(cs, n, field)
  OBVIOUS
<1>2. PICK w : w = Field(ds, n, field)
  OBVIOUS
<1>3. v \in [1..n -> Int] /\ w \in [1..n -> Int] /\ \A i \in 1..n : v[i] <= w[i]
  BY <1>1, <1>2
<1>4. PICK low \in 1..n : low = (n + 1) \div 2
  OBVIOUS
<1>5. PICK high \in 1..n : high = n \div 2 + 1
  OBVIOUS
<1>6. /\ Sorted(v, low) \in Int /\ Sorted(w, low) \in Int /\ Sorted(v, low) <= Sorted(w, low)
      /\ Sorted(v, high) \in Int /\ Sorted(w, high) \in Int /\ Sorted(v, high) <= Sorted(w, high)
  BY <1>3, Ranked, SortedMonotone
<1>7. TwiceMedian(cs, field) = Sorted(v, low) + Sorted(v, high)
  <2>1. v = [i \in 1..Len(cs) |-> cs[i].metrics[field]]
    BY <1>1 DEF Field
  <2>2. TwiceMedian(cs, field) =
           Sorted(v, (Len(cs) + 1) \div 2) + Sorted(v, Len(cs) \div 2 + 1)
    BY <2>1 DEF TwiceMedian
  <2>3. PICK a : a = (Len(cs) + 1) \div 2
    OBVIOUS
  <2>4. PICK b : b = Len(cs) \div 2 + 1
    OBVIOUS
  <2>5. TwiceMedian(cs, field) = Sorted(v, a) + Sorted(v, b)
    BY <2>2, <2>3, <2>4, Zenon
  <2>6. a = low /\ b = high
    BY <1>4, <1>5, <2>3, <2>4
  <2> QED BY <2>5, <2>6, Zenon
<1>8. TwiceMedian(ds, field) = Sorted(w, low) + Sorted(w, high)
  <2>1. w = [i \in 1..Len(ds) |-> ds[i].metrics[field]]
    BY <1>2 DEF Field
  <2>2. TwiceMedian(ds, field) =
           Sorted(w, (Len(ds) + 1) \div 2) + Sorted(w, Len(ds) \div 2 + 1)
    BY <2>1 DEF TwiceMedian
  <2>3. PICK a : a = (Len(ds) + 1) \div 2
    OBVIOUS
  <2>4. PICK b : b = Len(ds) \div 2 + 1
    OBVIOUS
  <2>5. TwiceMedian(ds, field) = Sorted(w, a) + Sorted(w, b)
    BY <2>2, <2>3, <2>4, Zenon
  <2>6. a = low /\ b = high
    BY <1>4, <1>5, <2>3, <2>4
  <2> QED BY <2>5, <2>6, Zenon
<1>9. PICK a \in Int, b \in Int : a = Sorted(v, low) /\ b = Sorted(v, high)
  BY <1>6
<1>10. PICK c \in Int, d \in Int : c = Sorted(w, low) /\ d = Sorted(w, high)
  BY <1>6
<1>11. a <= c /\ b <= d
  BY <1>6, <1>9, <1>10
<1>12. a + b \in Int /\ c + d \in Int /\ a + b <= c + d
  BY <1>11
<1>13. TwiceMedian(cs, field) = a + b /\ TwiceMedian(ds, field) = c + d
  BY <1>7, <1>8, <1>9, <1>10, Zenon
<1> QED BY <1>12, <1>13, Zenon

\* More cells pass: enough of them still do.
LEMMA EnoughMonotone ==
    ASSUME NEW n \in Nat, NEW S \in SUBSET (1..n), NEW T \in SUBSET (1..n),
           S \subseteq T, Enough(S)
    PROVE  Enough(T)
<1>1. /\ Cardinality(S) \in Nat /\ Cardinality(T) \in Nat
      /\ Cardinality(S) <= Cardinality(T)
  BY Counts
<1>2. RequiredPasses \in Nat
  BY MatrixAssumption
<1> QED BY <1>1, <1>2 DEF Enough

(***************************************************************************)
(* Whatever the protocol asks and whatever was measured, raising the       *)
(* return of one cell never turns an advance into anything else: the       *)
(* counts and the medians over all cells agree on that (assess_validation  *)
(* of contracts.py).                                                       *)
(***************************************************************************)
THEOREM GateNeverPunishes ==
    ASSUME NEW n \in Nat, NEW cs, NEW ds, NEW i \in 1..n,
           IsJudged(cs, n), Raised(cs, ds, n, i),
           Decision(cs) = "ADVANCE_TO_PHASE_7"
    PROVE  Decision(ds) = "ADVANCE_TO_PHASE_7"
<1> DEFINE Rest == {"trend", "random", "drawdown", "trendDrawdown", "trades"}
<1>1. /\ IsJudged(ds, n)
      /\ \A j \in 1..n : /\ ds[j].cell = cs[j].cell
                         /\ ds[j].metrics.return >= cs[j].metrics.return
                         /\ \A field \in Rest : ds[j].metrics[field] = cs[j].metrics[field]
  BY RaisedFields
<1>2. DOMAIN cs = 1..n /\ Len(cs) = n /\ DOMAIN ds = 1..n /\ Len(ds) = n
  BY <1>1, LenOf DEF IsJudged
<1>3. ~(~Complete(cs) \/ Total(cs) < MinTrades) /\ Passed(cs)
  BY DEF Decision
<1>4. Complete(ds)
  <2>1. {ds[j].cell : j \in 1..n} = {cs[j].cell : j \in 1..n}
    BY <1>1
  <2> QED BY <1>2, <1>3, <2>1 DEF Complete
<1>5. Total(ds) = Total(cs)
  <2>1. \A j \in 1..n : ds[j].metrics.trades = cs[j].metrics.trades
    BY <1>1
  <2>2. [j \in 1..n |-> ds[j].metrics.trades] = [j \in 1..n |-> cs[j].metrics.trades]
    BY <2>1
  <2> QED BY <1>2, <2>2 DEF Total
<1>6. ASSUME NEW j \in 1..n
      PROVE  /\ cs[j].metrics.return \in Int /\ ds[j].metrics.return \in Int
             /\ cs[j].metrics.trend \in Int /\ cs[j].metrics.random \in Int
             /\ ds[j].metrics.trend = cs[j].metrics.trend
             /\ ds[j].metrics.random = cs[j].metrics.random
             /\ cs[j].metrics.drawdown \in Int /\ cs[j].metrics.trendDrawdown \in Int
             /\ ds[j].metrics.return >= cs[j].metrics.return
  <2>1. ds[j].metrics["trend"] = cs[j].metrics["trend"] /\ ds[j].metrics["random"] = cs[j].metrics["random"]
    BY <1>1
  <2>2. ds[j].metrics.return >= cs[j].metrics.return
    BY <1>1
  <2> QED BY <1>1, <2>1, <2>2 DEF IsJudged
<1>7. /\ Enough({j \in 1..n : ds[j].metrics.return > 0})
      /\ Enough({j \in 1..n : ds[j].metrics.return > ds[j].metrics.trend})
      /\ Enough({j \in 1..n : ds[j].metrics.return > ds[j].metrics.random})
  <2>1. {j \in 1..n : cs[j].metrics.return > 0} \subseteq {j \in 1..n : ds[j].metrics.return > 0}
    BY <1>6
  <2>2. {j \in 1..n : cs[j].metrics.return > cs[j].metrics.trend}
          \subseteq {j \in 1..n : ds[j].metrics.return > ds[j].metrics.trend}
    BY <1>6
  <2>3. {j \in 1..n : cs[j].metrics.return > cs[j].metrics.random}
          \subseteq {j \in 1..n : ds[j].metrics.return > ds[j].metrics.random}
    BY <1>6
  <2>4. /\ Enough({j \in 1..n : cs[j].metrics.return > 0})
        /\ Enough({j \in 1..n : cs[j].metrics.return > cs[j].metrics.trend})
        /\ Enough({j \in 1..n : cs[j].metrics.return > cs[j].metrics.random})
    BY <1>2, <1>3 DEF Passed
  <2>5. \A S, T \in SUBSET (1..n) : S \subseteq T /\ Enough(S) => Enough(T)
    BY EnoughMonotone
  <2>6. Enough({j \in 1..n : ds[j].metrics.return > 0})
    BY <2>1, <2>4, <2>5
  <2>7. Enough({j \in 1..n : ds[j].metrics.return > ds[j].metrics.trend})
    BY <2>2, <2>4, <2>5
  <2>8. Enough({j \in 1..n : ds[j].metrics.return > ds[j].metrics.random})
    BY <2>3, <2>4, <2>5
  <2> QED BY <2>6, <2>7, <2>8
<1>8. ASSUME NEW field \in Rest PROVE TwiceMedian(ds, field) = TwiceMedian(cs, field)
  <2>1. [j \in 1..n |-> ds[j].metrics[field]] = [j \in 1..n |-> cs[j].metrics[field]]
    BY <1>1
  <2> QED BY <1>2, <2>1 DEF TwiceMedian
<1>9. /\ TwiceMedian(cs, "return") \in Int /\ TwiceMedian(ds, "return") \in Int
      /\ TwiceMedian(cs, "return") <= TwiceMedian(ds, "return")
      /\ TwiceMedian(cs, "trend") \in Int
  <2>1. n # 0
    OBVIOUS
  <2>2. Field(cs, n, "return") \in [1..n -> Int] /\ Field(ds, n, "return") \in [1..n -> Int]
    BY <1>6 DEF Field
  <2>3. \A j \in 1..n : Field(cs, n, "return")[j] <= Field(ds, n, "return")[j]
    BY <1>6 DEF Field
  <2>4. Field(cs, n, "trend") \in [1..n -> Int]
        /\ \A j \in 1..n : Field(cs, n, "trend")[j] <= Field(cs, n, "trend")[j]
    BY <1>6 DEF Field
  <2>5. TwiceMedian(cs, "trend") \in Int
    BY <1>2, <2>1, <2>4, MediansMonotone
  <2> QED BY <1>2, <2>1, <2>2, <2>3, <2>5, MediansMonotone
<1>10. TwiceMedian(ds, "return") > TwiceMedian(ds, "trend")
  <2>1. TwiceMedian(cs, "return") > TwiceMedian(cs, "trend")
    BY <1>3 DEF Passed
  <2>2. TwiceMedian(ds, "trend") = TwiceMedian(cs, "trend")
    BY <1>8
  <2> QED BY <1>9, <2>1, <2>2
<1>11. \/ TwiceMedian(ds, "drawdown") <= 2 * 20
       \/ 4 * TwiceMedian(ds, "drawdown") <= 5 * TwiceMedian(ds, "trendDrawdown")
  <2>1. /\ TwiceMedian(ds, "drawdown") = TwiceMedian(cs, "drawdown")
        /\ TwiceMedian(ds, "trendDrawdown") = TwiceMedian(cs, "trendDrawdown")
    BY <1>8
  <2> QED BY <1>3, <2>1 DEF Passed
<1>12. Passed(ds)
  BY <1>2, <1>7, <1>10, <1>11 DEF Passed
<1> QED BY <1>3, <1>4, <1>5, <1>12 DEF Decision
=============================================================================
