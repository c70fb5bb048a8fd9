----------------------------- MODULE VenueProofs -----------------------------
(***************************************************************************)
(* Proofs about a download: the order of rows, the verdict of a validator  *)
(* on them, what the client keeps of the pages of the venue, and what the  *)
(* resampler makes of a series.                                            *)
(***************************************************************************)
EXTENDS VenueProperties, SumLemmas

TotalOrder(S, R) ==
    /\ \A x, y \in S : <<x, y>> \in R \/ <<y, x>> \in R
    /\ \A x, y \in S : <<x, y>> \in R /\ <<y, x>> \in R => x = y
    /\ \A x, y, z \in S : <<x, y>> \in R /\ <<y, z>> \in R => <<x, z>> \in R

Rank(S, R, x) == Cardinality({y \in S : <<y, x>> \in R})

\* s runs through S, each member once, in the order R.
Enumerates(s, n, S, R) ==
    /\ s \in [1..n -> S]
    /\ \A x \in S : \E k \in 1..n : s[k] = x
    /\ \A j, k \in 1..n : <<s[j], s[k]>> \in R <=> j <= k

\* The rank of a member of a finite ordered set is its number, and each
\* number is the rank of one member.
LEMMA RankIsOneToOne ==
    ASSUME NEW S, IsFiniteSet(S), NEW R, TotalOrder(S, R)
    PROVE  /\ Cardinality(S) \in Nat
           /\ \A x \in S : Rank(S, R, x) \in 1..Cardinality(S)
           /\ \A x, y \in S : <<x, y>> \in R /\ x # y => Rank(S, R, x) < Rank(S, R, y)
           /\ \A k \in 1..Cardinality(S) : \E x \in S : Rank(S, R, x) = k
<1> DEFINE below(x) == {y \in S : <<y, x>> \in R}
           n == Cardinality(S)
<1>1. n \in Nat
  BY FS_CardinalityType
<1>2. ASSUME NEW x \in S
      PROVE  /\ IsFiniteSet(below(x)) /\ Cardinality(below(x)) \in 1..n
             /\ x \in below(x)
  <2>1. x \in below(x) /\ below(x) \in SUBSET S
    BY DEF TotalOrder
  <2>2. IsFiniteSet(below(x)) /\ Cardinality(below(x)) <= n
    BY <2>1, FS_Subset
  <2>3. Cardinality(below(x)) \in Nat /\ Cardinality(below(x)) # 0
    BY <2>1, <2>2, FS_CardinalityType, FS_EmptySet
  <2> QED BY <1>1, <2>1, <2>2, <2>3
<1>3. ASSUME NEW x \in S, NEW y \in S, <<x, y>> \in R, x # y
      PROVE  Cardinality(below(x)) < Cardinality(below(y))
  <2>1. below(x) \in SUBSET below(y)
    BY <1>3 DEF TotalOrder
  <2>2. y \notin below(x) /\ y \in below(y)
    BY <1>2, <1>3 DEF TotalOrder
  <2>3. Cardinality(below(x)) <= Cardinality(below(y))
        /\ Cardinality(below(x)) # Cardinality(below(y))
    <3>1. IsFiniteSet(below(y))
      BY <1>2
    <3>2. below(y) # below(x)
      BY <2>2
    <3> HIDE DEF below
    <3> QED BY <2>1, <3>1, <3>2, FS_Subset
  <2>4. Cardinality(below(x)) \in Nat /\ Cardinality(below(y)) \in Nat
    <3> HIDE DEF below, n
    <3> QED BY <1>1, <1>2
  <2> QED BY <2>3, <2>4
<1> DEFINE rank == [x \in S |-> Cardinality(below(x))]
<1>4. rank \in Injection(S, 1..n)
  <2>1. rank \in [S -> 1..n]
    BY <1>2
  <2>2. ASSUME NEW x \in S, NEW y \in S, rank[x] = rank[y] PROVE x = y
    <3>1. <<x, y>> \in R \/ <<y, x>> \in R
      BY DEF TotalOrder
    <3>2. rank[x] = Cardinality(below(x)) /\ rank[y] = Cardinality(below(y))
      OBVIOUS
    <3> HIDE DEF below, n, rank
    <3>3. Cardinality(below(x)) \in Int /\ Cardinality(below(y)) \in Int
      BY <1>1, <1>2
    <3>4. Cardinality(below(x)) = Cardinality(below(y))
      BY <2>2, <3>2
    <3>5. ~(Cardinality(below(x)) < Cardinality(below(y)))
          /\ ~(Cardinality(below(y)) < Cardinality(below(x)))
      BY <3>3, <3>4
    <3> QED BY <1>3, <3>1, <3>5
  <2> HIDE DEF rank
  <2> QED BY <2>1, <2>2 DEF Injection, IsInjective
<1>5. IsFiniteSet(1..n) /\ Cardinality(1..n) = n
  <2>1. IsFiniteSet(1..n) /\ Cardinality(1..n) = IF 1 > n THEN 0 ELSE n - 1 + 1
    BY <1>1, FS_Interval
  <2> QED BY <1>1, <2>1
<1>6. rank \in Surjection(S, 1..n)
  <2> HIDE DEF rank
  <2> QED BY <1>4, <1>5, FS_Injection
<1>7. \A k \in 1..n : \E x \in S : rank[x] = k
  <2> HIDE DEF rank
  <2> QED BY <1>6 DEF Surjection
<1> QED BY <1>1, <1>2, <1>3, <1>7 DEF Rank

\* Ranked enumerates the set in its order.
LEMMA RankedEnumerates ==
    ASSUME NEW S, IsFiniteSet(S), NEW R, TotalOrder(S, R)
    PROVE  /\ Cardinality(S) \in Nat
           /\ Enumerates(Ranked(S, R), Cardinality(S), S, R)
<1> DEFINE n == Cardinality(S)
           s == Ranked(S, R)
<1>1. /\ n \in Nat
      /\ \A x \in S : Rank(S, R, x) \in 1..n
      /\ \A x, y \in S : <<x, y>> \in R /\ x # y => Rank(S, R, x) < Rank(S, R, y)
      /\ \A k \in 1..n : \E x \in S : Rank(S, R, x) = k
  BY RankIsOneToOne
<1>2. s = [k \in 1..n |-> CHOOSE x \in S : Rank(S, R, x) = k]
  BY DEF Ranked, Rank
<1> HIDE DEF n, s
<1>3. \A k \in 1..n : s[k] \in S /\ Rank(S, R, s[k]) = k
  BY <1>1, <1>2
<1>4. s \in [1..n -> S]
  BY <1>2, <1>3
<1>5. ASSUME NEW x \in S PROVE \E k \in 1..n : s[k] = x
  <2>1. PICK k \in 1..n : k = Rank(S, R, x)
    BY <1>1
  <2>2. s[k] \in S /\ Rank(S, R, s[k]) = Rank(S, R, x)
    BY <1>3, <2>1
  <2>3. Rank(S, R, s[k]) \in Int /\ Rank(S, R, x) \in Int
    BY <1>1, <2>2
  <2>4. <<s[k], x>> \in R \/ <<x, s[k]>> \in R
    BY <2>2 DEF TotalOrder
  <2> QED BY <1>1, <2>2, <2>3, <2>4
<1>6. ASSUME NEW j \in 1..n, NEW k \in 1..n PROVE <<s[j], s[k]>> \in R <=> j <= k
  <2>1. s[j] \in S /\ s[k] \in S /\ Rank(S, R, s[j]) = j /\ Rank(S, R, s[k]) = k
    BY <1>3
  <2>2. <<s[j], s[k]>> \in R \/ <<s[k], s[j]>> \in R
    BY <2>1 DEF TotalOrder
  <2>3. j \in Int /\ k \in Int
    BY <1>1
  <2>4. CASE j = k
    BY <2>2, <2>4, <2>3
  <2>5. CASE j # k
    <3>1. s[j] # s[k]
      BY <2>1, <2>5
    <3>2. <<s[j], s[k]>> \in R => j < k
      BY <1>1, <2>1, <3>1
    <3>3. <<s[k], s[j]>> \in R => k < j
      BY <1>1, <2>1, <3>1
    <3> QED BY <2>2, <2>3, <2>5, <3>2, <3>3
  <2> QED BY <2>4, <2>5
<1>7. n \in Nat
  BY <1>1
<1> QED BY <1>4, <1>5, <1>6, <1>7 DEF Enumerates, n, s

\* Only one function does.
LEMMA RankedIsUnique ==
    ASSUME NEW S, IsFiniteSet(S), NEW R, TotalOrder(S, R),
           NEW n \in Nat, NEW s, Enumerates(s, n, S, R)
    PROVE  n = Cardinality(S) /\ s = Ranked(S, R)
<1>1. s \in [1..n -> S] /\ (\A x \in S : \E k \in 1..n : s[k] = x)
  BY DEF Enumerates
<1>2. ASSUME NEW j \in 1..n, NEW k \in 1..n, s[j] = s[k] PROVE j = k
  <2>1. <<s[j], s[k]>> \in R /\ <<s[k], s[j]>> \in R
    BY <1>1, <1>2 DEF TotalOrder
  <2>2. j <= k /\ k <= j
    BY <2>1 DEF Enumerates
  <2> QED BY <2>2
<1>3. ASSUME NEW k \in 1..n PROVE Rank(S, R, s[k]) = k
  <2> DEFINE below == {y \in S : <<y, s[k]>> \in R}
             t == [j \in 1..k |-> s[j]]
  <2>1. 1..k \subseteq 1..n /\ k \in Nat
    OBVIOUS
  <2>2. ASSUME NEW j \in 1..k PROVE t[j] \in below
    BY <1>1, <2>1 DEF Enumerates
  <2>3. t \in [1..k -> below]
    BY <2>2
  <2>4. ASSUME NEW i \in 1..k, NEW j \in 1..k, t[i] = t[j] PROVE i = j
    BY <1>2, <2>1, <2>4
  <2>5. ASSUME NEW y \in below PROVE \E j \in 1..k : t[j] = y
    <3>1. PICK j \in 1..n : s[j] = y
      BY <1>1
    <3>2. j <= k
      BY <3>1 DEF Enumerates
    <3> QED BY <3>1, <3>2
  <2>6. t \in Bijection(1..k, below)
    <3> HIDE DEF below, t
    <3>1. t \in Injection(1..k, below)
      BY <2>3, <2>4 DEF Injection, IsInjective
    <3>2. t \in Surjection(1..k, below)
      BY <2>3, <2>5 DEF Surjection
    <3> QED BY <3>1, <3>2 DEF Bijection
  <2>7. ExistsBijection(1..k, below)
    <3> HIDE DEF below, t
    <3> QED BY <2>6 DEF ExistsBijection
  <2>8. Cardinality(below) = k
    <3> HIDE DEF below, t
    <3> QED BY <2>1, <2>7, FS_CountingElements
  <2> QED BY <2>8 DEF Rank
<1>4. Cardinality(S) = n
  <2>1. s \in Injection(1..n, S)
    BY <1>1, <1>2 DEF Injection, IsInjective
  <2>2. s \in Surjection(1..n, S)
    BY <1>1 DEF Surjection
  <2>3. ExistsBijection(1..n, S)
    BY <2>1, <2>2 DEF ExistsBijection, Bijection
  <2> QED BY <2>3, FS_CountingElements
<1>5. ASSUME NEW k \in 1..n PROVE (CHOOSE x \in S : Rank(S, R, x) = k) = s[k]
  <2>1. s[k] \in S /\ Rank(S, R, s[k]) = k
    BY <1>1, <1>3
  <2>2. ASSUME NEW x \in S, Rank(S, R, x) = k PROVE x = s[k]
    <3>1. PICK j \in 1..n : s[j] = x
      BY <1>1
    <3>2. j = k
      BY <1>3, <2>2, <3>1
    <3> QED BY <3>1, <3>2
  <2> QED BY <2>1, <2>2
<1>6. Ranked(S, R) = [k \in 1..n |-> CHOOSE x \in S : Rank(S, R, x) = k]
  BY <1>4 DEF Ranked, Rank
<1>7. Ranked(S, R) = [k \in 1..n |-> s[k]]
  BY <1>5, <1>6
<1>8. s = [k \in 1..n |-> s[k]]
  BY <1>1
<1> QED BY <1>4, <1>7, <1>8

\* Integers in their order.
LEMMA AscendingSorted ==
    ASSUME NEW S \in SUBSET Int, IsFiniteSet(S)
    PROVE  /\ Cardinality(S) \in Nat
           /\ Ascending(S) \in [1..Cardinality(S) -> S]
           /\ \A x \in S : \E k \in 1..Cardinality(S) : Ascending(S)[k] = x
           /\ \A j, k \in 1..Cardinality(S) : j < k => Ascending(S)[j] < Ascending(S)[k]
<1> DEFINE R == {p \in S \X S : p[1] <= p[2]}
           n == Cardinality(S)
           s == Ascending(S)
<1>1. \A x, y \in S : <<x, y>> \in R <=> x <= y
  OBVIOUS
<1>2. s = Ranked(S, R)
  BY DEF Ascending
<1> HIDE DEF R, s, n
<1>3. TotalOrder(S, R)
  BY <1>1 DEF TotalOrder
<1>4. n \in Nat /\ Enumerates(s, n, S, R)
  BY <1>2, <1>3, RankedEnumerates DEF n
<1>5. ASSUME NEW j \in 1..n, NEW k \in 1..n, j < k PROVE s[j] < s[k]
  <2>1. s[j] \in S /\ s[k] \in S /\ (<<s[k], s[j]>> \in R <=> k <= j)
    BY <1>4 DEF Enumerates
  <2>2. ~(k <= j)
    BY <1>4, <1>5
  <2>3. ~(s[k] <= s[j])
    BY <1>1, <2>1, <2>2
  <2>4. s[j] \in Int /\ s[k] \in Int
    BY <2>1
  <2> QED BY <2>3, <2>4
<1> QED BY <1>4, <1>5 DEF Enumerates, n, s

LEMMA AscendingUnique ==
    ASSUME NEW S \in SUBSET Int, IsFiniteSet(S), NEW n \in Nat, NEW s \in [1..n -> S],
           \A x \in S : \E k \in 1..n : s[k] = x,
           \A j, k \in 1..n : j < k => s[j] < s[k]
    PROVE  n = Cardinality(S) /\ s = Ascending(S)
<1> DEFINE R == {p \in S \X S : p[1] <= p[2]}
<1>1. \A x, y \in S : <<x, y>> \in R <=> x <= y
  OBVIOUS
<1>2. Ascending(S) = Ranked(S, R)
  BY DEF Ascending
<1> HIDE DEF R
<1>3. TotalOrder(S, R)
  BY <1>1 DEF TotalOrder
<1>4. ASSUME NEW j \in 1..n, NEW k \in 1..n PROVE <<s[j], s[k]>> \in R <=> j <= k
  <2>1. s[j] \in S /\ s[k] \in S /\ j \in Int /\ k \in Int
    OBVIOUS
  <2>2. s[j] <= s[k] <=> j <= k
    <3>1. s[j] \in Int /\ s[k] \in Int
      BY <2>1
    <3>2. CASE j = k
      BY <3>1, <3>2, <2>1
    <3>3. CASE j < k
      BY <3>1, <3>3, <2>1
    <3>4. CASE k < j
      BY <3>1, <3>4, <2>1
    <3> QED BY <2>1, <3>2, <3>3, <3>4
  <2> QED BY <1>1, <2>1, <2>2
<1>5. Enumerates(s, n, S, R)
  BY <1>4 DEF Enumerates
<1> QED BY <1>2, <1>3, <1>5, RankedIsUnique

LEMMA DescendingMembers ==
    ASSUME NEW S \in SUBSET Int, IsFiniteSet(S)
    PROVE  /\ Cardinality(S) \in Nat
           /\ Descending(S) \in [1..Cardinality(S) -> S]
           /\ \A x \in S : \E k \in 1..Cardinality(S) : Descending(S)[k] = x
           /\ \A j, k \in 1..Cardinality(S) : j # k => Descending(S)[j] # Descending(S)[k]
<1> DEFINE R == {p \in S \X S : p[1] >= p[2]}
           n == Cardinality(S)
           s == Descending(S)
<1>1. \A x, y \in S : <<x, y>> \in R <=> x >= y
  OBVIOUS
<1>2. s = Ranked(S, R)
  BY DEF Descending
<1> HIDE DEF R, s, n
<1>3. TotalOrder(S, R)
  BY <1>1 DEF TotalOrder
<1>4. n \in Nat /\ Enumerates(s, n, S, R)
  BY <1>2, <1>3, RankedEnumerates DEF n
<1>5. ASSUME NEW j \in 1..n, NEW k \in 1..n, s[j] = s[k] PROVE j = k
  <2>1. s[j] \in S /\ (<<s[k], s[j]>> \in R <=> k <= j) /\ (<<s[j], s[k]>> \in R <=> j <= k)
    BY <1>4 DEF Enumerates
  <2>2. <<s[k], s[j]>> \in R /\ <<s[j], s[k]>> \in R
    BY <1>1, <1>5, <2>1
  <2> QED BY <1>4, <2>1, <2>2
<1> QED BY <1>4, <1>5 DEF Enumerates, n, s

\* Picked takes the items at the positions, each once, in their order.
Selects(order, m, s, P) ==
    /\ m \in Nat /\ order \in [1..m -> P]
    /\ Picked(s, P) = [k \in 1..m |-> s[order[k]]]
    /\ \A i \in P : \E k \in 1..m : order[k] = i
    /\ \A j, k \in 1..m : j < k => order[j] < order[k]

LEMMA PickedItems ==
    ASSUME NEW n \in Nat, NEW s, NEW P \in SUBSET (1..n)
    PROVE  Selects(Ascending(P), Cardinality(P), s, P)
<1>1. IsFiniteSet(P) /\ P \in SUBSET Int
  <2>1. IsFiniteSet(P)
    BY Counts
  <2>2. P \in SUBSET Int
    OBVIOUS
  <2> QED BY <2>1, <2>2
<1>2. /\ Cardinality(P) \in Nat
      /\ Ascending(P) \in [1..Cardinality(P) -> P]
      /\ \A x \in P : \E k \in 1..Cardinality(P) : Ascending(P)[k] = x
      /\ \A j, k \in 1..Cardinality(P) : j < k => Ascending(P)[j] < Ascending(P)[k]
  BY <1>1, AscendingSorted
<1>3. DOMAIN Ascending(P) = 1..Cardinality(P)
  BY <1>2
<1>4. Picked(s, P) = [k \in 1..Cardinality(P) |-> s[Ascending(P)[k]]]
  BY <1>3 DEF Picked
<1> QED BY <1>2, <1>4 DEF Selects

\* Sorted permutes the items into the order of their keys.
Permutes(order, n, s, keys) ==
    /\ order \in [1..n -> 1..n]
    /\ Sorted(s, keys) = [k \in 1..n |-> s[order[k]]]
    /\ \A i \in 1..n : \E k \in 1..n : order[k] = i
    /\ \A j, k \in 1..n : j # k => order[j] # order[k]
    /\ \A j, k \in 1..n : j < k => keys[order[j]] <= keys[order[k]]

LEMMA SortedItems ==
    ASSUME NEW n \in Nat, NEW s, NEW keys \in [1..n -> Int]
    PROVE  Permutes(Sorting(keys), n, s, keys)
<1> DEFINE S == 1..n
           R == {p \in S \X S : \/ keys[p[1]] < keys[p[2]]
                                \/ keys[p[1]] = keys[p[2]] /\ p[1] <= p[2]}
           o == Sorting(keys)
<1>1. \A x, y \in S : <<x, y>> \in R <=> \/ keys[x] < keys[y]
                                         \/ keys[x] = keys[y] /\ x <= y
  OBVIOUS
<1>2. o = Ranked(S, R)
  BY DEF Sorting
<1>3. IsFiniteSet(S) /\ Cardinality(S) = n
  <2>1. IsFiniteSet(1..n) /\ Cardinality(1..n) = IF 1 > n THEN 0 ELSE n - 1 + 1
    BY FS_Interval
  <2> QED BY <2>1
<1>4. \A x \in S : keys[x] \in Int /\ x \in Int
  OBVIOUS
<1>5. Sorted(s, keys) = [k \in DOMAIN o |-> s[o[k]]]
  BY DEF Sorted
<1> HIDE DEF S, R, o
<1>6. TotalOrder(S, R)
  <2>1. ASSUME NEW x \in S, NEW y \in S
        PROVE  /\ <<x, y>> \in R \/ <<y, x>> \in R
               /\ <<x, y>> \in R /\ <<y, x>> \in R => x = y
    <3>1. /\ <<x, y>> \in R <=> \/ keys[x] < keys[y]
                                \/ keys[x] = keys[y] /\ x <= y
          /\ <<y, x>> \in R <=> \/ keys[y] < keys[x]
                                \/ keys[y] = keys[x] /\ y <= x
      BY <1>1
    <3>2. keys[x] \in Int /\ keys[y] \in Int /\ x \in Int /\ y \in Int
      BY <1>4
    <3> QED BY <3>1, <3>2
  <2>2. ASSUME NEW x \in S, NEW y \in S, NEW z \in S, <<x, y>> \in R, <<y, z>> \in R
        PROVE  <<x, z>> \in R
    <3>1. /\ \/ keys[x] < keys[y]
             \/ keys[x] = keys[y] /\ x <= y
          /\ \/ keys[y] < keys[z]
             \/ keys[y] = keys[z] /\ y <= z
      BY <1>1, <2>2
    <3>2. /\ keys[x] \in Int /\ keys[y] \in Int /\ keys[z] \in Int
          /\ x \in Int /\ y \in Int /\ z \in Int
      BY <1>4
    <3>3. \/ keys[x] < keys[z]
          \/ keys[x] = keys[z] /\ x <= z
      BY <3>1, <3>2
    <3> QED BY <1>1, <3>3
  <2> QED BY <2>1, <2>2 DEF TotalOrder
<1>7. Enumerates(o, n, S, R)
  BY <1>2, <1>3, <1>6, RankedEnumerates
<1>8. ASSUME NEW j \in 1..n, NEW k \in 1..n
      PROVE  o[j] = o[k] => j = k
  <2>1. o[j] \in S /\ o[k] \in S
        /\ (<<o[k], o[j]>> \in R <=> k <= j) /\ (<<o[j], o[k]>> \in R <=> j <= k)
    BY <1>7 DEF Enumerates
  <2>2. o[j] = o[k] => <<o[k], o[j]>> \in R /\ <<o[j], o[k]>> \in R
    BY <1>1, <1>4, <2>1
  <2> QED BY <2>1, <2>2
<1>9. ASSUME NEW j \in 1..n, NEW k \in 1..n, j < k PROVE keys[o[j]] <= keys[o[k]]
  <2>1. o[j] \in S /\ o[k] \in S /\ (<<o[j], o[k]>> \in R <=> j <= k)
    BY <1>7 DEF Enumerates
  <2>2. <<o[j], o[k]>> \in R
    BY <1>9, <2>1
  <2>3. keys[o[j]] \in Int /\ keys[o[k]] \in Int
    BY <1>4, <2>1
  <2>4. keys[o[j]] < keys[o[k]] \/ keys[o[j]] = keys[o[k]]
    BY <1>1, <2>1, <2>2
  <2> QED BY <2>3, <2>4
<1>10. o \in [1..n -> 1..n] /\ \A i \in 1..n : \E k \in 1..n : o[k] = i
  BY <1>7 DEF Enumerates, S
<1>11. Sorted(s, keys) = [k \in 1..n |-> s[o[k]]]
  BY <1>5, <1>10
<1> QED BY <1>8, <1>9, <1>10, <1>11 DEF Permutes, o

(***************************************************************************)
(* Multiples of a timeframe.                                               *)
(***************************************************************************)
LEMMA Quotient ==
    ASSUME NEW p \in Nat \ {0}, NEW a \in Int
    PROVE  /\ a \div p \in Int /\ a % p \in Int
           /\ a = (a \div p) * p + (a % p)
           /\ 0 <= a % p /\ a % p < p
<1>1. a \div p \in Int /\ a % p \in Int
  OBVIOUS
<1>2. a = p * (a \div p) + (a % p)
  BY Z3
<1>3. 0 <= a % p
  BY Z3
<1>4. a % p < p
  BY Z3
<1>5. p * (a \div p) = (a \div p) * p
  BY <1>1
<1> QED BY <1>1, <1>2, <1>3, <1>4, <1>5

LEMMA Multiple ==
    ASSUME NEW p \in Nat \ {0}, NEW a \in Int
    PROVE  a % p = 0 <=> \E q \in Int : a = q * p
<1>1. ASSUME a % p = 0 PROVE \E q \in Int : a = q * p
  BY <1>1
<1>2. ASSUME NEW q \in Int, a = q * p PROVE a % p = 0
  BY <1>2
<1> QED BY <1>1, <1>2

LEMMA NextMultiple ==
    ASSUME NEW p \in Nat \ {0}, NEW a \in Int, a % p = 0
    PROVE  (a + p) % p = 0
<1>1. PICK q \in Int : a = q * p
  BY Multiple
<1>2. PICK b \in Int, r \in Int : b = a + p /\ r = q + 1
  OBVIOUS
<1>3. b = r * p
  BY <1>1, <1>2
<1>4. b % p = 0
  BY <1>3, Multiple
<1> QED BY <1>2, <1>4

LEMMA Squeezed ==
    ASSUME NEW p \in Nat \ {0}, NEW q \in Int, NEW r \in Int,
           q * p <= r * p, r * p < q * p + p
    PROVE  q = r
OBVIOUS

LEMMA Regrouped ==
    ASSUME NEW p \in Int, NEW q \in Int, NEW r \in Int
    PROVE  q * (r * p) = (q * r) * p
OBVIOUS

LEMMA OneMultiple ==
    ASSUME NEW p \in Nat \ {0}, NEW a \in Int, NEW b \in Int,
           a % p = 0, b % p = 0, a <= b, b < a + p
    PROVE  a = b
<1>1. PICK q \in Int : a = q * p
  BY Multiple
<1>2. PICK r \in Int : b = r * p
  BY Multiple
<1>3. q * p <= r * p /\ r * p < q * p + p
  BY <1>1, <1>2
<1>4. q = r
  BY <1>3, Squeezed
<1> QED BY <1>1, <1>2, <1>4

LEMMA MultipleOfMultiple ==
    ASSUME NEW p \in Nat \ {0}, NEW s \in Nat \ {0}, p % s = 0,
           NEW a \in Int, a % p = 0
    PROVE  a % s = 0
<1>1. PICK q \in Int : a = q * p
  BY Multiple
<1>2. PICK r \in Int : p = r * s
  <2>1. p \in Int /\ (p % s = 0 => \E r \in Int : p = r * s)
    BY Multiple
  <2> QED BY <2>1
<1>3. q * (r * s) = (q * r) * s
  BY Regrouped
<1>4. a = (q * r) * s /\ q * r \in Int
  BY <1>1, <1>2, <1>3
<1> QED BY <1>4, Multiple

LEMMA DifferenceOfMultiples ==
    ASSUME NEW s \in Nat \ {0}, NEW a \in Int, a % s = 0, NEW b \in Int, b % s = 0
    PROVE  (a - b) % s = 0
<1>1. PICK q \in Int : a = q * s
  BY Multiple
<1>2. PICK r \in Int : b = r * s
  BY Multiple
<1>3. a - b = (q - r) * s
  BY <1>1, <1>2
<1> QED BY <1>3, Multiple

LEMMA FloorMultiple ==
    ASSUME NEW p \in Nat \ {0}, NEW a \in Int
    PROVE  /\ (a \div p) * p \in Int /\ ((a \div p) * p) % p = 0
           /\ (a \div p) * p <= a /\ a < (a \div p) * p + p
<1>1. PICK q \in Int, r \in Int : q = a \div p /\ a = q * p + r /\ 0 <= r /\ r < p
  BY Quotient
<1>2. PICK m \in Int : m = q * p
  BY <1>1
<1>3. m <= a /\ a < m + p
  BY <1>1, <1>2
<1>4. m % p = 0
  BY <1>2, Multiple
<1> QED BY <1>1, <1>2, <1>3, <1>4

(***************************************************************************)
(* The grid of a window, and times that run through it.                    *)
(***************************************************************************)
Grid(p, start, end) == {t \in start..(end - 1) : t % p = 0}
Stamps(batch) == [i \in DOMAIN batch |-> batch[i].at]

\* first and last bound the grid, and are on it if anything is.
Bounds(p, start, end, first, last) ==
    /\ first \in Int /\ last \in Int /\ first % p = 0 /\ last % p = 0
    /\ \A t \in Int : t % p = 0 => (start <= t /\ t < end <=> first <= t /\ t <= last)

Chain(at, n, p) == \A i \in 2..n : at[i] = at[i - 1] + p

LEMMA GridBounds ==
    ASSUME NEW p \in Nat \ {0}, NEW start \in Int, NEW end \in Int,
           NEW first, NEW last, Bounds(p, start, end, first, last)
    PROVE  \A t \in Int : t \in Grid(p, start, end) <=> t % p = 0 /\ first <= t /\ t <= last
<1> SUFFICES ASSUME NEW t \in Int
             PROVE  t \in Grid(p, start, end) <=> t % p = 0 /\ first <= t /\ t <= last
  OBVIOUS
<1>1. t \in start..(end - 1) <=> start <= t /\ t < end
  OBVIOUS
<1>2. t % p = 0 => (start <= t /\ t < end <=> first <= t /\ t <= last)
  BY DEF Bounds
<1> QED BY <1>1, <1>2 DEF Grid

\* In a chain times grow.
LEMMA ChainGrows ==
    ASSUME NEW p \in Nat \ {0}, NEW n \in Nat, NEW at \in [1..n -> Int], Chain(at, n, p)
    PROVE  \A j, k \in 1..n : j < k => at[j] < at[k]
<1> DEFINE Bad == {k \in 1..n : \E j \in 1..n : j < k /\ ~(at[j] < at[k])}
<1> SUFFICES ASSUME Bad # {} PROVE FALSE
  OBVIOUS
<1>1. PICK k \in Bad : \A m \in Bad : k <= m
  <2>1. Bad \in SUBSET Nat
    OBVIOUS
  <2> HIDE DEF Bad
  <2> QED BY <2>1, LeastNatural
<1>2. PICK j \in 1..n : j < k /\ ~(at[j] < at[k])
  OBVIOUS
<1>3. k \in 2..n /\ k - 1 \in 1..n
  BY <1>2
<1>4. at[k] = at[k - 1] + p /\ at[k - 1] \in Int
  BY <1>3 DEF Chain
<1>5. j # k - 1
  <2>1. at[k - 1] < at[k]
    <3>1. PICK a \in Int : a = at[k - 1]
      BY <1>4
    <3>2. a < a + p
      OBVIOUS
    <3> QED BY <1>4, <3>1, <3>2
  <2> QED BY <1>2, <2>1
<1>6. j < k - 1 /\ ~(at[j] < at[k - 1])
  <2>1. j < k - 1
    BY <1>2, <1>3, <1>5
  <2>2. at[j] \in Int
    OBVIOUS
  <2> QED BY <1>2, <1>4, <2>1, <2>2
<1>7. k - 1 \in Bad
  BY <1>3, <1>6
<1>8. k <= k - 1 /\ k \in Int
  BY <1>1, <1>3, <1>7
<1> QED BY <1>8

\* A chain from the first to the last time of the grid is the grid.
LEMMA ChainIsGrid ==
    ASSUME NEW p \in Nat \ {0}, NEW start \in Int, NEW end \in Int,
           NEW first, NEW last, Bounds(p, start, end, first, last),
           NEW n \in Nat \ {0}, NEW at \in [1..n -> Int],
           Chain(at, n, p), at[1] = first, at[n] = last,
           \A i \in 1..n : at[i] % p = 0
    PROVE  at = Ascending(Grid(p, start, end)) /\ Grid(p, start, end) # {}
<1> DEFINE G == Grid(p, start, end)
<1>1. \A j, k \in 1..n : j < k => at[j] < at[k]
  BY ChainGrows
<1>2. \A t \in Int : t \in G <=> t % p = 0 /\ first <= t /\ t <= last
  BY GridBounds
<1>3. G \in SUBSET Int /\ IsFiniteSet(G)
  <2>1. IsFiniteSet(start..(end - 1))
    BY FS_Interval
  <2>2. G \in SUBSET (start..(end - 1))
    BY DEF Grid
  <2> QED BY <2>1, <2>2, FS_Subset
<1> HIDE DEF G
<1>4. ASSUME NEW i \in 1..n PROVE at[i] \in G
  <2>1. first <= at[i] /\ at[i] <= last
    <3>1. i = 1 \/ 1 < i
      OBVIOUS
    <3>2. i = n \/ i < n
      OBVIOUS
    <3>3. at[1] <= at[i]
      BY <1>1, <3>1
    <3>4. at[i] <= at[n]
      BY <1>1, <3>2
    <3> QED BY <3>3, <3>4
  <2> QED BY <1>2, <2>1
<1>5. ASSUME NEW t \in G PROVE \E k \in 1..n : at[k] = t
  <2>0. t \in Int /\ t % p = 0 /\ first <= t /\ t <= last
    BY <1>2, <1>3
  <2> DEFINE Above == {j \in 1..n : t < at[j]}
  <2>1. CASE Above = {}
    <3>1. n \in 1..n /\ ~(t < at[n]) /\ at[n] \in Int
      BY <2>1
    <3> QED BY <2>0, <3>1
  <2>2. CASE Above # {}
    <3>1. PICK j \in Above : \A m \in Above : j <= m
      <4>1. Above \in SUBSET Nat
        OBVIOUS
      <4> HIDE DEF Above
      <4> QED BY <2>2, <4>1, LeastNatural
    <3>2. j \in 1..n /\ t < at[j]
      OBVIOUS
    <3>3. j # 1
      BY <2>0, <3>2
    <3>4. j \in 2..n /\ j - 1 \in 1..n /\ j - 1 \notin Above
      BY <3>1, <3>2, <3>3
    <3>5. at[j - 1] <= t /\ at[j - 1] \in Int /\ at[j] = at[j - 1] + p
      BY <2>0, <3>4 DEF Chain
    <3>6. PICK a \in Int : a = at[j - 1] /\ a % p = 0
      BY <3>4, <3>5
    <3>7. a <= t /\ t < a + p
      BY <3>2, <3>5, <3>6
    <3>8. a = t
      BY <2>0, <3>6, <3>7, OneMultiple
    <3> QED BY <3>4, <3>6, <3>8
  <2> QED BY <2>1, <2>2
<1>6. at = Ascending(G)
  <2>1. at \in [1..n -> G]
    BY <1>4
  <2> QED BY <1>1, <1>3, <1>5, <2>1, AscendingUnique
<1>7. 1 \in 1..n
  OBVIOUS
<1> QED BY <1>4, <1>6, <1>7 DEF G

\* The grid in its order is a chain, from the first to the last time.
LEMMA GridIsChain ==
    ASSUME NEW p \in Nat \ {0}, NEW start \in Int, NEW end \in Int,
           NEW first, NEW last, Bounds(p, start, end, first, last),
           Grid(p, start, end) # {},
           NEW n \in Nat, NEW at, at = Ascending(Grid(p, start, end)), DOMAIN at = 1..n
    PROVE  /\ n # 0 /\ at[1] = first /\ at[n] = last /\ Chain(at, n, p)
           /\ \A i \in 1..n : at[i] \in Grid(p, start, end)
           /\ \A j, k \in 1..n : at[j] = at[k] => j = k
<1> DEFINE G == Grid(p, start, end)
           m == Cardinality(G)
<1>1. \A t \in Int : t \in G <=> t % p = 0 /\ first <= t /\ t <= last
  BY GridBounds
<1>2. G \in SUBSET Int /\ IsFiniteSet(G) /\ \A t \in G : t \in Int /\ t % p = 0
  <2>1. IsFiniteSet(start..(end - 1))
    BY FS_Interval
  <2>2. G \in SUBSET (start..(end - 1))
    BY DEF Grid
  <2>3. \A t \in G : t \in Int /\ t % p = 0
    BY DEF Grid
  <2> QED BY <2>1, <2>2, <2>3, FS_Subset
<1>3. first \in Int /\ last \in Int /\ first % p = 0 /\ last % p = 0
  BY DEF Bounds
<1>4. G # {} /\ at = Ascending(G)
  OBVIOUS
<1> HIDE DEF G
<1>5. /\ m \in Nat /\ at \in [1..m -> G]
      /\ \A x \in G : \E k \in 1..m : at[k] = x
      /\ \A j, k \in 1..m : j < k => at[j] < at[k]
  BY <1>2, <1>4, AscendingSorted
<1> HIDE DEF m
<1>6. 1..m = 1..n
  BY <1>5
<1>7. /\ \A i \in 1..n : at[i] \in G /\ at[i] \in Int /\ at[i] % p = 0
      /\ \A i \in 1..n : first <= at[i] /\ at[i] <= last
      /\ \A x \in G : \E k \in 1..n : at[k] = x
      /\ \A j, k \in 1..n : j < k => at[j] < at[k]
  BY <1>1, <1>2, <1>5, <1>6
<1>8. n # 0
  BY <1>4, <1>7
<1>9. first \in G /\ last \in G
  <2>1. PICK t \in G : TRUE
    BY <1>4
  <2>2. first <= last
    BY <1>1, <1>2, <1>3
  <2> QED BY <1>1, <1>3, <2>2
<1>10. at[1] = first
  <2>1. PICK k \in 1..n : at[k] = first
    BY <1>7, <1>9
  <2>2. 1 \in 1..n /\ (k = 1 \/ 1 < k)
    BY <1>8
  <2>3. at[1] <= first
    BY <1>7, <2>1, <2>2
  <2> QED BY <1>3, <1>7, <2>2, <2>3
<1>11. at[n] = last
  <2>1. PICK k \in 1..n : at[k] = last
    BY <1>7, <1>9
  <2>2. n \in 1..n /\ (k = n \/ k < n)
    BY <1>8
  <2>3. last <= at[n]
    BY <1>7, <2>1, <2>2
  <2> QED BY <1>3, <1>7, <2>2, <2>3
<1>12. ASSUME NEW i \in 2..n PROVE at[i] = at[i - 1] + p
  <2>1. i \in 1..n /\ i - 1 \in 1..n /\ i - 1 < i
    OBVIOUS
  <2>2. PICK a \in Int, b \in Int : a = at[i - 1] /\ b = at[i]
    BY <1>7, <2>1
  <2>3. a % p = 0 /\ b % p = 0 /\ a < b /\ first <= a /\ b <= last
    BY <1>7, <2>1, <2>2
  <2>4. a + p <= b
    <3>1. b < a + p => a = b
      BY <2>3, OneMultiple
    <3> QED BY <2>3, <3>1
  <2>5. a + p \in G
    <3>1. (a + p) % p = 0
      BY <2>3, NextMultiple
    <3> QED BY <1>1, <1>3, <2>3, <2>4, <3>1
  <2>6. PICK k \in 1..n : at[k] = a + p
    BY <1>7, <2>5
  <2>7. ~(k < i - 1) /\ k # i - 1
    <3>1. k < i - 1 => at[k] < at[i - 1]
      BY <1>7, <2>1
    <3> QED BY <2>2, <2>6, <3>1
  <2>8. k = i \/ i < k
    BY <2>7
  <2>9. b <= a + p
    <3>1. i < k => at[i] < at[k]
      BY <1>7, <2>1
    <3> QED BY <2>2, <2>6, <2>8, <3>1
  <2> QED BY <2>2, <2>4, <2>9
<1>13. ASSUME NEW j \in 1..n, NEW k \in 1..n, at[j] = at[k] PROVE j = k
  <2>1. j < k => at[j] < at[k]
    BY <1>7
  <2>2. k < j => at[k] < at[j]
    BY <1>7
  <2>3. at[j] \in Int
    BY <1>7
  <2> QED BY <1>13, <2>1, <2>2, <2>3
<1> QED BY <1>7, <1>8, <1>10, <1>11, <1>12, <1>13 DEF Chain, G

LEMMA BarBounds ==
    ASSUME NEW p \in Nat \ {0}, NEW start \in Int, NEW end \in Int,
           start < end, start % p = 0, end % p = 0
    PROVE  Bounds(p, start, end, start, end - p) /\ Grid(p, start, end) # {}
<1>1. (end - p) % p = 0 /\ end - p \in Int
  <2>1. p % p = 0 /\ p \in Int
    <3>1. p = 1 * p
      OBVIOUS
    <3> QED BY <3>1, Multiple
  <2>2. (end - p) % p = 0
    BY <2>1, DifferenceOfMultiples
  <2> QED BY <2>1, <2>2
<1>2. ASSUME NEW t \in Int, t % p = 0, t < end PROVE t <= end - p
  <2>1. PICK a \in Int : a = end - p
    OBVIOUS
  <2>2. a <= t /\ t < a + p => a = t
    BY <1>1, <1>2, <2>1, OneMultiple
  <2> QED BY <1>2, <2>1, <2>2
<1>3. Bounds(p, start, end, start, end - p)
  <2>1. ASSUME NEW t \in Int, t % p = 0
        PROVE  start <= t /\ t < end <=> start <= t /\ t <= end - p
    <3>1. t < end <=> t <= end - p
      <4>1. t <= end - p => t < end
        OBVIOUS
      <4> QED BY <1>2, <2>1, <4>1
    <3> QED BY <3>1
  <2> QED BY <1>1, <2>1 DEF Bounds
<1>4. start \in Grid(p, start, end)
  BY DEF Grid
<1> QED BY <1>3, <1>4

\* The validator's first and last settlement, when the window's ends are
\* whole seconds.
LEMMA RateBounds ==
    ASSUME NEW p \in Nat \ {0}, p % Second = 0, NEW start \in Int, NEW end \in Int,
           start % Second = 0, end % Second = 0
    PROVE  Bounds(p, start, end,
                  ((Whole(start) + p - Second) \div p) * p,
                  ((Whole(end) - Second) \div p) * p)
<1> DEFINE first == ((Whole(start) + p - Second) \div p) * p
           last == ((Whole(end) - Second) \div p) * p
<1>0. Second \in Nat \ {0}
  BY SecondAssumption
<1>1. Whole(start) = start /\ Whole(end) = end
  BY DEF Whole
<1>2. PICK a \in Int : a = start + p - Second
  BY <1>0
<1>3. PICK b \in Int : b = end - Second
  BY <1>0
<1>4. first = (a \div p) * p /\ last = (b \div p) * p
  BY <1>1, <1>2, <1>3
<1> HIDE DEF first, last
<1>5. /\ first \in Int /\ first % p = 0 /\ first <= a /\ a < first + p
      /\ last \in Int /\ last % p = 0 /\ last <= b /\ b < last + p
  BY <1>4, FloorMultiple
<1>6. Second % Second = 0
  <2>1. Second = 1 * Second
    BY <1>0
  <2> QED BY <1>0, <2>1, Multiple
<1>7. start - Second \in Int /\ (start - Second) % Second = 0 /\ b % Second = 0
  <2>1. Second \in Int /\ start - Second \in Int /\ b = end - Second
    BY <1>0, <1>3
  <2>2. (start - Second) % Second = 0
    BY <1>0, <1>6, <2>1, DifferenceOfMultiples
  <2>3. (end - Second) % Second = 0
    BY <1>0, <1>6, <2>1, DifferenceOfMultiples
  <2> QED BY <2>1, <2>2, <2>3
<1>8. start <= first
  <2>1. first % Second = 0
    BY <1>0, <1>5, MultipleOfMultiple
  <2>2. PICK c \in Int : c = start - Second
    BY <1>7
  <2>3. c <= first /\ first < c + Second => c = first
    BY <1>0, <1>5, <1>7, <2>1, <2>2, OneMultiple
  <2>4. c < first
    BY <1>0, <1>2, <1>5, <2>2
  <2> QED BY <1>0, <1>5, <2>2, <2>3, <2>4
<1>9. ASSUME NEW t \in Int, t % p = 0, start <= t PROVE first <= t
  <2>1. t <= first /\ first < t + p => t = first
    BY <1>5, <1>9, OneMultiple
  <2>2. first < t + p
    BY <1>0, <1>2, <1>5, <1>9
  <2> QED BY <1>5, <2>1, <2>2
<1>10. ASSUME NEW t \in Int, t % p = 0, t < end PROVE t <= last
  <2>1. t % Second = 0
    BY <1>0, <1>10, MultipleOfMultiple
  <2>2. b <= t /\ t < b + Second => b = t
    BY <1>0, <1>7, <2>1, OneMultiple
  <2>3. t <= b
    BY <1>0, <1>3, <1>10, <2>2
  <2>4. last <= t /\ t < last + p => last = t
    BY <1>5, <1>10, OneMultiple
  <2>5. t < last + p
    BY <1>5, <2>3
  <2> QED BY <1>5, <2>4, <2>5
<1>11. last < end
  BY <1>0, <1>3, <1>5
<1>12. ASSUME NEW t \in Int, t % p = 0
       PROVE  start <= t /\ t < end <=> first <= t /\ t <= last
  <2>1. first <= t => start <= t
    BY <1>5, <1>8
  <2>2. t <= last => t < end
    BY <1>5, <1>11
  <2> QED BY <1>9, <1>10, <1>12, <2>1, <2>2
<1> QED BY <1>5, <1>12 DEF Bounds, first, last

(***************************************************************************)
(* The validators, of any rows.                                            *)
(***************************************************************************)
LEMMA RowsOfSeries ==
    ASSUME NEW X, NEW batch \in Seq(X), \A i \in DOMAIN batch : batch[i].at \in Int
    PROVE  /\ Len(batch) \in Nat /\ DOMAIN batch = 1..Len(batch)
           /\ batch # << >> <=> Len(batch) # 0
           /\ Stamps(batch) \in [1..Len(batch) -> Int]
           /\ \A i \in 1..Len(batch) : Stamps(batch)[i] = batch[i].at
           /\ Len(batch) # 0 => Head(batch) = batch[1] /\ Last(batch) = batch[Len(batch)]
           /\ Times(batch) = {Stamps(batch)[i] : i \in 1..Len(batch)}
<1>1. Len(batch) \in Nat /\ DOMAIN batch = 1..Len(batch)
  OBVIOUS
<1>2. batch # << >> <=> Len(batch) # 0
  OBVIOUS
<1>3. /\ Stamps(batch) \in [1..Len(batch) -> Int]
      /\ \A i \in 1..Len(batch) : Stamps(batch)[i] = batch[i].at
  BY <1>1 DEF Stamps
<1>4. Len(batch) # 0 => Head(batch) = batch[1]
  BY <1>2
<1>5. Last(batch) = batch[Len(batch)]
  BY DEF Last
<1>6. Times(batch) = {Stamps(batch)[i] : i \in 1..Len(batch)}
  BY <1>1, <1>3 DEF Times
<1> QED BY <1>1, <1>2, <1>3, <1>4, <1>5, <1>6

LEMMA DistinctStamps ==
    ASSUME NEW n \in Nat, NEW at, DOMAIN at = 1..n,
           \A j, k \in 1..n : at[j] = at[k] => j = k
    PROVE  Cardinality({at[i] : i \in 1..n}) = n
<1> DEFINE S == {at[i] : i \in 1..n}
           f == [i \in 1..n |-> at[i]]
<1>1. f \in Injection(1..n, S)
  BY DEF Injection, IsInjective
<1>2. f \in Surjection(1..n, S)
  BY DEF Surjection
<1>3. ExistsBijection(1..n, S)
  <2> HIDE DEF f, S
  <2> QED BY <1>1, <1>2 DEF ExistsBijection, Bijection
<1> HIDE DEF S
<1>4. Cardinality(S) = n
  BY <1>3, FS_CountingElements
<1> QED BY <1>4 DEF S

LEMMA ChainOfRows ==
    ASSUME NEW X, NEW batch \in Seq(X), \A i \in DOMAIN batch : batch[i].at \in Int,
           NEW p \in Int
    PROVE  Continuous(batch, p) <=> Chain(Stamps(batch), Len(batch), p)
<1>1. \A i \in 1..Len(batch) : Stamps(batch)[i] = batch[i].at
  BY RowsOfSeries
<1>2. ASSUME NEW i \in 2..Len(batch)
      PROVE  Stamps(batch)[i] = batch[i].at /\ Stamps(batch)[i - 1] = batch[i - 1].at
  <2>1. i \in 1..Len(batch) /\ i - 1 \in 1..Len(batch)
    OBVIOUS
  <2> QED BY <1>1, <2>1
<1> QED BY <1>2 DEF Continuous, Chain

\* A batch of candles is valid when its times are the window's grid, each
\* once and in order, the window is aligned, and every row is sound and
\* closed.
LEMMA CandleVerdict ==
    ASSUME NEW p \in Nat \ {0}, NEW start \in Int, NEW end \in Int, start < end,
           NEW asOf \in Int, NEW X, NEW batch \in Seq(X),
           \A i \in DOMAIN batch : batch[i].at \in Int
    PROVE  ValidCandles(batch, p, start, end, asOf) <=>
              /\ Grid(p, start, end) # {}
              /\ start % p = 0 /\ end % p = 0
              /\ Stamps(batch) = Ascending(Grid(p, start, end))
              /\ \A i \in DOMAIN batch : SoundPrices(batch[i]) /\ SoundAmounts(batch[i])
              /\ \A i \in DOMAIN batch : batch[i].at + p <= asOf
<1> DEFINE n == Len(batch)
           at == Stamps(batch)
           G == Grid(p, start, end)
<1>1. /\ n \in Nat /\ DOMAIN batch = 1..n
      /\ batch # << >> <=> n # 0
      /\ at \in [1..n -> Int]
      /\ \A i \in 1..n : at[i] = batch[i].at
      /\ n # 0 => Head(batch) = batch[1] /\ Last(batch) = batch[n]
      /\ Times(batch) = {at[i] : i \in 1..n}
  BY RowsOfSeries
<1>2. Continuous(batch, p) <=> Chain(at, n, p)
  BY ChainOfRows
<1> HIDE DEF n, at, G
<1>3. Aligned(batch, p) <=> \A i \in 1..n : at[i] % p = 0
  BY <1>1 DEF Aligned
<1>4. (\A t \in Times(batch) : t + p <= asOf) <=> \A i \in DOMAIN batch : batch[i].at + p <= asOf
  <2>1. /\ DOMAIN batch = 1..n /\ Times(batch) = {at[i] : i \in 1..n}
        /\ \A i \in 1..n : at[i] = batch[i].at
    BY <1>1
  <2> QED BY <2>1
<1>5. ASSUME ValidCandles(batch, p, start, end, asOf)
      PROVE  G # {} /\ start % p = 0 /\ end % p = 0 /\ at = Ascending(G)
  <2>1. /\ batch # << >> /\ Head(batch).at = start /\ Last(batch).at + p = end
        /\ Aligned(batch, p) /\ Continuous(batch, p)
    BY <1>5 DEF ValidCandles
  <2>2. n \in Nat \ {0} /\ 1 \in 1..n /\ n \in 1..n
    BY <1>1, <2>1
  <2>3. at[1] = start /\ at[n] + p = end /\ at[n] \in Int /\ at[1] % p = 0 /\ at[n] % p = 0
    BY <1>1, <1>3, <2>1, <2>2
  <2>4. start % p = 0 /\ end % p = 0
    BY <2>3, NextMultiple
  <2>5. Bounds(p, start, end, start, end - p)
    BY <2>4, BarBounds
  <2>6. at[n] = end - p
    BY <2>3
  <2>7. at = Ascending(G) /\ G # {}
    BY <1>1, <1>2, <1>3, <2>1, <2>2, <2>3, <2>5, <2>6, ChainIsGrid DEF G
  <2> QED BY <2>4, <2>7
<1>6. ASSUME G # {}, start % p = 0, end % p = 0, at = Ascending(G)
      PROVE  /\ batch # << >> /\ Head(batch).at = start /\ Last(batch).at + p = end
             /\ Aligned(batch, p) /\ Continuous(batch, p) /\ Distinct(batch)
  <2>1. Bounds(p, start, end, start, end - p)
    BY <1>6, BarBounds
  <2>2. DOMAIN at = 1..n
    BY <1>1
  <2>3. /\ n # 0 /\ at[1] = start /\ at[n] = end - p /\ Chain(at, n, p)
        /\ \A i \in 1..n : at[i] \in G
        /\ \A j, k \in 1..n : at[j] = at[k] => j = k
    BY <1>1, <1>6, <2>1, <2>2, GridIsChain DEF G
  <2>4. Cardinality({at[i] : i \in 1..n}) = n
    <3>1. n \in Nat /\ (\A j, k \in 1..n : at[j] = at[k] => j = k)
      BY <1>1, <2>3
    <3> QED BY <2>2, <3>1, DistinctStamps
  <2>5. Distinct(batch)
    BY <1>1, <2>4 DEF Distinct, n
  <2>6. 1 \in 1..n /\ n \in 1..n
    BY <1>1, <2>3
  <2>7. Head(batch).at = start /\ Last(batch).at + p = end
    BY <1>1, <2>3, <2>6
  <2>8. Aligned(batch, p)
    BY <1>3, <2>3 DEF G, Grid
  <2> QED BY <1>1, <1>2, <2>3, <2>5, <2>7, <2>8
<1> QED
  <2>1. ValidCandles(batch, p, start, end, asOf) =>
           /\ \A i \in DOMAIN batch : SoundPrices(batch[i]) /\ SoundAmounts(batch[i])
           /\ \A t \in Times(batch) : t + p <= asOf
    BY DEF ValidCandles
  <2>2. ASSUME G # {}, start % p = 0, end % p = 0, at = Ascending(G),
               \A i \in DOMAIN batch : SoundPrices(batch[i]) /\ SoundAmounts(batch[i]),
               \A t \in Times(batch) : t + p <= asOf
        PROVE  ValidCandles(batch, p, start, end, asOf)
    BY <1>6, <2>2 DEF ValidCandles
  <2> QED BY <1>4, <1>5, <2>1, <2>2 DEF G, at

LEMMA MarkVerdict ==
    ASSUME NEW p \in Nat \ {0}, NEW start \in Int, NEW end \in Int, start < end,
           NEW asOf \in Int, NEW X, NEW batch \in Seq(X),
           \A i \in DOMAIN batch : batch[i].at \in Int
    PROVE  ValidMarks(batch, p, start, end, asOf) <=>
              /\ Grid(p, start, end) # {}
              /\ start % p = 0 /\ end % p = 0
              /\ Stamps(batch) = Ascending(Grid(p, start, end))
              /\ \A i \in DOMAIN batch : SoundPrices(batch[i])
              /\ \A i \in DOMAIN batch : batch[i].at + p <= asOf
<1> DEFINE proxy == [i \in DOMAIN batch |->
                        [at |-> batch[i].at, open |-> batch[i].open, high |-> batch[i].high,
                         low |-> batch[i].low, close |-> batch[i].close,
                         volume |-> 1, turnover |-> 1]]
           Y == {proxy[i] : i \in DOMAIN batch}
<1>1. ValidMarks(batch, p, start, end, asOf) = ValidCandles(proxy, p, start, end, asOf)
  BY DEF ValidMarks
<1>2. DOMAIN proxy = DOMAIN batch
  OBVIOUS
<1>3. \A i \in DOMAIN batch :
         /\ proxy[i].at = batch[i].at /\ proxy[i].open = batch[i].open
         /\ proxy[i].high = batch[i].high /\ proxy[i].low = batch[i].low
         /\ proxy[i].close = batch[i].close
         /\ proxy[i].volume = 1 /\ proxy[i].turnover = 1
  OBVIOUS
<1>4. proxy \in Seq(Y)
  <2>1. DOMAIN batch = 1..Len(batch) /\ Len(batch) \in Nat
    OBVIOUS
  <2>2. proxy \in [1..Len(batch) -> Y]
    BY <2>1
  <2> HIDE DEF proxy, Y
  <2> QED BY <2>1, <2>2
<1> HIDE DEF proxy, Y
<1>5. Stamps(proxy) = Stamps(batch)
  BY <1>2, <1>3 DEF Stamps
<1>6. \A i \in DOMAIN batch : SoundPrices(proxy[i]) <=> SoundPrices(batch[i])
  BY <1>3 DEF SoundPrices
<1>7. \A i \in DOMAIN proxy : proxy[i].at \in Int
  BY <1>2, <1>3
<1>8. ValidCandles(proxy, p, start, end, asOf) <=>
         /\ Grid(p, start, end) # {}
         /\ start % p = 0 /\ end % p = 0
         /\ Stamps(proxy) = Ascending(Grid(p, start, end))
         /\ \A i \in DOMAIN proxy : SoundPrices(proxy[i]) /\ SoundAmounts(proxy[i])
         /\ \A i \in DOMAIN proxy : proxy[i].at + p <= asOf
  BY <1>4, <1>7, CandleVerdict
<1>9. \A i \in DOMAIN batch :
         /\ SoundPrices(proxy[i]) /\ SoundAmounts(proxy[i]) <=> SoundPrices(batch[i])
         /\ proxy[i].at + p <= asOf <=> batch[i].at + p <= asOf
  <2>1. 1 >= 0
    OBVIOUS
  <2> QED BY <1>3, <1>6, <2>1 DEF SoundAmounts
<1> QED BY <1>1, <1>2, <1>5, <1>8, <1>9

\* So is a batch of funding rates, when the window's ends are whole seconds.
LEMMA RateVerdict ==
    ASSUME NEW p \in Nat \ {0}, p % Second = 0,
           NEW start \in Int, NEW end \in Int, start < end,
           start % Second = 0, end % Second = 0,
           NEW asOf \in Int, NEW X, NEW batch \in Seq(X),
           \A i \in DOMAIN batch : batch[i].at \in Int
    PROVE  ValidRates(batch, p, start, end, asOf) <=>
              /\ Grid(p, start, end) # {}
              /\ Stamps(batch) = Ascending(Grid(p, start, end))
              /\ \A i \in DOMAIN batch : batch[i].rate # NotFinite
              /\ \A i \in DOMAIN batch : batch[i].at <= asOf
<1> DEFINE n == Len(batch)
           at == Stamps(batch)
           G == Grid(p, start, end)
           first == ((Whole(start) + p - Second) \div p) * p
           last == ((Whole(end) - Second) \div p) * p
<1>1. /\ n \in Nat /\ DOMAIN batch = 1..n
      /\ batch # << >> <=> n # 0
      /\ at \in [1..n -> Int]
      /\ \A i \in 1..n : at[i] = batch[i].at
      /\ n # 0 => Head(batch) = batch[1] /\ Last(batch) = batch[n]
      /\ Times(batch) = {at[i] : i \in 1..n}
  BY RowsOfSeries
<1>2. Continuous(batch, p) <=> Chain(at, n, p)
  BY ChainOfRows
<1>3. Bounds(p, start, end, first, last)
  BY RateBounds
<1>4. ValidRates(batch, p, start, end, asOf) <=>
        /\ batch # << >>
        /\ Head(batch).at = first
        /\ Last(batch).at = last
        /\ Aligned(batch, p)
        /\ Distinct(batch)
        /\ \A t \in Times(batch) : start <= t /\ t < end /\ t <= asOf
        /\ \A i \in DOMAIN batch : batch[i].rate # NotFinite
        /\ Continuous(batch, p)
  BY DEF ValidRates
<1> HIDE DEF n, at, G, first, last
<1>5. Aligned(batch, p) <=> \A i \in 1..n : at[i] % p = 0
  BY <1>1 DEF Aligned
<1>6. ASSUME ValidRates(batch, p, start, end, asOf)
      PROVE  G # {} /\ at = Ascending(G) /\ \A i \in DOMAIN batch : batch[i].at <= asOf
  <2>1. n \in Nat \ {0} /\ 1 \in 1..n /\ n \in 1..n
    BY <1>1, <1>4, <1>6
  <2>2. at[1] = first /\ at[n] = last
    BY <1>1, <1>4, <1>6, <2>1
  <2>3. Chain(at, n, p) /\ \A i \in 1..n : at[i] % p = 0
    BY <1>2, <1>4, <1>5, <1>6
  <2>4. at = Ascending(G) /\ G # {}
    BY <1>1, <1>3, <2>1, <2>2, <2>3, ChainIsGrid DEF G
  <2> QED BY <1>1, <1>4, <1>6, <2>4
<1>7. ASSUME G # {}, at = Ascending(G),
             \A i \in DOMAIN batch : batch[i].rate # NotFinite,
             \A i \in DOMAIN batch : batch[i].at <= asOf
      PROVE  ValidRates(batch, p, start, end, asOf)
  <2>1. DOMAIN at = 1..n
    BY <1>1
  <2>2. /\ n # 0 /\ at[1] = first /\ at[n] = last /\ Chain(at, n, p)
        /\ \A i \in 1..n : at[i] \in G
        /\ \A j, k \in 1..n : at[j] = at[k] => j = k
    BY <1>1, <1>3, <1>7, <2>1, GridIsChain DEF G
  <2>3. Distinct(batch)
    <3>1. n \in Nat /\ (\A j, k \in 1..n : at[j] = at[k] => j = k)
      BY <1>1, <2>2
    <3>2. Cardinality({at[i] : i \in 1..n}) = n
      BY <2>1, <3>1, DistinctStamps
    <3> QED BY <1>1, <3>2 DEF Distinct, n
  <2>4. 1 \in 1..n /\ n \in 1..n
    BY <1>1, <2>2
  <2>5. Head(batch).at = first /\ Last(batch).at = last
    BY <1>1, <2>2, <2>4
  <2>6. Aligned(batch, p)
    BY <1>5, <2>2 DEF G, Grid
  <2>7. \A t \in Times(batch) : start <= t /\ t < end /\ t <= asOf
    <3>1. \A t \in G : start <= t /\ t < end
      BY DEF G, Grid
    <3>2. ASSUME NEW t \in Times(batch) PROVE t \in G /\ t <= asOf
      <4>1. PICK i \in 1..n : t = at[i]
        BY <1>1
      <4> QED BY <1>1, <1>7, <2>2, <4>1
    <3> QED BY <3>1, <3>2
  <2> QED BY <1>1, <1>2, <1>4, <1>7, <2>2, <2>3, <2>5, <2>6, <2>7
<1> QED
  <2>1. ValidRates(batch, p, start, end, asOf) => \A i \in DOMAIN batch : batch[i].rate # NotFinite
    BY <1>4
  <2> QED BY <1>6, <1>7, <2>1 DEF G, at

(***************************************************************************)
(* The client.  Known are the times the venue can serve, Served those of   *)
(* the rows it closes for a request by the server time the client read,    *)
(* ClosedAt the ones of them that its history has.                         *)
(***************************************************************************)
Kinds == {"candles", "marks", "funding"}
Length(kind) == IF kind = "funding" THEN 0 ELSE Period
Known == StrayTimes \cup (Listed..Max(Moments))
Served(r, now) ==
    {t \in Known : r.start <= t /\ t < r.end /\ t + Length(r.kind) <= now}
ClosedAt(r, now) ==
    {t \in r.start..(r.end - 1) :
        t % Period = 0 /\ t >= Listed /\ t + Length(r.kind) <= now}

LEMMA LeastAndGreatest ==
    ASSUME NEW S \in SUBSET Int, IsFiniteSet(S), S # {}
    PROVE  /\ Min(S) \in S /\ \A x \in S : Min(S) <= x
           /\ Max(S) \in S /\ \A x \in S : x <= Max(S)
<1> DEFINE n == Cardinality(S)
           s == Ascending(S)
<1>1. /\ n \in Nat /\ s \in [1..n -> S]
      /\ \A x \in S : \E k \in 1..n : s[k] = x
      /\ \A j, k \in 1..n : j < k => s[j] < s[k]
  BY AscendingSorted
<1> HIDE DEF n, s
<1>2. 1 \in 1..n /\ n \in 1..n
  <2>1. PICK x \in S : TRUE
    OBVIOUS
  <2>2. PICK k \in 1..n : s[k] = x
    BY <1>1
  <2> QED BY <1>1, <2>2
<1>3. ASSUME NEW x \in S PROVE s[1] <= x /\ x <= s[n]
  <2>1. PICK k \in 1..n : s[k] = x
    BY <1>1
  <2>2. (k = 1 \/ 1 < k) /\ (k = n \/ k < n)
    BY <1>1
  <2>3. s[1] \in Int /\ x \in Int /\ s[n] \in Int
    BY <1>1, <1>2
  <2>4. k = 1 => s[1] = x
    BY <2>1
  <2>5. k = n => s[n] = x
    BY <2>1
  <2>6. 1 < k => s[1] < x
    BY <1>1, <1>2, <2>1
  <2>7. k < n => x < s[n]
    BY <1>1, <1>2, <2>1
  <2> QED BY <2>2, <2>3, <2>4, <2>5, <2>6, <2>7
<1>4. s[1] \in S /\ s[n] \in S
  BY <1>1, <1>2
<1>5. Min(S) \in S /\ \A x \in S : Min(S) <= x
  BY <1>3, <1>4 DEF Min
<1>6. Max(S) \in S /\ \A x \in S : x <= Max(S)
  <2>1. \A x \in S : s[n] >= x
    BY <1>3, <1>4
  <2>2. Max(S) \in S /\ \A x \in S : Max(S) >= x
    BY <1>4, <2>1 DEF Max
  <2> QED BY <2>2
<1> QED BY <1>5, <1>6

LEMMA MomentsBound ==
    /\ Min(Moments) \in Moments
    /\ Max(Moments) \in Nat
    /\ \A t \in Moments : t \in Nat /\ t <= Max(Moments)
<1>1. Moments \in SUBSET Int /\ IsFiniteSet(Moments) /\ Moments # {} /\ Moments \in SUBSET Nat
  BY VenueAssumption
<1>2. /\ Min(Moments) \in Moments /\ Max(Moments) \in Moments
      /\ \A x \in Moments : x <= Max(Moments)
  BY <1>1, LeastAndGreatest
<1> QED BY <1>1, <1>2

LEMMA KnownTimes ==
    /\ Known \in SUBSET Int
    /\ \A r \in SeriesRequests : \A t \in Known :
          /\ FinalRow(r.kind, t).at = t /\ InterimRow(r.kind, t).at = t
          /\ IsRow(r.kind, FinalRow(r.kind, t))
<1>1. Known \in SUBSET Int
  <2>1. StrayTimes \in SUBSET Int
    BY VenueAssumption
  <2>2. Listed \in Int /\ Max(Moments) \in Int
    BY VenueAssumption, MomentsBound
  <2>3. \A t \in Listed..Max(Moments) : t \in Int
    BY <2>2
  <2> QED BY <2>1, <2>3 DEF Known
<1>2. \A r \in SeriesRequests : \A t \in Known :
          /\ FinalRow(r.kind, t).at = t /\ InterimRow(r.kind, t).at = t
          /\ IsRow(r.kind, FinalRow(r.kind, t))
  BY RowsAssumption DEF Known
<1> QED BY <1>1, <1>2

LEMMA RequestTypes ==
    ASSUME NEW r \in SeriesRequests
    PROVE  /\ r \in Requests /\ r.kind \in Kinds /\ r.kind # "instruments"
           /\ r.start \in Int /\ r.end \in Int /\ r.start < r.end
           /\ Length(r.kind) \in Nat /\ Period \in Nat \ {0} /\ Listed \in Int
<1>1. r \in Requests /\ r.kind # "instruments"
  BY DEF SeriesRequests
<1>2. r.kind \in Kinds /\ r.start \in Int /\ r.end \in Int /\ r.start < r.end
  BY VenueAssumption DEF Kinds
<1>3. Period \in Nat \ {0} /\ Listed \in Int
  BY VenueAssumption
<1>4. Length(r.kind) \in Nat
  BY <1>3 DEF Length
<1> QED BY <1>1, <1>2, <1>3, <1>4

LEMMA ClosedAreServed ==
    ASSUME NEW r \in SeriesRequests, NEW now \in Int, now <= Max(Moments)
    PROVE  /\ ClosedAt(r, now) \in SUBSET Served(r, now)
           /\ ClosedAt(r, now) \in SUBSET Int /\ IsFiniteSet(ClosedAt(r, now))
<1>1. /\ r.start \in Int /\ r.end \in Int /\ Length(r.kind) \in Nat /\ Listed \in Int
  BY RequestTypes
<1>2. ClosedAt(r, now) \in SUBSET (r.start..(r.end - 1))
  BY DEF ClosedAt
<1>3. IsFiniteSet(r.start..(r.end - 1))
  <2>1. PICK a \in Int, b \in Int : a = r.start /\ b = r.end - 1
    BY <1>1
  <2>2. IsFiniteSet(a..b)
    BY FS_Interval
  <2> QED BY <2>1, <2>2
<1>4. ASSUME NEW t \in ClosedAt(r, now) PROVE t \in Served(r, now)
  <2>1. /\ t \in Int /\ r.start <= t /\ t < r.end /\ Listed <= t
        /\ t + Length(r.kind) <= now
    BY <1>1 DEF ClosedAt
  <2>2. t <= Max(Moments)
    BY <1>1, <2>1, MomentsBound
  <2>3. t \in Known
    BY <1>1, <2>1, <2>2, MomentsBound DEF Known
  <2> QED BY <2>1, <2>3 DEF Served
<1>5. ClosedAt(r, now) \in SUBSET Int
  BY <1>1, <1>2
<1> QED BY <1>2, <1>3, <1>4, <1>5, FS_Subset

(***************************************************************************)
(* A page is a tuple of rows of known times, each as the venue has it when *)
(* it serves the page.                                                     *)
(***************************************************************************)
IsPage(page, n, times) ==
    /\ n \in Nat /\ times \in [1..n -> Known]
    /\ page = [i \in 1..n |-> VenueRow(request.kind, times[i])]

\* The times the venue has for the client, and those of an honest page.
Offered == {t \in VenueTimes : request.start <= t /\ t <= pageEnd}
Newest == {t \in Offered : Cardinality({u \in Offered : u > t}) < Limit}

LEMMA OfferedTimes ==
    ASSUME clock \in Moments
    PROVE  /\ Offered \in SUBSET Known /\ Offered \in SUBSET Int /\ IsFiniteSet(Offered)
           /\ Newest \in SUBSET Offered /\ IsFiniteSet(Newest)
<1>1. Listed \in Int /\ clock \in Int /\ clock <= Max(Moments) /\ Max(Moments) \in Int
  BY VenueAssumption, MomentsBound
<1>2. IsFiniteSet(Listed..clock)
  BY <1>1, FS_Interval
<1>3. Offered \in SUBSET (Listed..clock)
  BY DEF Offered, VenueTimes
<1>4. \A t \in Listed..clock : t \in Int /\ t \in Listed..Max(Moments)
  BY <1>1
<1>5. Offered \in SUBSET Known /\ Offered \in SUBSET Int
  BY <1>3, <1>4 DEF Known
<1>6. Newest \in SUBSET Offered
  BY DEF Newest
<1> QED BY <1>2, <1>3, <1>5, <1>6, FS_Subset

LEMMA HonestPageIsPage ==
    ASSUME clock \in Moments
    PROVE  \E n, times :
              /\ IsPage(HonestPage, n, times)
              /\ {times[i] : i \in 1..n} = Newest
              /\ \A i, j \in 1..n : times[i] = times[j] => i = j
<1> DEFINE n == Cardinality(Newest)
           times == Descending(Newest)
<1>1. Newest \in SUBSET Int /\ Newest \in SUBSET Known /\ IsFiniteSet(Newest)
  BY OfferedTimes
<1>2. /\ n \in Nat /\ times \in [1..n -> Newest]
      /\ \A x \in Newest : \E k \in 1..n : times[k] = x
      /\ \A j, k \in 1..n : j # k => times[j] # times[k]
  BY <1>1, DescendingMembers
<1>3. HonestPage = [i \in DOMAIN times |-> VenueRow(request.kind, times[i])]
  BY DEF HonestPage, Newest, Offered
<1> HIDE DEF n, times
<1>4. times \in [1..n -> Known] /\ DOMAIN times = 1..n
  BY <1>1, <1>2
<1>5. IsPage(HonestPage, n, times)
  BY <1>2, <1>3, <1>4 DEF IsPage
<1>6. {times[i] : i \in 1..n} = Newest
  BY <1>2
<1> QED BY <1>2, <1>5, <1>6

LEMMA StrayPageIsPage ==
    ASSUME NEW page \in StrayPages
    PROVE  \E n, times : IsPage(page, n, times)
<1>1. PICK n \in 0..StrayRows : \E times \in [1..n -> StrayTimes] :
         page = [i \in DOMAIN times |-> VenueRow(request.kind, times[i])]
  BY DEF StrayPages
<1> PICK times \in [1..n -> StrayTimes] :
         page = [i \in DOMAIN times |-> VenueRow(request.kind, times[i])]
  BY <1>1
<1>2. n \in Nat
  BY VenueAssumption
<1>3. times \in [1..n -> Known]
  BY DEF Known
<1> QED BY <1>1, <1>2, <1>3 DEF IsPage

\* A row of the page, and its time.
LEMMA PageRow ==
    ASSUME request \in SeriesRequests, NEW page, NEW n, NEW times, IsPage(page, n, times)
    PROVE  /\ n \in Nat /\ DOMAIN page = 1..n
           /\ \A i \in 1..n :
                 /\ page[i] = VenueRow(request.kind, times[i])
                 /\ times[i] \in Known /\ times[i] \in Int /\ page[i].at = times[i]
           /\ Times(page) = {times[i] : i \in 1..n}
<1>1. n \in Nat /\ DOMAIN page = 1..n
  BY DEF IsPage
<1>2. ASSUME NEW i \in 1..n
      PROVE  /\ page[i] = VenueRow(request.kind, times[i])
             /\ times[i] \in Known /\ times[i] \in Int /\ page[i].at = times[i]
  <2>1. page[i] = VenueRow(request.kind, times[i]) /\ times[i] \in Known
    BY DEF IsPage
  <2>2. times[i] \in Int
    BY <2>1, KnownTimes
  <2>3. VenueRow(request.kind, times[i]).at = times[i]
    BY <2>1, KnownTimes DEF VenueRow
  <2> QED BY <2>1, <2>2, <2>3
<1>3. Times(page) = {times[i] : i \in 1..n}
  BY <1>1, <1>2 DEF Times
<1> QED BY <1>1, <1>2, <1>3

RowsAt(batch, kind, m, kept) == batch = [k \in 1..m |-> FinalRow(kind, kept[k])]

\* m rows of a page are kept, of the times `kept`.
Keeps(page, n, times, m, kept) ==
    /\ m \in Nat /\ kept \in [1..m -> Served(request, serverTime)]
    /\ RowsAt(Kept(page), request.kind, m, kept)
    /\ {kept[k] : k \in 1..m} = {times[i] : i \in 1..n} \cap Served(request, serverTime)
    /\ (\A i, j \in 1..n : times[i] = times[j] => i = j) =>
          \A j, k \in 1..m : kept[j] = kept[k] => j = k

\* What the client keeps of a page is final.
LEMMA KeptRows ==
    ASSUME request \in SeriesRequests, clock \in Int, serverTime \in Int, serverTime <= clock,
           NEW page, NEW n, NEW times, IsPage(page, n, times)
    PROVE  \E m, kept : Keeps(page, n, times, m, kept)
<1> DEFINE P == {i \in 1..n : times[i] \in Served(request, serverTime)}
           m == Cardinality(P)
<1>1. /\ n \in Nat /\ DOMAIN page = 1..n
      /\ \A i \in 1..n :
            /\ page[i] = VenueRow(request.kind, times[i])
            /\ times[i] \in Known /\ times[i] \in Int /\ page[i].at = times[i]
  BY PageRow
<1>2. request.kind \in Kinds /\ Period \in Nat /\ request.start \in Int /\ request.end \in Int
  BY RequestTypes
<1>3. ASSUME NEW i \in 1..n
      PROVE  /\ request.start <= page[i].at
             /\ page[i].at < request.end
             /\ Closed(page[i])
             <=> times[i] \in Served(request, serverTime)
  <2>1. page[i].at = times[i] /\ times[i] \in Known /\ times[i] \in Int
    BY <1>1
  <2>2. Closed(page[i]) <=> times[i] + Length(request.kind) <= serverTime
    BY <2>1 DEF Closed, Length
  <2> QED BY <2>1, <2>2 DEF Served
<1>4. ASSUME NEW i \in P PROVE page[i] = FinalRow(request.kind, times[i])
  <2>1. /\ times[i] \in Int /\ page[i] = VenueRow(request.kind, times[i])
        /\ times[i] + Length(request.kind) <= serverTime
    BY <1>1 DEF Served
  <2>2. IF request.kind = "funding" THEN times[i] <= clock ELSE times[i] + Period <= clock
    BY <1>2, <2>1 DEF Length
  <2> QED BY <2>1, <2>2 DEF VenueRow
<1>5. Kept(page) = Picked(page, P)
  <2>1. P = {i \in DOMAIN page : /\ request.start <= page[i].at
                                 /\ page[i].at < request.end
                                 /\ Closed(page[i])}
    BY <1>1, <1>3
  <2> QED BY <2>1 DEF Kept
<1>6. P \in SUBSET (1..n)
  OBVIOUS
<1>7. \A i \in P : i \in 1..n /\ times[i] \in Served(request, serverTime)
  OBVIOUS
<1>8. \A i \in 1..n : times[i] \in Served(request, serverTime) => i \in P
  OBVIOUS
<1> HIDE DEF P
<1>9. PICK order \in [1..m -> P] :
         /\ m \in Nat
         /\ Picked(page, P) = [k \in 1..m |-> page[order[k]]]
         /\ \A i \in P : \E k \in 1..m : order[k] = i
         /\ \A j, k \in 1..m : j < k => order[j] < order[k]
  <2>1. n \in Nat
    BY <1>1
  <2>2. Selects(Ascending(P), m, page, P)
    BY <1>6, <2>1, PickedItems
  <2> HIDE DEF m
  <2> QED BY <2>2 DEF Selects
<1> HIDE DEF m
<1> DEFINE kept == [k \in 1..m |-> times[order[k]]]
<1>10. kept \in [1..m -> Served(request, serverTime)]
  BY <1>7, <1>9
<1>11. Kept(page) = [k \in 1..m |-> FinalRow(request.kind, kept[k])]
  BY <1>4, <1>5, <1>9
<1>12. {kept[k] : k \in 1..m} = {times[i] : i \in 1..n} \cap Served(request, serverTime)
  <2>1. ASSUME NEW k \in 1..m
        PROVE  kept[k] \in {times[i] : i \in 1..n} \cap Served(request, serverTime)
    BY <1>7, <1>9
  <2>2. ASSUME NEW i \in 1..n, times[i] \in Served(request, serverTime)
        PROVE  \E k \in 1..m : kept[k] = times[i]
    <3>1. PICK k \in 1..m : order[k] = i
      BY <1>8, <1>9, <2>2
    <3> QED BY <3>1
  <2> HIDE DEF kept
  <2> QED BY <2>1, <2>2
<1>13. ASSUME \A i, j \in 1..n : times[i] = times[j] => i = j,
              NEW j \in 1..m, NEW k \in 1..m, kept[j] = kept[k]
       PROVE  j = k
  <2>1. order[j] \in 1..n /\ order[k] \in 1..n /\ times[order[j]] = times[order[k]]
    BY <1>7, <1>9, <1>13
  <2>2. order[j] = order[k]
    BY <1>13, <2>1
  <2>3. ~(order[j] < order[k]) /\ ~(order[k] < order[j])
    BY <1>1, <2>1, <2>2
  <2>4. ~(j < k) /\ ~(k < j) /\ j \in Int /\ k \in Int
    BY <1>9, <2>3
  <2> QED BY <2>4
<1>14. m \in Nat
  BY <1>9
<1> HIDE DEF kept
<1>15. Keeps(page, n, times, m, kept)
  BY <1>10, <1>11, <1>12, <1>13, <1>14 DEF Keeps, RowsAt
<1> QED BY <1>15

(***************************************************************************)
(* Rows collected: final rows only, and, from an honest venue, each closed *)
(* row after the end of the next page once.                                *)
(***************************************************************************)
FinalRows(r, now) == {FinalRow(r.kind, t) : t \in Served(r, now)}

\* Each time of T once.
ExactlyOver(batch, T) ==
    /\ {batch[i].at : i \in DOMAIN batch} = T
    /\ \A i, j \in DOMAIN batch : batch[i].at = batch[j].at => i = j

LEMMA FinalRowFacts ==
    ASSUME NEW r \in SeriesRequests, NEW now
    PROVE  \A row \in FinalRows(r, now) :
              /\ row.at \in Served(r, now) /\ row.at \in Int
              /\ row = FinalRow(r.kind, row.at) /\ IsRow(r.kind, row)
<1> SUFFICES ASSUME NEW row \in FinalRows(r, now)
             PROVE  /\ row.at \in Served(r, now) /\ row.at \in Int
                    /\ row = FinalRow(r.kind, row.at) /\ IsRow(r.kind, row)
  OBVIOUS
<1>1. PICK t \in Served(r, now) : row = FinalRow(r.kind, t)
  BY DEF FinalRows
<1>2. t \in Known
  BY DEF Served
<1>3. row.at = t /\ t \in Int /\ IsRow(r.kind, row)
  BY <1>1, <1>2, KnownTimes
<1> QED BY <1>1, <1>3

\* s runs through T, each member once.
Once(s, T) ==
    /\ {s[i] : i \in DOMAIN s} = T
    /\ \A i, j \in DOMAIN s : s[i] = s[j] => i = j

LEMMA KeptAreFinal ==
    ASSUME NEW r \in SeriesRequests, NEW now, NEW m \in Nat,
           NEW kept \in [1..m -> Served(r, now)],
           NEW batch, RowsAt(batch, r.kind, m, kept)
    PROVE  /\ batch \in Seq(FinalRows(r, now))
           /\ DOMAIN batch = 1..m
           /\ \A k \in 1..m : batch[k].at = kept[k]
           /\ \A T : Once(kept, T) => ExactlyOver(batch, T)
<1>1. DOMAIN batch = 1..m /\ \A k \in 1..m : batch[k] = FinalRow(r.kind, kept[k])
  BY DEF RowsAt
<1>2. \A k \in 1..m : batch[k] \in FinalRows(r, now)
  BY <1>1 DEF FinalRows
<1>3. batch \in Seq(FinalRows(r, now))
  <2>1. batch \in [1..m -> FinalRows(r, now)]
    BY <1>2 DEF RowsAt
  <2> QED BY <2>1
<1>4. ASSUME NEW k \in 1..m PROVE batch[k].at = kept[k]
  <2>1. kept[k] \in Known
    BY DEF Served
  <2> QED BY <1>1, <2>1, KnownTimes
<1>5. ASSUME NEW T, Once(kept, T) PROVE ExactlyOver(batch, T)
  <2>1. {kept[k] : k \in 1..m} = T /\ \A j, k \in 1..m : kept[j] = kept[k] => j = k
    BY <1>5 DEF Once
  <2> QED BY <1>1, <1>4, <2>1 DEF ExactlyOver
<1> QED BY <1>1, <1>3, <1>4, <1>5

LEMMA Joined ==
    ASSUME NEW X, NEW u \in Seq(X), NEW v \in Seq(X),
           NEW n \in Nat, NEW m \in Nat, Len(u) = n, Len(v) = m
    PROVE  DOMAIN (u \o v) = 1..(n + m)
OBVIOUS

LEMMA JoinedOnce ==
    ASSUME NEW X, NEW a \in Seq(X), NEW b \in Seq(X), NEW T, NEW U,
           Once(a, T), Once(b, U), T \cap U = {}
    PROVE  Once(a \o b, T \cup U)
<1> DEFINE c == a \o b
<1>1. PICK n \in Nat, m \in Nat : n = Len(a) /\ m = Len(b)
  OBVIOUS
<1>2. DOMAIN a = 1..n /\ DOMAIN b = 1..m /\ DOMAIN c = 1..(n + m)
  BY <1>1
<1>3. \A i \in 1..n : i \in DOMAIN c /\ c[i] = a[i]
  BY <1>1, <1>2
<1>4. \A i \in 1..m : n + i \in DOMAIN c /\ c[n + i] = b[i]
  BY <1>1, <1>2
<1>5. \A i \in DOMAIN c : i \in 1..n \/ \E j \in 1..m : i = n + j
  <2>1. ASSUME NEW i \in 1..(n + m), i \notin 1..n PROVE i - n \in 1..m /\ i = n + (i - n)
    BY <2>1
  <2> QED BY <1>2, <2>1
<1> HIDE DEF c
<1>6. /\ {a[i] : i \in 1..n} = T
      /\ \A i, j \in 1..n : a[i] = a[j] => i = j
      /\ {b[i] : i \in 1..m} = U
      /\ \A i, j \in 1..m : b[i] = b[j] => i = j
  BY <1>2 DEF Once
<1>7. /\ \A i \in 1..n : c[i] \in T
      /\ \A i \in 1..m : c[n + i] \in U
  BY <1>3, <1>4, <1>6
<1>8. {c[i] : i \in DOMAIN c} = T \cup U
  <2>1. ASSUME NEW i \in DOMAIN c PROVE c[i] \in T \cup U
    BY <1>5, <1>7
  <2>2. ASSUME NEW t \in T PROVE \E i \in DOMAIN c : c[i] = t
    <3>1. PICK i \in 1..n : a[i] = t
      BY <1>6
    <3> QED BY <1>3, <3>1
  <2>3. ASSUME NEW t \in U PROVE \E i \in DOMAIN c : c[i] = t
    <3>1. PICK i \in 1..m : b[i] = t
      BY <1>6
    <3> QED BY <1>4, <3>1
  <2> QED BY <2>1, <2>2, <2>3
<1>9. ASSUME NEW i \in DOMAIN c, NEW j \in DOMAIN c, c[i] = c[j] PROVE i = j
  <2>1. CASE i \in 1..n
    <3>1. j \in 1..n
      BY <1>5, <1>7, <1>9, <2>1
    <3> QED BY <1>3, <1>6, <1>9, <2>1, <3>1
  <2>2. CASE i \notin 1..n
    <3>1. PICK k \in 1..m : i = n + k
      BY <1>5, <2>2
    <3>2. j \notin 1..n
      BY <1>7, <1>9, <3>1
    <3>3. PICK l \in 1..m : j = n + l
      BY <1>5, <3>2
    <3>4. c[i] = b[k] /\ c[j] = b[l]
      BY <1>4, <3>1, <3>3
    <3>5. k = l
      BY <1>6, <1>9, <3>4
    <3> QED BY <3>1, <3>3, <3>5
  <2> QED BY <2>1, <2>2
<1> QED BY <1>8, <1>9 DEF Once, c

\* Put in order, they are Ascending(T).
LEMMA OrderedOnce ==
    ASSUME NEW n \in Nat, NEW keys \in [1..n -> Int], NEW s, NEW o, Permutes(o, n, s, keys),
           NEW T \in SUBSET Int, IsFiniteSet(T), Once(keys, T)
    PROVE  [k \in 1..n |-> keys[o[k]]] = Ascending(T)
<1> DEFINE at == [k \in 1..n |-> keys[o[k]]]
<1>1. /\ o \in [1..n -> 1..n]
      /\ \A i \in 1..n : \E k \in 1..n : o[k] = i
      /\ \A j, k \in 1..n : j # k => o[j] # o[k]
      /\ \A j, k \in 1..n : j < k => keys[o[j]] <= keys[o[k]]
  BY DEF Permutes
<1>2. /\ {keys[i] : i \in 1..n} = T
      /\ \A i, j \in 1..n : keys[i] = keys[j] => i = j
  BY DEF Once
<1>3. \A k \in 1..n : o[k] \in 1..n /\ at[k] = keys[o[k]] /\ at[k] \in T /\ at[k] \in Int
  BY <1>1, <1>2
<1>4. at \in [1..n -> T]
  BY <1>3
<1> HIDE DEF at
<1>5. ASSUME NEW t \in T PROVE \E k \in 1..n : at[k] = t
  <2>1. PICK i \in 1..n : keys[i] = t
    BY <1>2
  <2>2. PICK k \in 1..n : o[k] = i
    BY <1>1
  <2> QED BY <1>3, <2>1, <2>2
<1>6. ASSUME NEW j \in 1..n, NEW k \in 1..n, j < k PROVE at[j] < at[k]
  <2>1. at[j] <= at[k]
    BY <1>1, <1>3, <1>6
  <2>2. o[j] # o[k]
    BY <1>1, <1>6
  <2>3. at[j] # at[k]
    BY <1>2, <1>3, <2>2
  <2> QED BY <1>3, <2>1, <2>3
<1>7. at = Ascending(T)
  BY <1>4, <1>5, <1>6, AscendingUnique
<1> QED BY <1>7 DEF at

LEMMA JoinedExactly ==
    ASSUME NEW X, NEW a \in Seq(X), NEW b \in Seq(X), NEW T, NEW U,
           ExactlyOver(a, T), ExactlyOver(b, U), T \cap U = {}
    PROVE  ExactlyOver(a \o b, T \cup U)
<1> DEFINE Y == {x.at : x \in X}
<1>1. PICK n \in Nat, m \in Nat : n = Len(a) /\ m = Len(b)
  OBVIOUS
<1>2. DOMAIN a = 1..n /\ DOMAIN b = 1..m /\ DOMAIN (a \o b) = 1..(n + m)
  BY <1>1
<1>3. \A i \in 1..n : Stamps(a)[i] = a[i].at /\ a[i].at \in Y
  BY <1>2 DEF Stamps
<1>4. \A i \in 1..m : Stamps(b)[i] = b[i].at /\ b[i].at \in Y
  BY <1>2 DEF Stamps
<1>5. DOMAIN Stamps(a) = 1..n /\ DOMAIN Stamps(b) = 1..m
  BY <1>2 DEF Stamps
<1>6. Stamps(a) \in Seq(Y) /\ Stamps(b) \in Seq(Y)
  <2>1. Stamps(a) \in [1..n -> Y]
    BY <1>3, <1>5 DEF Stamps
  <2>2. Stamps(b) \in [1..m -> Y]
    BY <1>4, <1>5 DEF Stamps
  <2> HIDE DEF Y
  <2> QED BY <2>1, <2>2
<1>7. Once(Stamps(a), T) /\ Once(Stamps(b), U)
  BY <1>2, <1>3, <1>4, <1>5 DEF Once, ExactlyOver
<1> HIDE DEF Y
<1>8. Once(Stamps(a) \o Stamps(b), T \cup U)
  BY <1>6, <1>7, JoinedOnce
<1>9. /\ DOMAIN (Stamps(a) \o Stamps(b)) = 1..(n + m)
      /\ \A i \in 1..(n + m) : (Stamps(a) \o Stamps(b))[i] = (a \o b)[i].at
  <2>1. Len(Stamps(a)) = n /\ Len(Stamps(b)) = m
    BY <1>5, <1>6
  <2>2. DOMAIN (Stamps(a) \o Stamps(b)) = 1..(n + m)
    BY <1>6, <2>1, Joined
  <2>3. ASSUME NEW i \in 1..(n + m)
        PROVE  (Stamps(a) \o Stamps(b))[i] = (a \o b)[i].at
    <3>1. CASE i <= n
      <4>1. i \in 1..n
        BY <3>1
      <4>2. (Stamps(a) \o Stamps(b))[i] = Stamps(a)[i]
        BY <1>6, <2>1, <4>1
      <4>3. (a \o b)[i] = a[i]
        BY <1>1, <4>1
      <4> QED BY <1>3, <4>1, <4>2, <4>3
    <3>2. CASE ~(i <= n)
      <4>1. i - n \in 1..m
        BY <3>2
      <4>2. (Stamps(a) \o Stamps(b))[i] = Stamps(b)[i - n]
        <5>1. PICK u \in Seq(Y), v \in Seq(Y) :
                 u = Stamps(a) /\ v = Stamps(b) /\ Len(u) = n /\ Len(v) = m
          BY <1>6, <2>1
        <5>2. Len(u) = n /\ Len(v) = m
          BY <5>1
        <5>3. (u \o v)[i] = v[i - n]
          BY <4>1, <5>2
        <5> QED BY <5>1, <5>3
      <4>3. (a \o b)[i] = b[i - n]
        BY <1>1, <3>2
      <4> QED BY <1>4, <4>1, <4>2, <4>3
    <3> QED BY <3>1, <3>2
  <2> QED BY <2>2, <2>3
<1>10. PICK c, d : c = a \o b /\ d = Stamps(a) \o Stamps(b)
  OBVIOUS
<1>11. /\ DOMAIN c = 1..(n + m) /\ DOMAIN d = 1..(n + m)
       /\ \A i \in 1..(n + m) : d[i] = c[i].at
  BY <1>2, <1>9, <1>10
<1>12. /\ {d[i] : i \in 1..(n + m)} = T \cup U
       /\ \A i, j \in 1..(n + m) : d[i] = d[j] => i = j
  <2>1. Once(d, T \cup U)
    BY <1>8, <1>10
  <2>2. DOMAIN d = 1..(n + m)
    BY <1>11
  <2> QED BY <2>1, <2>2 DEF Once
<1>13. /\ {c[i].at : i \in 1..(n + m)} = T \cup U
       /\ \A i, j \in 1..(n + m) : c[i].at = c[j].at => i = j
  BY <1>11, <1>12
<1>14. ExactlyOver(c, T \cup U)
  BY <1>11, <1>13 DEF ExactlyOver
<1> QED BY <1>10, <1>14

\* In the order of time, the rows of T are the rows of Ascending(T).
LEMMA OrderedRows ==
    ASSUME NEW r \in SeriesRequests, NEW now, NEW batch \in Seq(FinalRows(r, now))
    PROVE  /\ InTimeOrder(batch) \in Seq(FinalRows(r, now))
           /\ \A T \in SUBSET Int : IsFiniteSet(T) /\ ExactlyOver(batch, T) =>
                 InTimeOrder(batch)
                   = [i \in DOMAIN Ascending(T) |-> FinalRow(r.kind, Ascending(T)[i])]
<1> DEFINE keys == [i \in DOMAIN batch |-> batch[i].at]
           o == Sorting(keys)
           sorted == InTimeOrder(batch)
<1>1. PICK n \in Nat : n = Len(batch)
  OBVIOUS
<1>2. DOMAIN batch = 1..n
  BY <1>1
<1>3. ASSUME NEW i \in 1..n
      PROVE  /\ batch[i] \in FinalRows(r, now) /\ batch[i].at \in Int
             /\ batch[i] = FinalRow(r.kind, batch[i].at)
  <2>1. batch[i] \in FinalRows(r, now)
    BY <1>2, <1>3
  <2> QED BY <2>1, FinalRowFacts
<1>4. keys \in [1..n -> Int] /\ \A i \in 1..n : keys[i] = batch[i].at
  BY <1>2, <1>3
<1>5. sorted = Sorted(batch, keys)
  BY DEF InTimeOrder
<1> HIDE DEF keys, o, sorted
<1>6. Permutes(o, n, batch, keys)
  BY <1>4, SortedItems DEF o
<1>7. /\ o \in [1..n -> 1..n]
      /\ sorted = [k \in 1..n |-> batch[o[k]]]
      /\ \A i \in 1..n : \E k \in 1..n : o[k] = i
      /\ \A j, k \in 1..n : j # k => o[j] # o[k]
      /\ \A j, k \in 1..n : j < k => keys[o[j]] <= keys[o[k]]
  BY <1>5, <1>6 DEF Permutes
<1>8. \A k \in 1..n : o[k] \in 1..n /\ sorted[k] = batch[o[k]]
  BY <1>7
<1>9. sorted \in Seq(FinalRows(r, now))
  <2>1. sorted \in [1..n -> FinalRows(r, now)]
    BY <1>3, <1>7, <1>8
  <2> QED BY <2>1
<1>10. ASSUME NEW T \in SUBSET Int, IsFiniteSet(T), ExactlyOver(batch, T)
       PROVE  sorted = [i \in DOMAIN Ascending(T) |-> FinalRow(r.kind, Ascending(T)[i])]
  <2> DEFINE at == [k \in 1..n |-> keys[o[k]]]
  <2>1. Once(keys, T)
    <3>1. /\ {batch[i].at : i \in 1..n} = T
          /\ \A i, j \in 1..n : batch[i].at = batch[j].at => i = j
      BY <1>2, <1>10 DEF ExactlyOver
    <3>2. DOMAIN keys = 1..n /\ \A i \in 1..n : keys[i] = batch[i].at
      BY <1>4
    <3>3. {keys[i] : i \in 1..n} = {batch[i].at : i \in 1..n}
      BY <3>2
    <3> QED BY <3>1, <3>2, <3>3 DEF Once
  <2>2. \A k \in 1..n : at[k] = keys[o[k]]
    OBVIOUS
  <2>3. DOMAIN at = 1..n
    OBVIOUS
  <2>6. at = Ascending(T)
    BY <1>4, <1>6, <1>10, <2>1, OrderedOnce
  <2> HIDE DEF at
  <2>7. \A k \in 1..n : batch[o[k]] = FinalRow(r.kind, at[k])
    <3>1. ASSUME NEW k \in 1..n PROVE batch[o[k]] = FinalRow(r.kind, at[k])
      <4>1. o[k] \in 1..n /\ at[k] = keys[o[k]]
        BY <1>8, <2>2
      <4>2. batch[o[k]] = FinalRow(r.kind, batch[o[k]].at)
        BY <1>3, <4>1
      <4>3. at[k] = batch[o[k]].at
        BY <1>4, <4>1
      <4> QED BY <4>2, <4>3
    <3> QED BY <3>1
  <2>8. sorted = [k \in 1..n |-> FinalRow(r.kind, at[k])]
    BY <1>7, <2>7
  <2> QED BY <2>3, <2>6, <2>8
<1> QED BY <1>9, <1>10 DEF sorted

\* The greatest few of some numbers.
Greatest(N, S, few) == N = {t \in S : Cardinality({u \in S : u > t}) < few}

LEMMA NewestOf ==
    ASSUME NEW S \in SUBSET Int, IsFiniteSet(S), NEW few \in Nat \ {0},
           NEW N, Greatest(N, S, few)
    PROVE  /\ \A t \in S : \A u \in N : u <= t => t \in N
           /\ S # {} => N # {}
<1> DEFINE above(x) == {y \in S : y > x}
<1>0. N = {t \in S : Cardinality(above(t)) < few}
  BY DEF Greatest
<1>1. ASSUME NEW t \in S, NEW u \in N, u <= t PROVE t \in N
  <2>1. above(t) \in SUBSET above(u)
    <3>1. ASSUME NEW y \in S, y > t PROVE y > u
      <4>1. y \in Int /\ t \in Int /\ u \in Int
        BY <1>0
      <4> QED BY <1>1, <3>1, <4>1
    <3> QED BY <3>1
  <2>2. above(u) \in SUBSET S /\ Cardinality(above(u)) < few
    BY <1>0
  <2>3. Cardinality(above(t)) < few
    <3> HIDE DEF above
    <3>1. IsFiniteSet(above(u))
      BY <2>2, FS_Subset
    <3>2. Cardinality(above(t)) <= Cardinality(above(u)) /\ IsFiniteSet(above(t))
      BY <2>1, <3>1, FS_Subset
    <3>3. Cardinality(above(t)) \in Nat /\ Cardinality(above(u)) \in Nat
      BY <3>1, <3>2, FS_CardinalityType
    <3> QED BY <2>2, <3>2, <3>3
  <2> QED BY <1>0, <2>3
<1>2. ASSUME S # {} PROVE N # {}
  <2>1. PICK top \in S : top \in Int /\ \A x \in S : x <= top
    BY <1>2, LeastAndGreatest
  <2>2. above(top) = {}
    <3>1. ASSUME NEW x \in S PROVE ~(x > top)
      <4>1. x \in Int /\ x <= top
        BY <2>1
      <4> QED BY <2>1, <4>1
    <3> QED BY <3>1
  <2>3. Cardinality(above(top)) = 0
    <3> HIDE DEF above
    <3> QED BY <2>2, FS_EmptySet
  <2>4. top \in N
    BY <1>0, <2>3
  <2> QED BY <2>4
<1> QED BY <1>1, <1>2

\* Which closed rows an honest page has: those from its oldest row on, and
\* all that are left if it is the last.
LEMMA HonestPageCloses ==
    ASSUME request \in SeriesRequests, clock \in Moments,
           serverTime \in Int, serverTime <= clock,
           pageEnd \in request.start..(request.end - 1)
    PROVE  /\ More(HonestPage) => Oldest(HonestPage) \in Int
           /\ Newest \cap Served(request, serverTime)
                = {t \in ClosedAt(request, serverTime) :
                      /\ t <= pageEnd
                      /\ More(HonestPage) => Oldest(HonestPage) <= t}
<1> DEFINE A == ClosedAt(request, serverTime)
           B == Served(request, serverTime)
<1>1. /\ Newest \in SUBSET Offered /\ Offered \in SUBSET Int
      /\ Newest \in SUBSET Int /\ IsFiniteSet(Newest) /\ IsFiniteSet(Offered)
  BY OfferedTimes
<1>2. PICK n, times : /\ IsPage(HonestPage, n, times)
                      /\ {times[i] : i \in 1..n} = Newest
  BY HonestPageIsPage
<1>3. Times(HonestPage) = Newest /\ n \in Nat /\ DOMAIN HonestPage = 1..n
  <2>1. IsPage(HonestPage, n, times)
    BY <1>2
  <2>2. /\ n \in Nat /\ DOMAIN HonestPage = 1..n
        /\ Times(HonestPage) = {times[i] : i \in 1..n}
    BY <2>1, PageRow
  <2> QED BY <1>2, <2>2
<1>4. HonestPage # << >> <=> Newest # {}
  <2>1. CASE n = 0
    <3>1. 1..n = {} /\ HonestPage = << >>
      <4>1. 1..n = {}
        BY <2>1
      <4>2. HonestPage = [i \in 1..n |-> VenueRow(request.kind, times[i])]
        BY <1>2 DEF IsPage
      <4>3. DOMAIN HonestPage = {}
        BY <4>1, <4>2
      <4> QED BY <4>1, <4>2
    <3> QED BY <1>2, <3>1
  <2>2. CASE n # 0
    <3>1. 1 \in 1..n
      BY <1>3, <2>2
    <3>2. HonestPage # << >>
      BY <1>3, <3>1
    <3> QED BY <1>2, <3>1, <3>2
  <2> QED BY <2>1, <2>2
<1>5. request.start \in Int /\ request.end \in Int /\ Period \in Nat /\ Listed \in Int
      /\ Length(request.kind) \in Nat /\ clock \in Int /\ pageEnd \in Int
      /\ pageEnd < request.end
  BY RequestTypes, MomentsBound
<1>6. Newest # {} => /\ Oldest(HonestPage) \in Newest
                     /\ \A t \in Newest : Oldest(HonestPage) <= t
  BY <1>1, <1>3, LeastAndGreatest DEF Oldest
<1>7. A \in SUBSET B
  <2>1. serverTime <= Max(Moments)
    BY <1>5, MomentsBound
  <2> QED BY <2>1, ClosedAreServed
<1>8. ASSUME NEW t \in A, t <= pageEnd PROVE t \in Offered
  <2>1. /\ t \in Int /\ request.start <= t /\ t % Period = 0 /\ Listed <= t
        /\ t + Length(request.kind) <= serverTime
    BY <1>5 DEF ClosedAt
  <2>2. t <= clock
    BY <1>5, <2>1
  <2>3. t \in VenueTimes
    BY <1>5, <2>1, <2>2 DEF VenueTimes
  <2> QED BY <1>8, <2>1, <2>3 DEF Offered
<1>9. ASSUME NEW t \in Newest, t \in B PROVE t \in A /\ t <= pageEnd
  <2>1. /\ t \in Int /\ t % Period = 0 /\ Listed <= t
        /\ request.start <= t /\ t <= pageEnd
    BY <1>1, <1>5 DEF Offered, VenueTimes
  <2>2. t < request.end /\ t + Length(request.kind) <= serverTime
    BY <1>9 DEF Served
  <2> QED BY <1>5, <2>1, <2>2 DEF ClosedAt
<1>10. /\ \A t \in Offered : \A u \in Newest : u <= t => t \in Newest
       /\ Offered # {} => Newest # {}
  <2>1. Limit \in Nat \ {0}
    BY VenueAssumption
  <2>2. Greatest(Newest, Offered, Limit)
    BY DEF Newest, Greatest
  <2>3. Offered \in SUBSET Int /\ IsFiniteSet(Offered)
    BY <1>1
  <2> QED BY <2>1, <2>2, <2>3, NewestOf
<1>11. More(HonestPage) <=> Newest # {} /\ Oldest(HonestPage) > request.start
  BY <1>4 DEF More
<1>12. ASSUME NEW t \in A, t <= pageEnd, More(HonestPage) => Oldest(HonestPage) <= t
       PROVE  t \in Newest
  <2>1. t \in Offered
    BY <1>8, <1>12
  <2>2. Newest # {}
    BY <1>10, <2>1
  <2>3. Oldest(HonestPage) \in Newest /\ Oldest(HonestPage) \in Int
    BY <1>1, <1>6, <2>2
  <2>4. t \in Int /\ request.start <= t
    BY <1>5 DEF ClosedAt
  <2>5. Oldest(HonestPage) <= t
    BY <1>5, <1>11, <1>12, <2>2, <2>3, <2>4
  <2> QED BY <1>10, <2>1, <2>3, <2>5
<1>13. More(HonestPage) => Oldest(HonestPage) \in Int
  BY <1>1, <1>6, <1>11
<1> HIDE DEF A, B
<1>14. Newest \cap B = {t \in A : /\ t <= pageEnd
                                  /\ More(HonestPage) => Oldest(HonestPage) <= t}
  <2>1. ASSUME NEW t \in Newest, t \in B
        PROVE  t \in A /\ t <= pageEnd /\ (More(HonestPage) => Oldest(HonestPage) <= t)
    BY <1>6, <1>9, <2>1
  <2>2. ASSUME NEW t \in A, t <= pageEnd, More(HonestPage) => Oldest(HonestPage) <= t
        PROVE  t \in Newest /\ t \in B
    BY <1>7, <1>12, <2>2
  <2> QED BY <2>1, <2>2
<1> QED BY <1>13, <1>14 DEF A, B

(***************************************************************************)
(* Instruments: the symbols asked for on a page, and on the first pages.   *)
(***************************************************************************)
Asked(item, wanted) == item.eligible /\ (wanted = {} \/ item.symbol \in wanted)
SymbolsOf(list, wanted) ==
    {list[k].symbol : k \in {l \in DOMAIN list : Asked(list[l], wanted)}}
Found(wanted, count) == UNION {SymbolsOf(Catalog[i], wanted) : i \in 1..count}
Pages == Len(Catalog)

LEMMA CatalogFacts ==
    /\ Pages \in Nat \ {0} /\ DOMAIN Catalog = 1..Pages
    /\ \A i \in 1..Pages :
          /\ Len(Catalog[i]) \in Nat /\ DOMAIN Catalog[i] = 1..Len(Catalog[i])
          /\ \A k \in DOMAIN Catalog[i] :
                /\ Catalog[i][k].symbol \in Int
                /\ \A j \in 1..Pages : \A l \in DOMAIN Catalog[j] :
                      Catalog[i][k].symbol = Catalog[j][l].symbol => i = j /\ k = l
<1>1. Catalog \in Seq(Range(Catalog))
  BY CatalogAssumption
<1>2. Pages \in Nat /\ DOMAIN Catalog = 1..Pages
  BY <1>1 DEF Pages
<1>3. 0 \in 0..(Pages - 1)
  BY VenueAssumption DEF Pages
<1>4. Pages # 0
  BY <1>2, <1>3
<1>5. ASSUME NEW i \in 1..Pages
      PROVE  Len(Catalog[i]) \in Nat /\ DOMAIN Catalog[i] = 1..Len(Catalog[i])
  <2>1. Catalog[i] \in Seq(Range(Catalog[i]))
    BY <1>2, CatalogAssumption
  <2> QED BY <2>1
<1>6. \A i \in 1..Pages : \A k \in DOMAIN Catalog[i] :
         /\ Catalog[i][k].symbol \in Int
         /\ \A j \in 1..Pages : \A l \in DOMAIN Catalog[j] :
               Catalog[i][k].symbol = Catalog[j][l].symbol => i = j /\ k = l
  BY <1>2, CatalogAssumption
<1> QED BY <1>2, <1>4, <1>5, <1>6

LEMMA WantedSymbols ==
    ASSUME cursor \in 0..(Pages - 1)
    PROVE  /\ Wanted(HonestListing) \in Seq(Int)
           /\ Once(Wanted(HonestListing), SymbolsOf(Catalog[cursor + 1], request.wanted))
<1>1. PICK c \in 1..Pages : c = cursor + 1
  BY CatalogFacts
<1>2. PICK list : list = Catalog[c]
  OBVIOUS
<1>3. PICK n \in Nat : n = Len(list)
  BY <1>2, CatalogFacts
<1>4. /\ DOMAIN list = 1..n
      /\ \A k \in 1..n : list[k].symbol \in Int
      /\ \A k, l \in 1..n : list[k].symbol = list[l].symbol => k = l
  <2>1. /\ DOMAIN Catalog[c] = 1..Len(Catalog[c])
        /\ \A k \in DOMAIN Catalog[c] : Catalog[c][k].symbol \in Int
        /\ \A k, l \in DOMAIN Catalog[c] : Catalog[c][k].symbol = Catalog[c][l].symbol => k = l
    BY CatalogFacts
  <2> QED BY <1>2, <1>3, <2>1
<1>5. HonestListing.list = list
  BY <1>1, <1>2 DEF HonestListing
<1> DEFINE s == [i \in 1..n |-> list[i].symbol]
           P == {i \in 1..n : Asked(list[i], request.wanted)}
           m == Cardinality(P)
           o == Ascending(P)
           w == Wanted(HonestListing)
<1>6. w = Picked(s, P)
  BY <1>4, <1>5 DEF Wanted, Asked
<1>7. P \in SUBSET (1..n)
  OBVIOUS
<1>8. Selects(o, m, s, P)
  BY <1>7, PickedItems
<1>9. \A i \in 1..n : s[i] = list[i].symbol
  OBVIOUS
<1>10. \A t : t \in SymbolsOf(list, request.wanted) <=> \E i \in P : s[i] = t
  BY <1>4, <1>9 DEF SymbolsOf
<1> HIDE DEF s, P, m, o, w
<1>11. /\ m \in Nat /\ o \in [1..m -> P]
       /\ w = [k \in 1..m |-> s[o[k]]]
       /\ \A i \in P : \E k \in 1..m : o[k] = i
       /\ \A j, k \in 1..m : j < k => o[j] < o[k]
  BY <1>6, <1>8 DEF Selects
<1>12. \A k \in 1..m : o[k] \in P /\ o[k] \in 1..n /\ w[k] = s[o[k]] /\ w[k] \in Int
  BY <1>4, <1>7, <1>9, <1>11
<1>13. w \in [1..m -> Int] /\ DOMAIN w = 1..m
  BY <1>11, <1>12
<1>14. w \in Seq(Int)
  BY <1>11, <1>13
<1>15. {w[k] : k \in 1..m} = SymbolsOf(list, request.wanted)
  <2>1. ASSUME NEW k \in 1..m PROVE w[k] \in SymbolsOf(list, request.wanted)
    BY <1>10, <1>12
  <2>2. ASSUME NEW t \in SymbolsOf(list, request.wanted) PROVE \E k \in 1..m : w[k] = t
    <3>1. PICK i \in P : s[i] = t
      BY <1>10
    <3>2. PICK k \in 1..m : o[k] = i
      BY <1>11
    <3> QED BY <1>12, <3>1, <3>2
  <2> QED BY <2>1, <2>2
<1>16. ASSUME NEW j \in 1..m, NEW k \in 1..m, w[j] = w[k] PROVE j = k
  <2>1. o[j] \in 1..n /\ o[k] \in 1..n /\ list[o[j]].symbol = list[o[k]].symbol
    BY <1>9, <1>12, <1>16
  <2>2. o[j] = o[k]
    BY <1>4, <2>1
  <2>3. ~(o[j] < o[k]) /\ ~(o[k] < o[j])
    BY <2>1, <2>2
  <2>4. ~(j < k) /\ ~(k < j) /\ j \in Int /\ k \in Int
    BY <1>11, <2>3
  <2> QED BY <2>4
<1>17. Once(w, SymbolsOf(list, request.wanted))
  BY <1>13, <1>15, <1>16 DEF Once
<1> QED BY <1>1, <1>2, <1>14, <1>17 DEF w

LEMMA FoundNext ==
    ASSUME NEW c \in 0..(Pages - 1), NEW wanted
    PROVE  /\ Found(wanted, c) \cap SymbolsOf(Catalog[c + 1], wanted) = {}
           /\ Found(wanted, c + 1) = Found(wanted, c) \cup SymbolsOf(Catalog[c + 1], wanted)
<1>1. /\ Pages \in Nat
      /\ c \in Nat /\ c + 1 \in 1..Pages /\ 1..(c + 1) = (1..c) \cup {c + 1}
      /\ c + 1 \notin 1..c /\ \A i \in 1..c : i \in 1..Pages
  BY CatalogFacts
<1>2. Found(wanted, c + 1) = Found(wanted, c) \cup SymbolsOf(Catalog[c + 1], wanted)
  <2>1. {SymbolsOf(Catalog[i], wanted) : i \in 1..(c + 1)}
          = {SymbolsOf(Catalog[i], wanted) : i \in 1..c} \cup {SymbolsOf(Catalog[c + 1], wanted)}
    BY <1>1
  <2> QED BY <2>1 DEF Found
<1>3. ASSUME NEW t \in Found(wanted, c), t \in SymbolsOf(Catalog[c + 1], wanted)
      PROVE  FALSE
  <2>1. PICK i \in 1..c : t \in SymbolsOf(Catalog[i], wanted)
    BY DEF Found
  <2>2. PICK k \in DOMAIN Catalog[i] : t = Catalog[i][k].symbol
    BY <2>1 DEF SymbolsOf
  <2>3. PICK l \in DOMAIN Catalog[c + 1] : t = Catalog[c + 1][l].symbol
    BY <1>3 DEF SymbolsOf
  <2>4. i = c + 1
    BY <1>1, <2>2, <2>3, CatalogFacts
  <2> QED BY <1>1, <2>4
<1> QED BY <1>2, <1>3

LEMMA FoundFacts ==
    ASSUME NEW c \in 0..Pages, NEW wanted
    PROVE  /\ Found(wanted, 0) = {}
           /\ Found(wanted, c) \in SUBSET Int
<1>1. 1..0 = {}
  OBVIOUS
<1>2. Found(wanted, 0) = {}
  BY <1>1 DEF Found
<1>3. ASSUME NEW t \in Found(wanted, c) PROVE t \in Int
  <2>1. PICK i \in 1..c : t \in SymbolsOf(Catalog[i], wanted)
    BY DEF Found
  <2>2. i \in 1..Pages
    BY CatalogFacts
  <2>3. PICK k \in DOMAIN Catalog[i] : t = Catalog[i][k].symbol
    BY <2>1 DEF SymbolsOf
  <2> QED BY <2>2, <2>3, CatalogFacts
<1> QED BY <1>2, <1>3

LEMMA ListedAreFound ==
    ListedSymbols = Found(request.wanted, Pages)
<1> DEFINE items == UNION {ToSet(page) : page \in ToSet(Catalog)}
           eligible == {item.symbol : item \in {x \in items : x.eligible}}
<1>1. ListedSymbols = IF request.wanted = {} THEN eligible ELSE eligible \cap request.wanted
  BY DEF ListedSymbols
<1>2. \A x : x \in items <=> \E i \in 1..Pages : \E k \in DOMAIN Catalog[i] : x = Catalog[i][k]
  <2>1. ToSet(Catalog) = {Catalog[i] : i \in 1..Pages}
    BY CatalogFacts DEF ToSet
  <2> QED BY <2>1 DEF ToSet
<1>3. \A t : t \in eligible <=> \E x \in items : x.eligible /\ t = x.symbol
  OBVIOUS
<1> HIDE DEF items, eligible
<1>4. \A t : t \in Found(request.wanted, Pages) <=>
         \E i \in 1..Pages : \E k \in DOMAIN Catalog[i] :
            /\ Catalog[i][k].eligible
            /\ request.wanted = {} \/ Catalog[i][k].symbol \in request.wanted
            /\ t = Catalog[i][k].symbol
  BY DEF Found, SymbolsOf, Asked
<1>5. \A t : t \in eligible <=>
         \E i \in 1..Pages : \E k \in DOMAIN Catalog[i] :
            Catalog[i][k].eligible /\ t = Catalog[i][k].symbol
  BY <1>2, <1>3
<1>6. ASSUME NEW t PROVE t \in ListedSymbols <=> t \in Found(request.wanted, Pages)
  <2>1. t \in ListedSymbols <=> t \in eligible /\ (request.wanted = {} \/ t \in request.wanted)
    BY <1>1
  <2> QED BY <1>4, <1>5, <2>1
<1> QED BY <1>6

(***************************************************************************)
(* The inductive invariant.  Its parts take the state they are about as    *)
(* parameters, so that they are stated of the next state as of this one.   *)
(***************************************************************************)
ClocksAgree(now, ph, server, end, faithful) ==
    /\ now \in Moments /\ server \in Int /\ end \in Int /\ faithful \in BOOLEAN
    /\ ph # "idle" => server <= now

BatchAtHand(r, ph, at, known, batch) ==
    ph = "idle" => r \in SeriesRequests /\ batch \in Batches(r.kind) /\ at = 0 /\ known = {}

\* Collecting: final rows; each closed row after the page's end once.
SeriesRows(r, ph, server, end, batch, faithful) ==
    r.kind # "instruments" =>
        /\ ph = "time" => batch = << >>
        /\ ph \in {"pages", "done"} => batch \in Seq(FinalRows(r, server))
        /\ ph = "pages" /\ faithful =>
              ExactlyOver(batch, {t \in ClosedAt(r, server) : t > end})
        /\ ph = "done" /\ faithful =>
              batch = [i \in DOMAIN Ascending(ClosedAt(r, server)) |->
                          FinalRow(r.kind, Ascending(ClosedAt(r, server))[i])]

\* Listing: the symbols asked for of the pages read, each once.
ListingRows(r, ph, at, known, batch, faithful) ==
    r.kind = "instruments" =>
        /\ ph # "time"
        /\ ph = "pages" /\ faithful =>
              known = 1..at /\ batch \in Seq(Int) /\ Once(batch, Found(r.wanted, at))
        /\ ph = "done" /\ faithful => batch = Ascending(Found(r.wanted, Pages))

VenueInv ==
    /\ TypeOK
    /\ ClocksAgree(clock, phase, serverTime, pageEnd, honest)
    /\ BatchAtHand(request, phase, cursor, seen, rows)
    /\ SeriesRows(request, phase, serverTime, pageEnd, rows, honest)
    /\ ListingRows(request, phase, cursor, seen, rows, honest)

LEMMA WholeSeconds ==
    ASSUME NEW t \in Int
    PROVE  Whole(t) \in Int /\ Whole(t) % Second = 0 /\ Whole(t) <= t
<1>1. Second \in Nat \ {0}
  BY SecondAssumption
<1>2. PICK q \in Int, r \in Int : q = t \div Second /\ r = t % Second
  BY <1>1, Quotient
<1>3. t = q * Second + r /\ 0 <= r
  BY <1>1, <1>2, Quotient
<1>4. Whole(t) = t - r
  BY <1>2 DEF Whole
<1>5. PICK w \in Int : w = q * Second
  BY <1>1
<1>6. w % Second = 0
  BY <1>1, <1>2, <1>5, Multiple
<1> QED BY <1>3, <1>4, <1>5, <1>6

LEMMA InitVenue == ASSUME Init PROVE VenueInv
<1>1. /\ clock = Min(Moments) /\ phase = "idle" /\ request \in SeriesRequests
      /\ rows \in Batches(request.kind)
      /\ pageEnd = 0 /\ cursor = 0 /\ seen = {} /\ attempt = 0 /\ honest = TRUE
  BY DEF Init
<1>2. PICK t \in Moments : serverTime = Whole(t)
  BY DEF Init
<1>3. clock \in Moments /\ t \in Int
  BY <1>1, MomentsBound
<1>4. serverTime \in Int /\ serverTime % Second = 0
  BY <1>2, <1>3, WholeSeconds
<1>5. request \in Requests /\ request.kind # "instruments"
  BY <1>1 DEF SeriesRequests
<1>6. Len(Catalog) \in Nat \ {0} /\ Attempts \in Nat \ {0}
  BY CatalogFacts, VenueAssumption DEF Pages
<1>7. TypeOK
  BY <1>1, <1>3, <1>4, <1>5, <1>6 DEF TypeOK
<1>8. ClocksAgree(clock, phase, serverTime, pageEnd, honest)
  BY <1>1, <1>3, <1>4 DEF ClocksAgree
<1>9. BatchAtHand(request, phase, cursor, seen, rows)
  BY <1>1 DEF BatchAtHand
<1>10. SeriesRows(request, phase, serverTime, pageEnd, rows, honest)
  BY <1>1 DEF SeriesRows
<1>11. ListingRows(request, phase, cursor, seen, rows, honest)
  BY <1>1, <1>5 DEF ListingRows
<1> QED BY <1>7, <1>8, <1>9, <1>10, <1>11 DEF VenueInv

LEMMA TickVenue == ASSUME VenueInv, Tick PROVE VenueInv'
<1>1. /\ phase \in {"time", "pages"} /\ clock' \in Moments /\ clock' > clock
      /\ request' = request /\ phase' = phase /\ serverTime' = serverTime
      /\ pageEnd' = pageEnd /\ cursor' = cursor /\ seen' = seen /\ attempt' = attempt
      /\ rows' = rows /\ honest' = honest
  BY DEF Tick
<1>2. clock \in Int /\ clock' \in Int /\ serverTime \in Int /\ serverTime <= clock
  BY <1>1, MomentsBound DEF VenueInv, ClocksAgree
<1>3. serverTime <= clock'
  BY <1>1, <1>2
<1>4. TypeOK'
  BY <1>1, <1>3 DEF VenueInv, TypeOK, OfSeries
<1>5. ClocksAgree(clock', phase', serverTime', pageEnd', honest')
  BY <1>1, <1>3 DEF VenueInv, ClocksAgree
<1> QED BY <1>1, <1>4, <1>5 DEF VenueInv

LEMMA StartVenue == ASSUME VenueInv, NEW r \in Requests, Start(r) PROVE VenueInv'
<1>1. /\ phase = "idle" /\ request' = r
      /\ phase' = IF r.kind = "instruments" THEN "pages" ELSE "time"
      /\ rows' = << >> /\ serverTime' = 0
      /\ clock' = clock /\ pageEnd' = pageEnd /\ cursor' = cursor /\ seen' = seen
      /\ attempt' = attempt /\ honest' = honest
  BY DEF Start
<1>2. cursor = 0 /\ seen = {}
  BY <1>1 DEF VenueInv, BatchAtHand
<1>3. 0 % Second = 0 /\ clock \in Nat
  <2>1. 0 = 0 * Second /\ Second \in Nat \ {0}
    BY SecondAssumption
  <2>2. 0 % Second = 0
    BY <2>1, Multiple
  <2> QED BY <2>2, MomentsBound DEF VenueInv, ClocksAgree
<1>4. TypeOK'
  BY <1>1, <1>3 DEF VenueInv, TypeOK, OfSeries
<1>5. ClocksAgree(clock', phase', serverTime', pageEnd', honest')
  BY <1>1, <1>3 DEF VenueInv, ClocksAgree
<1>6. BatchAtHand(request', phase', cursor', seen', rows')
  BY <1>1 DEF BatchAtHand
<1>7. SeriesRows(request', phase', serverTime', pageEnd', rows', honest')
  BY <1>1 DEF SeriesRows
<1>8. ListingRows(request', phase', cursor', seen', rows', honest')
  <2>1. Found(r.wanted, 0) = {} /\ 1..0 = {}
    BY FoundFacts, CatalogFacts
  <2>2. rows' \in Seq(Int) /\ Once(rows', {})
    BY <1>1 DEF Once
  <2>3. cursor' = 0 /\ seen' = {}
    BY <1>1, <1>2
  <2> QED BY <1>1, <2>1, <2>2, <2>3 DEF ListingRows
<1> QED BY <1>4, <1>5, <1>6, <1>7, <1>8 DEF VenueInv

LEMMA RetryVenue == ASSUME VenueInv, Retry PROVE VenueInv'
<1>1. /\ attempt + 1 < Attempts /\ attempt' = attempt + 1
      /\ clock' = clock /\ request' = request /\ phase' = phase /\ serverTime' = serverTime
      /\ pageEnd' = pageEnd /\ cursor' = cursor /\ seen' = seen
      /\ rows' = rows /\ honest' = honest
  BY DEF Retry
<1>2. attempt' \in 0..(Attempts - 1)
  BY <1>1, VenueAssumption DEF VenueInv, TypeOK
<1>3. TypeOK'
  BY <1>1, <1>2 DEF VenueInv, TypeOK, OfSeries
<1> QED BY <1>1, <1>3 DEF VenueInv

\* A failure keeps no rows.
LEMMA FailVenue ==
    ASSUME VenueInv, Fail, phase # "idle", honest' \in BOOLEAN
    PROVE  VenueInv'
<1>1. /\ phase' = "failed" /\ rows' = << >> /\ attempt' = 0
      /\ clock' = clock /\ request' = request /\ serverTime' = serverTime
      /\ pageEnd' = pageEnd /\ cursor' = cursor /\ seen' = seen
  BY DEF Fail
<1>2. 0 \in 0..(Attempts - 1)
  BY VenueAssumption
<1>3. TypeOK'
  BY <1>1, <1>2 DEF VenueInv, TypeOK, OfSeries
<1>4. ClocksAgree(clock', phase', serverTime', pageEnd', honest')
  BY <1>1 DEF VenueInv, ClocksAgree
<1>5. BatchAtHand(request', phase', cursor', seen', rows')
  BY <1>1 DEF BatchAtHand
<1>6. SeriesRows(request', phase', serverTime', pageEnd', rows', honest')
  BY <1>1 DEF SeriesRows
<1>7. ListingRows(request', phase', cursor', seen', rows', honest')
  BY <1>1 DEF ListingRows
<1> QED BY <1>3, <1>4, <1>5, <1>6, <1>7 DEF VenueInv

LEMMA AnswerTimeVenue == ASSUME VenueInv, AnswerTime PROVE VenueInv'
<1>1. /\ phase = "time" /\ phase' = "pages" /\ serverTime' = Whole(clock)
      /\ pageEnd' = request.end - 1 /\ attempt' = 0
      /\ clock' = clock /\ request' = request /\ cursor' = cursor /\ seen' = seen
      /\ rows' = rows /\ honest' = honest
  BY DEF AnswerTime
<1>2. request \in SeriesRequests
  BY <1>1 DEF VenueInv, ListingRows, TypeOK, SeriesRequests
<1>3. request.start \in Int /\ request.end \in Int /\ request.start < request.end
  BY <1>2, RequestTypes
<1>4. clock \in Int
  BY MomentsBound DEF VenueInv, ClocksAgree
<1>5. serverTime' \in Int /\ serverTime' % Second = 0 /\ serverTime' <= clock
  BY <1>1, <1>4, WholeSeconds
<1>6. pageEnd' \in Int /\ pageEnd' \in request.start..(request.end - 1)
  BY <1>1, <1>3
<1>7. 0 \in 0..(Attempts - 1)
  BY VenueAssumption
<1>8. TypeOK'
  BY <1>1, <1>5, <1>6, <1>7 DEF VenueInv, TypeOK, OfSeries
<1>9. ClocksAgree(clock', phase', serverTime', pageEnd', honest')
  BY <1>1, <1>5, <1>6 DEF VenueInv, ClocksAgree
<1>10. BatchAtHand(request', phase', cursor', seen', rows')
  BY <1>1 DEF BatchAtHand
<1>11. SeriesRows(request', phase', serverTime', pageEnd', rows', honest')
  <2>1. rows = << >>
    BY <1>1, <1>2, RequestTypes DEF VenueInv, SeriesRows
  <2>2. {t \in ClosedAt(request, serverTime') : t > pageEnd'} = {}
    <3>1. ASSUME NEW t \in ClosedAt(request, serverTime') PROVE ~(t > pageEnd')
      BY <1>1, <1>3 DEF ClosedAt
    <3> QED BY <3>1
  <2>3. rows' \in Seq(FinalRows(request', serverTime'))
    BY <1>1, <2>1
  <2>4. ExactlyOver(rows', {t \in ClosedAt(request', serverTime') : t > pageEnd'})
    <3>1. ExactlyOver(<< >>, {})
      BY DEF ExactlyOver
    <3> QED BY <1>1, <2>1, <2>2, <3>1
  <2> QED BY <1>1, <2>3, <2>4 DEF SeriesRows
<1>12. ListingRows(request', phase', cursor', seen', rows', honest')
  BY <1>1, <1>2, RequestTypes DEF ListingRows
<1> QED BY <1>8, <1>9, <1>10, <1>11, <1>12 DEF VenueInv

\* The page at hand: what is kept so far, and what an honest venue's pages
\* make of it.
LEMMA PageTaken ==
    ASSUME VenueInv, NEW page \in StrayPages \cup {HonestPage}, TakePage(page)
    PROVE  /\ phase = "pages" /\ request \in SeriesRequests /\ honest' \in BOOLEAN
           /\ request.start \in Int /\ request.end \in Int
           /\ pageEnd \in request.start..(request.end - 1)
           /\ More(page) => Oldest(page) \in Int /\ Oldest(page) > request.start
           /\ rows \o Kept(page) \in Seq(FinalRows(request, serverTime))
           /\ honest' => ExactlyOver(rows \o Kept(page),
                             {t \in ClosedAt(request, serverTime) :
                                 More(page) => Oldest(page) <= t})
<1> DEFINE A == ClosedAt(request, serverTime)
           B == Served(request, serverTime)
           T == {t \in A : t > pageEnd}
           U == {t \in A : t <= pageEnd /\ (More(page) => Oldest(page) <= t)}
<1>1. /\ phase = "pages" /\ request.kind # "instruments"
      /\ honest' = (honest /\ page = HonestPage)
  BY DEF TakePage
<1>2. request \in SeriesRequests /\ pageEnd \in request.start..(request.end - 1)
  BY <1>1 DEF VenueInv, TypeOK, OfSeries, SeriesRequests
<1>3. /\ request.start \in Int /\ request.end \in Int /\ request.start < request.end
      /\ Length(request.kind) \in Nat
  BY <1>2, RequestTypes
<1>4. clock \in Moments /\ clock \in Int /\ serverTime \in Int /\ serverTime <= clock
      /\ honest \in BOOLEAN
  BY <1>1, MomentsBound DEF VenueInv, ClocksAgree
<1>5. rows \in Seq(FinalRows(request, serverTime))
  BY <1>1 DEF VenueInv, SeriesRows
<1>6. honest => ExactlyOver(rows, T)
  BY <1>1 DEF VenueInv, SeriesRows
<1>7. PICK n, times : /\ IsPage(page, n, times)
                      /\ page = HonestPage =>
                            /\ {times[i] : i \in 1..n} = Newest
                            /\ \A i, j \in 1..n : times[i] = times[j] => i = j
  <2>1. CASE page = HonestPage
    BY <1>4, <2>1, HonestPageIsPage
  <2>2. CASE page # HonestPage
    <3>1. page \in StrayPages
      BY <2>2
    <3> QED BY <2>2, <3>1, StrayPageIsPage
  <2> QED BY <2>1, <2>2
<1>8. /\ n \in Nat /\ DOMAIN page = 1..n
      /\ \A i \in 1..n : times[i] \in Int
      /\ Times(page) = {times[i] : i \in 1..n}
  BY <1>2, <1>7, PageRow
<1>9. More(page) => /\ Oldest(page) \in Times(page) /\ Oldest(page) \in Int
                    /\ Oldest(page) > request.start
  <2> SUFFICES ASSUME More(page)
               PROVE  Oldest(page) \in Times(page) /\ Oldest(page) \in Int
    BY DEF More
  <2>1. page # << >>
    BY DEF More
  <2>2. n # 0
    <3>1. CASE n = 0
      <4>1. 1..n = {}
        BY <3>1
      <4>2. page = [i \in 1..n |-> VenueRow(request.kind, times[i])]
        BY <1>7 DEF IsPage
      <4>3. DOMAIN page = {}
        BY <4>1, <4>2
      <4> QED BY <2>1, <4>1, <4>2, <4>3
    <3> QED BY <3>1
  <2>3. Times(page) \in SUBSET Int /\ Times(page) # {}
    <3>1. 1 \in 1..n
      BY <1>8, <2>2
    <3> QED BY <1>8, <3>1
  <2>4. IsFiniteSet(Times(page))
    <3> DEFINE f == [i \in 1..n |-> times[i]]
               S == Times(page)
    <3>1. f \in Surjection(1..n, S)
      BY <1>8 DEF Surjection
    <3>2. IsFiniteSet(1..n)
      BY <1>8, FS_Interval
    <3> HIDE DEF f, S
    <3>3. IsFiniteSet(S)
      BY <3>1, <3>2, FS_Surjection
    <3> QED BY <3>3 DEF S
  <2>5. Oldest(page) \in Times(page)
    BY <2>3, <2>4, LeastAndGreatest DEF Oldest
  <2> QED BY <2>3, <2>5
<1> PICK m, kept : Keeps(page, n, times, m, kept)
  <2>1. request \in SeriesRequests /\ IsPage(page, n, times)
    BY <1>2, <1>7
  <2>2. clock \in Int /\ serverTime \in Int /\ serverTime <= clock
    BY <1>4
  <2> QED BY <2>1, <2>2, KeptRows
<1>10. /\ m \in Nat /\ kept \in [1..m -> B]
       /\ RowsAt(Kept(page), request.kind, m, kept)
       /\ {kept[k] : k \in 1..m} = {times[i] : i \in 1..n} \cap B
       /\ (\A i, j \in 1..n : times[i] = times[j] => i = j) =>
             \A j, k \in 1..m : kept[j] = kept[k] => j = k
  BY DEF Keeps
<1>11. PICK batch : batch = Kept(page)
  OBVIOUS
<1>12. /\ batch \in Seq(FinalRows(request, serverTime))
       /\ \A V : Once(kept, V) => ExactlyOver(batch, V)
  <2>1. RowsAt(batch, request.kind, m, kept)
    BY <1>10, <1>11
  <2>2. request \in SeriesRequests /\ m \in Nat /\ kept \in [1..m -> B]
    BY <1>2, <1>10
  <2> QED BY <2>1, <2>2, KeptAreFinal
<1>13. rows \o Kept(page) \in Seq(FinalRows(request, serverTime))
  BY <1>5, <1>11, <1>12
<1>14. ASSUME honest'
       PROVE  ExactlyOver(rows \o batch, {t \in A : More(page) => Oldest(page) <= t})
  <2>1. honest /\ page = HonestPage
    BY <1>1, <1>14
  <2>2. \A j, k \in 1..m : kept[j] = kept[k] => j = k
    BY <1>7, <1>10, <2>1
  <2>3. {kept[k] : k \in 1..m} = U
    <3>1. {kept[k] : k \in 1..m} = Newest \cap B
      BY <1>7, <1>10, <2>1
    <3>2. Newest \cap B = U
      BY <1>2, <1>4, <2>1, HonestPageCloses
    <3> QED BY <3>1, <3>2
  <2>4. ASSUME NEW t \in A PROVE t \in Int /\ pageEnd \in Int
    BY <1>2, <1>3 DEF ClosedAt
  <2>5. T \cap U = {}
    BY <2>4
  <2>6. T \cup U = {t \in A : More(page) => Oldest(page) <= t}
    <3>1. ASSUME NEW t \in A, t > pageEnd, More(page) PROVE Oldest(page) <= t
      <4>1. Oldest(page) \in Newest
        BY <1>7, <1>8, <1>9, <2>1, <3>1
      <4>2. Oldest(page) <= pageEnd
        BY <1>4, <4>1, OfferedTimes DEF Offered
      <4>3. Oldest(page) \in Int
        BY <1>9, <3>1
      <4> QED BY <2>4, <3>1, <4>2, <4>3
    <3> QED BY <2>4, <3>1
  <2>7. ExactlyOver(rows, T)
    BY <1>6, <2>1
  <2> HIDE DEF T, U
  <2>8. ExactlyOver(batch, U)
    <3>1. Once(kept, U)
      <4>1. DOMAIN kept = 1..m
        BY <1>10
      <4> QED BY <2>2, <2>3, <4>1 DEF Once
    <3> QED BY <1>12, <3>1
  <2>9. ExactlyOver(rows \o batch, T \cup U)
    BY <1>5, <1>12, <2>5, <2>7, <2>8, JoinedExactly
  <2> QED BY <2>6, <2>9
<1> QED BY <1>1, <1>2, <1>3, <1>4, <1>9, <1>11, <1>13, <1>14

LEMMA FinishSeriesVenue ==
    ASSUME VenueInv, NEW page \in StrayPages \cup {HonestPage}, FinishSeries(page)
    PROVE  VenueInv'
<1>1. /\ TakePage(page) /\ ~More(page)
      /\ phase' = "done" /\ rows' = InTimeOrder(rows \o Kept(page)) /\ attempt' = 0
      /\ clock' = clock /\ request' = request /\ serverTime' = serverTime
      /\ pageEnd' = pageEnd /\ cursor' = cursor /\ seen' = seen
  BY DEF FinishSeries
<1>2. PICK batch : batch = rows \o Kept(page)
  OBVIOUS
<1>3. PICK A : A = ClosedAt(request, serverTime)
  OBVIOUS
<1>4. /\ phase = "pages" /\ request \in SeriesRequests /\ honest' \in BOOLEAN
      /\ batch \in Seq(FinalRows(request, serverTime))
      /\ honest' => ExactlyOver(batch, {t \in A : More(page) => Oldest(page) <= t})
  BY <1>1, <1>2, <1>3, PageTaken
<1>5. honest' => ExactlyOver(batch, A)
  <2>1. {t \in A : More(page) => Oldest(page) <= t} = A
    BY <1>1
  <2> QED BY <1>4, <2>1
<1>6. A \in SUBSET Int /\ IsFiniteSet(A)
  <2>1. serverTime \in Int /\ serverTime <= Max(Moments)
    <3>1. serverTime \in Int /\ clock \in Moments /\ serverTime <= clock
      BY <1>4 DEF VenueInv, ClocksAgree
    <3> QED BY <3>1, MomentsBound
  <2> QED BY <1>3, <1>4, <2>1, ClosedAreServed
<1>7. /\ rows' \in Seq(FinalRows(request, serverTime))
      /\ honest' => rows' = [i \in DOMAIN Ascending(A) |->
                                FinalRow(request.kind, Ascending(A)[i])]
  <2>1. request \in SeriesRequests /\ batch \in Seq(FinalRows(request, serverTime))
    BY <1>4
  <2>2. /\ InTimeOrder(batch) \in Seq(FinalRows(request, serverTime))
        /\ \A T \in SUBSET Int : IsFiniteSet(T) /\ ExactlyOver(batch, T) =>
              InTimeOrder(batch) = [i \in DOMAIN Ascending(T) |->
                                       FinalRow(request.kind, Ascending(T)[i])]
    BY <2>1, OrderedRows
  <2> QED BY <1>1, <1>2, <1>5, <1>6, <2>2
<1>8. 0 \in 0..(Attempts - 1)
  BY VenueAssumption
<1>9. TypeOK'
  BY <1>1, <1>8 DEF VenueInv, TypeOK, OfSeries
<1>10. ClocksAgree(clock', phase', serverTime', pageEnd', honest')
  BY <1>1, <1>4 DEF VenueInv, ClocksAgree
<1>11. BatchAtHand(request', phase', cursor', seen', rows')
  BY <1>1 DEF BatchAtHand
<1>12. SeriesRows(request', phase', serverTime', pageEnd', rows', honest')
  BY <1>1, <1>3, <1>7 DEF SeriesRows
<1>13. ListingRows(request', phase', cursor', seen', rows', honest')
  BY <1>1, <1>4, RequestTypes DEF ListingRows
<1> QED BY <1>9, <1>10, <1>11, <1>12, <1>13 DEF VenueInv

LEMMA TurnPageVenue ==
    ASSUME VenueInv, NEW page \in StrayPages \cup {HonestPage}, TurnPage(page)
    PROVE  VenueInv'
<1>1. /\ TakePage(page) /\ More(page) /\ Oldest(page) - 1 < pageEnd
      /\ pageEnd' = Oldest(page) - 1 /\ rows' = rows \o Kept(page) /\ attempt' = 0
      /\ clock' = clock /\ request' = request /\ phase' = phase /\ serverTime' = serverTime
      /\ cursor' = cursor /\ seen' = seen
  BY DEF TurnPage
<1>2. /\ phase = "pages" /\ request \in SeriesRequests /\ honest' \in BOOLEAN
      /\ request.start \in Int /\ request.end \in Int
      /\ pageEnd \in request.start..(request.end - 1)
      /\ Oldest(page) \in Int /\ Oldest(page) > request.start
      /\ rows' \in Seq(FinalRows(request, serverTime))
      /\ honest' => ExactlyOver(rows', {t \in ClosedAt(request, serverTime) :
                                           More(page) => Oldest(page) <= t})
  BY <1>1, PageTaken
<1>3. pageEnd' \in Int /\ pageEnd' \in request.start..(request.end - 1)
  BY <1>1, <1>2
<1>4. {t \in ClosedAt(request, serverTime) : More(page) => Oldest(page) <= t}
        = {t \in ClosedAt(request, serverTime) : t > pageEnd'}
  <2>1. ASSUME NEW t \in ClosedAt(request, serverTime)
        PROVE  Oldest(page) <= t <=> t > pageEnd'
    <3>1. t \in Int
      BY <1>2 DEF ClosedAt
    <3> QED BY <1>1, <1>2, <3>1
  <2> QED BY <1>1, <2>1
<1>5. honest' => ExactlyOver(rows', {t \in ClosedAt(request, serverTime) : t > pageEnd'})
  BY <1>2, <1>4
<1>6. 0 \in 0..(Attempts - 1)
  BY VenueAssumption
<1>7. TypeOK'
  BY <1>1, <1>2, <1>3, <1>6 DEF VenueInv, TypeOK, OfSeries
<1>8. ClocksAgree(clock', phase', serverTime', pageEnd', honest')
  BY <1>1, <1>2, <1>3 DEF VenueInv, ClocksAgree
<1>9. BatchAtHand(request', phase', cursor', seen', rows')
  BY <1>1, <1>2 DEF BatchAtHand
<1>10. SeriesRows(request', phase', serverTime', pageEnd', rows', honest')
  BY <1>1, <1>2, <1>5 DEF SeriesRows
<1>11. ListingRows(request', phase', cursor', seen', rows', honest')
  BY <1>1, <1>2, RequestTypes DEF ListingRows
<1> QED BY <1>7, <1>8, <1>9, <1>10, <1>11 DEF VenueInv

\* The next cursor, and what an honest venue's listings add up to.
LEMMA ListingTaken ==
    ASSUME VenueInv, NEW page \in StrayListings \cup {HonestListing}, TakeListing(page)
    PROVE  /\ phase = "pages" /\ request.kind = "instruments" /\ honest' \in BOOLEAN
           /\ page.next # 0 => page.next \in 1..(Pages - 1)
           /\ honest' => /\ page = HonestListing
                         /\ cursor + 1 \in 1..Pages
                         /\ rows \o Wanted(page) \in Seq(Int)
                         /\ Once(rows \o Wanted(page), Found(request.wanted, cursor + 1))
                         /\ seen = 1..cursor
<1>1. /\ phase = "pages" /\ request.kind = "instruments"
      /\ honest' = (honest /\ page = HonestListing)
  BY DEF TakeListing
<1>2. honest \in BOOLEAN
  BY DEF VenueInv, ClocksAgree
<1>3. cursor \in 0..(Pages - 1) /\ Pages \in Nat \ {0}
  BY CatalogFacts DEF VenueInv, TypeOK, Pages
<1>4. ASSUME page.next # 0 PROVE page.next \in 1..(Pages - 1)
  <2>1. CASE page \in StrayListings
    <3>1. page.next \in Cursors
      BY <2>1 DEF StrayListings
    <3>2. page.next \in 0..(Pages - 1)
      BY <3>1, VenueAssumption DEF Pages
    <3> QED BY <1>3, <1>4, <3>2
  <2>2. CASE page = HonestListing
    <3>1. page.next = IF cursor + 1 = Pages THEN 0 ELSE cursor + 1
      BY <2>2 DEF HonestListing, Pages
    <3> QED BY <1>3, <1>4, <3>1
  <2> QED BY <2>1, <2>2
<1>5. ASSUME honest'
      PROVE  /\ page = HonestListing
             /\ cursor + 1 \in 1..Pages
             /\ rows \o Wanted(page) \in Seq(Int)
             /\ Once(rows \o Wanted(page), Found(request.wanted, cursor + 1))
             /\ seen = 1..cursor
  <2>1. honest /\ page = HonestListing
    BY <1>1, <1>5
  <2>2. /\ seen = 1..cursor /\ rows \in Seq(Int)
        /\ Once(rows, Found(request.wanted, cursor))
    BY <1>1, <2>1 DEF VenueInv, ListingRows
  <2>3. PICK more, T, U : /\ more = Wanted(page) /\ T = Found(request.wanted, cursor)
                          /\ U = SymbolsOf(Catalog[cursor + 1], request.wanted)
    OBVIOUS
  <2>4. more \in Seq(Int) /\ Once(more, U)
    BY <1>3, <2>1, <2>3, WantedSymbols
  <2>5. T \cap U = {} /\ Found(request.wanted, cursor + 1) = T \cup U
    BY <1>3, <2>3, FoundNext
  <2>6. Once(rows, T)
    BY <2>2, <2>3
  <2>7. Once(rows \o more, T \cup U)
    BY <2>2, <2>4, <2>5, <2>6, JoinedOnce
  <2>8. rows \o more \in Seq(Int)
    BY <2>2, <2>4
  <2>9. cursor + 1 \in 1..Pages
    BY <1>3
  <2> QED BY <2>1, <2>2, <2>3, <2>5, <2>7, <2>8, <2>9
<1> QED BY <1>1, <1>2, <1>4, <1>5

LEMMA TurnListingVenue ==
    ASSUME VenueInv, NEW page \in StrayListings \cup {HonestListing}, TurnListing(page)
    PROVE  VenueInv'
<1>1. /\ TakeListing(page) /\ page.next # 0
      /\ seen' = seen \cup {page.next} /\ cursor' = page.next
      /\ rows' = rows \o Wanted(page) /\ attempt' = 0
      /\ clock' = clock /\ request' = request /\ phase' = phase
      /\ serverTime' = serverTime /\ pageEnd' = pageEnd
  BY DEF TurnListing
<1>2. /\ phase = "pages" /\ request.kind = "instruments" /\ honest' \in BOOLEAN
      /\ page.next \in 1..(Pages - 1)
      /\ honest' => /\ page = HonestListing
                    /\ rows' \in Seq(Int) /\ Once(rows', Found(request.wanted, cursor + 1))
                    /\ seen = 1..cursor
  BY <1>1, ListingTaken
<1>3. Pages \in Nat /\ cursor \in Nat
  BY CatalogFacts DEF VenueInv, TypeOK, Pages
<1>4. cursor' \in 0..(Pages - 1) /\ seen' \subseteq 1..(Pages - 1)
  <2>1. seen \in SUBSET (1..(Pages - 1))
    BY DEF VenueInv, TypeOK, Pages
  <2>2. seen' \in SUBSET (1..(Pages - 1))
    BY <1>1, <1>2, <2>1
  <2>3. cursor' \in 0..(Pages - 1)
    BY <1>1, <1>2, <1>3
  <2> QED BY <2>2, <2>3
<1>5. 0 \in 0..(Attempts - 1)
  BY VenueAssumption
<1>6. TypeOK'
  BY <1>1, <1>2, <1>4, <1>5 DEF VenueInv, TypeOK, OfSeries, Pages
<1>7. ClocksAgree(clock', phase', serverTime', pageEnd', honest')
  BY <1>1, <1>2 DEF VenueInv, ClocksAgree
<1>8. BatchAtHand(request', phase', cursor', seen', rows')
  BY <1>1, <1>2 DEF BatchAtHand
<1>9. SeriesRows(request', phase', serverTime', pageEnd', rows', honest')
  BY <1>1, <1>2 DEF SeriesRows
<1>10. ListingRows(request', phase', cursor', seen', rows', honest')
  <2>1. ASSUME honest' PROVE cursor' = cursor + 1 /\ seen' = 1..cursor'
    <3>1. page.next = IF cursor + 1 = Pages THEN 0 ELSE cursor + 1
      BY <1>2, <2>1 DEF HonestListing, Pages
    <3>2. cursor' = cursor + 1
      BY <1>1, <3>1
    <3>3. seen' = (1..cursor) \cup {cursor + 1}
      BY <1>1, <1>2, <2>1, <3>2
    <3> QED BY <1>3, <3>2, <3>3
  <2> QED BY <1>1, <1>2, <2>1 DEF ListingRows
<1> QED BY <1>6, <1>7, <1>8, <1>9, <1>10 DEF VenueInv

LEMMA FinishListingVenue ==
    ASSUME VenueInv, NEW page \in StrayListings \cup {HonestListing}, FinishListing(page)
    PROVE  VenueInv'
<1>1. PICK found : found = rows \o Wanted(page)
  OBVIOUS
<1>2. /\ TakeListing(page) /\ page.next = 0
      /\ phase' = "done" /\ rows' = Sorted(found, found) /\ attempt' = 0
      /\ clock' = clock /\ request' = request /\ serverTime' = serverTime
      /\ pageEnd' = pageEnd /\ cursor' = cursor /\ seen' = seen
  BY <1>1 DEF FinishListing
<1>3. /\ phase = "pages" /\ request.kind = "instruments" /\ honest' \in BOOLEAN
      /\ honest' => /\ page = HonestListing /\ cursor + 1 \in 1..Pages
                    /\ found \in Seq(Int) /\ Once(found, Found(request.wanted, cursor + 1))
  BY <1>1, <1>2, ListingTaken
<1>4. ASSUME honest' PROVE rows' = Ascending(Found(request.wanted, Pages))
  <2>1. cursor + 1 = Pages
    <3>1. page.next = IF cursor + 1 = Pages THEN 0 ELSE cursor + 1
      BY <1>3, <1>4 DEF HonestListing, Pages
    <3> QED BY <1>2, <1>3, <1>4, <3>1
  <2>2. PICK T : T = Found(request.wanted, Pages)
    OBVIOUS
  <2>3. found \in Seq(Int) /\ Once(found, T)
    BY <1>3, <1>4, <2>1, <2>2
  <2>4. PICK n \in Nat : n = Len(found)
    BY <2>3
  <2>5. found \in [1..n -> Int] /\ DOMAIN found = 1..n
    BY <2>3, <2>4
  <2>6. PICK o : o = Sorting(found)
    OBVIOUS
  <2>7. Permutes(o, n, found, found)
    BY <2>5, <2>6, SortedItems
  <2>8. T \in SUBSET Int
    <3>1. T = {found[i] : i \in 1..n}
      BY <2>3, <2>5 DEF Once
    <3> QED BY <2>5, <3>1
  <2>9. IsFiniteSet(T)
    <3>1. T = {found[i] : i \in 1..n}
      BY <2>3, <2>5 DEF Once
    <3>2. found \in Surjection(1..n, T)
      BY <2>5, <3>1 DEF Surjection
    <3>3. IsFiniteSet(1..n)
      BY FS_Interval
    <3> QED BY <3>2, <3>3, FS_Surjection
  <2>10. [k \in 1..n |-> found[o[k]]] = Ascending(T)
    BY <2>3, <2>5, <2>7, <2>8, <2>9, OrderedOnce
  <2>11. rows' = [k \in 1..n |-> found[o[k]]]
    BY <1>2, <2>7 DEF Permutes
  <2> QED BY <2>2, <2>10, <2>11
<1>5. 0 \in 0..(Attempts - 1)
  BY VenueAssumption
<1>6. TypeOK'
  BY <1>2, <1>5 DEF VenueInv, TypeOK, OfSeries
<1>7. ClocksAgree(clock', phase', serverTime', pageEnd', honest')
  BY <1>2, <1>3 DEF VenueInv, ClocksAgree
<1>8. BatchAtHand(request', phase', cursor', seen', rows')
  BY <1>2 DEF BatchAtHand
<1>9. SeriesRows(request', phase', serverTime', pageEnd', rows', honest')
  BY <1>2, <1>3 DEF SeriesRows
<1>10. ListingRows(request', phase', cursor', seen', rows', honest')
  BY <1>2, <1>3, <1>4 DEF ListingRows
<1> QED BY <1>6, <1>7, <1>8, <1>9, <1>10 DEF VenueInv

LEMMA RefuseVenue ==
    ASSUME VenueInv,
           \/ GiveUp \/ RefuseAnswer
           \/ \E page \in StrayPages \cup {HonestPage} : RefusePage(page)
           \/ \E page \in StrayListings \cup {HonestListing} : RefuseListing(page)
    PROVE  VenueInv'
<1>1. honest \in BOOLEAN
  BY DEF VenueInv, ClocksAgree
<1>2. CASE GiveUp
  BY <1>1, <1>2, FailVenue DEF GiveUp, Asking
<1>3. CASE RefuseAnswer
  BY <1>1, <1>3, FailVenue DEF RefuseAnswer, Asking
<1>4. ASSUME NEW page \in StrayPages \cup {HonestPage}, RefusePage(page) PROVE VenueInv'
  <2>1. Fail /\ TakePage(page)
    BY <1>4 DEF RefusePage
  <2>2. phase # "idle" /\ honest' \in BOOLEAN
    BY <1>1, <2>1 DEF TakePage
  <2> QED BY <2>1, <2>2, FailVenue
<1>5. ASSUME NEW page \in StrayListings \cup {HonestListing}, RefuseListing(page)
      PROVE  VenueInv'
  <2>1. Fail /\ TakeListing(page)
    BY <1>5 DEF RefuseListing
  <2>2. phase # "idle" /\ honest' \in BOOLEAN
    BY <1>1, <2>1 DEF TakeListing
  <2> QED BY <2>1, <2>2, FailVenue
<1> QED BY <1>2, <1>3, <1>4, <1>5

LEMMA StepVenue == ASSUME VenueInv, [Next]_vars PROVE VenueInv'
<1>1. ASSUME Exchange PROVE VenueInv'
  <2>1. CASE Retry
    BY <2>1, RetryVenue
  <2>2. CASE AnswerTime
    BY <2>2, AnswerTimeVenue
  <2>3. CASE GiveUp \/ RefuseAnswer
    BY <2>3, RefuseVenue
  <2>4. CASE AnswerRows
    <3>1. PICK page \in StrayPages \cup {HonestPage} :
             FinishSeries(page) \/ TurnPage(page) \/ RefusePage(page)
      BY <2>4 DEF AnswerRows
    <3> QED BY <3>1, FinishSeriesVenue, TurnPageVenue, RefuseVenue
  <2>5. CASE AnswerListing
    <3>1. PICK page \in StrayListings \cup {HonestListing} :
             TurnListing(page) \/ FinishListing(page) \/ RefuseListing(page)
      BY <2>5 DEF AnswerListing
    <3> QED BY <3>1, TurnListingVenue, FinishListingVenue, RefuseVenue
  <2> QED BY <1>1, <2>1, <2>2, <2>3, <2>4, <2>5 DEF Exchange
<1>2. CASE Tick
  BY <1>2, TickVenue
<1>3. CASE \E r \in Requests : Start(r)
  BY <1>3, StartVenue
<1>4. CASE UNCHANGED vars
  BY <1>4 DEF VenueInv, TypeOK, OfSeries, vars
<1> QED BY <1>1, <1>2, <1>3, <1>4 DEF Next

(***************************************************************************)
(* VenueInv holds in every reachable state: whatever pages are served,     *)
(* what a fetch has collected is final, and from an honest venue it is     *)
(* each closed row after the end of the next page once.                    *)
(***************************************************************************)
THEOREM VenueInvariant == Spec => []VenueInv
<1>1. Init => VenueInv
  BY InitVenue
<1>2. VenueInv /\ [Next]_vars => VenueInv'
  BY StepVenue
<1> QED BY <1>1, <1>2, PTL DEF Spec

(***************************************************************************)
(* The page end stays in the window, the retries in their bound, the       *)
(* cursors in the catalog, and a failed command has no rows, whatever the  *)
(* venue answers.                                                          *)
(***************************************************************************)
THEOREM VenueTypes == Spec => []TypeOK
<1>1. VenueInv => TypeOK
  BY DEF VenueInv
<1> QED BY <1>1, VenueInvariant, PTL

(***************************************************************************)
(* However the venue's clock runs on between pages, and whatever rows a    *)
(* page holds, a download has final rows only.                             *)
(***************************************************************************)
THEOREM DownloadsAreFinal == Spec => []NoProvisionalRow
<1>1. ASSUME VenueInv PROVE NoProvisionalRow
  <2> SUFFICES ASSUME Downloaded, NEW i \in DOMAIN rows
               PROVE  rows[i] = FinalRow(request.kind, rows[i].at)
    BY DEF NoProvisionalRow
  <2>1. request \in SeriesRequests /\ rows \in Seq(FinalRows(request, serverTime))
    BY <1>1 DEF VenueInv, TypeOK, SeriesRows, SeriesRequests, Downloaded, OfSeries
  <2>2. rows[i] \in FinalRows(request, serverTime)
    BY <2>1
  <2> QED BY <2>1, <2>2, FinalRowFacts
<1> QED BY <1>1, VenueInvariant, PTL

(***************************************************************************)
(* From an honest venue, of any page size, history and catalog, a download *)
(* is every closed row of the window once and in order, and a listing each *)
(* eligible instrument asked for.                                          *)
(***************************************************************************)
THEOREM HonestDownloadsAreComplete == Spec => []HonestIsComplete
<1>1. ASSUME VenueInv PROVE HonestIsComplete
  <2> SUFFICES ASSUME phase = "done", honest
               PROVE  IF OfSeries
                        THEN LET order == Ascending(ClosedTimes)
                             IN  rows = [i \in DOMAIN order |->
                                            FinalRow(request.kind, order[i])]
                        ELSE rows = Ascending(ListedSymbols)
    BY DEF HonestIsComplete
  <2>1. CASE OfSeries
    <3>1. ClosedTimes = ClosedAt(request, serverTime)
      BY DEF ClosedTimes, ClosedAt, Length
    <3>2. rows = [i \in DOMAIN Ascending(ClosedAt(request, serverTime)) |->
                     FinalRow(request.kind, Ascending(ClosedAt(request, serverTime))[i])]
      BY <1>1, <2>1 DEF VenueInv, SeriesRows, OfSeries
    <3> QED BY <2>1, <3>1, <3>2
  <2>2. CASE ~OfSeries
    <3>1. rows = Ascending(Found(request.wanted, Pages))
      BY <1>1, <2>2 DEF VenueInv, ListingRows, OfSeries
    <3> QED BY <2>2, <3>1, ListedAreFound
  <2> QED BY <2>1, <2>2
<1> QED BY <1>1, VenueInvariant, PTL

LEMMA SoundRow ==
    ASSUME NEW c, {c.open, c.high, c.low, c.close} \subseteq Int
    PROVE  SoundPrices(c) <=> /\ 0 < c.low /\ c.low <= c.high
                              /\ {c.open, c.close} \subseteq c.low..c.high
<1>1. PICK open \in Int, high \in Int, low \in Int, close \in Int :
         open = c.open /\ high = c.high /\ low = c.low /\ close = c.close
  OBVIOUS
<1>2. SoundPrices(c) <=> \A price \in {open, high, low, close} :
                            price > 0 /\ price \in low..high
  BY <1>1 DEF SoundPrices
<1>3. (\A price \in {open, high, low, close} : price > 0 /\ price \in low..high)
        <=> 0 < low /\ low <= high /\ {open, close} \subseteq low..high
  OBVIOUS
<1> QED BY <1>1, <1>2, <1>3

\* The validator of funding rates counts seconds: a window that ends below
\* the second is beyond it.
WholeSecondWindows ==
    \A r \in SeriesRequests :
        r.kind = "funding" => r.start % Second = 0 /\ r.end % Second = 0

LEMMA VerdictOfBatch ==
    ASSUME WholeSecondWindows, request \in SeriesRequests, NEW asOf \in Int,
           NEW X, rows \in Seq(X), \A i \in DOMAIN rows : IsRow(request.kind, rows[i])
    PROVE  Verdict(asOf) <=> ExactlyTheGrid /\ ClosedBy(asOf)
<1> DEFINE G == Grid(Period, request.start, request.end)
<1>1. /\ request.kind \in Kinds /\ request.start \in Int /\ request.end \in Int
      /\ request.start < request.end /\ Period \in Nat \ {0} /\ Period % Second = 0
  BY RequestTypes, VenueAssumption
<1>2. \A i \in DOMAIN rows : rows[i].at \in Int
  BY DEF IsRow
<1>3. /\ G = {t \in request.start..(request.end - 1) : t % Period = 0}
      /\ [i \in DOMAIN rows |-> rows[i].at] = Stamps(rows)
  BY DEF Grid, Stamps
<1> HIDE DEF G
<1>4. ExactlyTheGrid <=>
         /\ G # {}
         /\ request.kind # "funding" =>
               (request.start % Period = 0 /\ request.end % Period = 0)
         /\ Stamps(rows) = Ascending(G)
         /\ \A i \in DOMAIN rows : Sound(rows[i])
  BY <1>3 DEF ExactlyTheGrid
<1>5. CASE request.kind = "candles"
  <2>1. ASSUME NEW i \in DOMAIN rows
        PROVE  SoundPrices(rows[i]) /\ SoundAmounts(rows[i]) <=> Sound(rows[i])
    <3>1. {rows[i].open, rows[i].high, rows[i].low, rows[i].close} \subseteq Int
      BY <1>5 DEF IsRow
    <3> QED BY <1>5, <3>1, SoundRow DEF Sound, SoundAmounts
  <2>2. Verdict(asOf) <=> ValidCandles(rows, Period, request.start, request.end, asOf)
    BY <1>5 DEF Verdict
  <2>3. ValidCandles(rows, Period, request.start, request.end, asOf) <=>
              /\ G # {}
              /\ request.start % Period = 0 /\ request.end % Period = 0
              /\ Stamps(rows) = Ascending(G)
              /\ \A i \in DOMAIN rows : SoundPrices(rows[i]) /\ SoundAmounts(rows[i])
              /\ \A i \in DOMAIN rows : rows[i].at + Period <= asOf
    BY <1>1, <1>2, CandleVerdict DEF G
  <2>4. ClosedBy(asOf) <=> \A i \in DOMAIN rows : rows[i].at + Period <= asOf
    BY <1>5 DEF ClosedBy
  <2> QED BY <1>4, <1>5, <2>1, <2>2, <2>3, <2>4
<1>6. CASE request.kind = "marks"
  <2>1. ASSUME NEW i \in DOMAIN rows PROVE SoundPrices(rows[i]) <=> Sound(rows[i])
    <3>1. {rows[i].open, rows[i].high, rows[i].low, rows[i].close} \subseteq Int
      BY <1>6 DEF IsRow
    <3> QED BY <1>6, <3>1, SoundRow DEF Sound
  <2>2. Verdict(asOf) <=> ValidMarks(rows, Period, request.start, request.end, asOf)
    BY <1>6 DEF Verdict
  <2>3. ValidMarks(rows, Period, request.start, request.end, asOf) <=>
              /\ G # {}
              /\ request.start % Period = 0 /\ request.end % Period = 0
              /\ Stamps(rows) = Ascending(G)
              /\ \A i \in DOMAIN rows : SoundPrices(rows[i])
              /\ \A i \in DOMAIN rows : rows[i].at + Period <= asOf
    BY <1>1, <1>2, MarkVerdict DEF G
  <2>4. ClosedBy(asOf) <=> \A i \in DOMAIN rows : rows[i].at + Period <= asOf
    BY <1>6 DEF ClosedBy
  <2> QED BY <1>4, <1>6, <2>1, <2>2, <2>3, <2>4
<1>7. CASE request.kind = "funding"
  <2>1. \A i \in DOMAIN rows : rows[i].rate # NotFinite <=> Sound(rows[i])
    BY <1>7 DEF Sound
  <2>2. Verdict(asOf) <=> ValidRates(rows, Period, request.start, request.end, asOf)
    BY <1>7 DEF Verdict
  <2>3. request.start % Second = 0 /\ request.end % Second = 0
    BY <1>7 DEF WholeSecondWindows
  <2>4. ValidRates(rows, Period, request.start, request.end, asOf) <=>
              /\ G # {}
              /\ Stamps(rows) = Ascending(G)
              /\ \A i \in DOMAIN rows : rows[i].rate # NotFinite
              /\ \A i \in DOMAIN rows : rows[i].at <= asOf
    BY <1>1, <1>2, <2>3, RateVerdict DEF G
  <2>5. ClosedBy(asOf) <=> \A i \in DOMAIN rows : rows[i].at <= asOf
    <3>1. ClosedBy(asOf) <=> \A i \in DOMAIN rows : rows[i].at + 0 <= asOf
      BY <1>7 DEF ClosedBy
    <3> QED BY <1>2, <3>1
  <2> QED BY <1>4, <1>7, <2>1, <2>2, <2>4, <2>5
<1> QED BY <1>1, <1>5, <1>6, <1>7 DEF Kinds

\* The rows a verdict is asked for are rows of their kind.
LEMMA RowsAtHand ==
    ASSUME VenueInv, phase = "idle" \/ Downloaded
    PROVE  /\ request \in SeriesRequests /\ serverTime \in Int
           /\ \E X : rows \in Seq(X)
           /\ \A i \in DOMAIN rows : IsRow(request.kind, rows[i])
<1>1. serverTime \in Int
  BY DEF VenueInv, ClocksAgree
<1>2. CASE phase = "idle"
  <2>1. request \in SeriesRequests /\ rows \in Batches(request.kind)
    BY <1>2 DEF VenueInv, BatchAtHand
  <2> QED BY <1>1, <2>1, RowsAssumption
<1>3. CASE Downloaded
  <2>1. request \in SeriesRequests /\ rows \in Seq(FinalRows(request, serverTime))
    BY <1>3 DEF VenueInv, TypeOK, SeriesRows, SeriesRequests, Downloaded, OfSeries
  <2>2. \A i \in DOMAIN rows : rows[i] \in FinalRows(request, serverTime)
    BY <2>1
  <2> QED BY <1>1, <2>1, <2>2, FinalRowFacts
<1> QED BY <1>2, <1>3

(***************************************************************************)
(* The verdict on a batch from anywhere, or on a download, is that its     *)
(* rows are the window's grid, each once and in order, sound and closed.   *)
(***************************************************************************)
THEOREM VerdictsAreExact == ASSUME WholeSecondWindows PROVE Spec => []VerdictExact
<1>1. ASSUME VenueInv PROVE VerdictExact
  <2> SUFFICES ASSUME phase = "idle" \/ Downloaded
               PROVE  Verdict(serverTime) <=> ExactlyTheGrid /\ ClosedBy(serverTime)
    BY DEF VerdictExact
  <2>1. /\ request \in SeriesRequests /\ serverTime \in Int
        /\ \A i \in DOMAIN rows : IsRow(request.kind, rows[i])
    BY <1>1, RowsAtHand
  <2>2. PICK X : rows \in Seq(X)
    BY <1>1, RowsAtHand
  <2> QED BY <2>1, <2>2, VerdictOfBatch
<1> QED BY <1>1, VenueInvariant, PTL

(***************************************************************************)
(* The verdict on a download does not depend on when the venue's clock was *)
(* read: what the client keeps is closed by then.                          *)
(***************************************************************************)
THEOREM VerdictsOnDownloads == ASSUME WholeSecondWindows PROVE Spec => []VerdictOfRows
<1>1. ASSUME VenueInv PROVE VerdictOfRows
  <2> SUFFICES ASSUME Downloaded PROVE Verdict(serverTime) <=> ExactlyTheGrid
    BY DEF VerdictOfRows
  <2>1. /\ request \in SeriesRequests /\ serverTime \in Int
        /\ \A i \in DOMAIN rows : IsRow(request.kind, rows[i])
    BY <1>1, RowsAtHand
  <2>2. rows \in Seq(FinalRows(request, serverTime))
    BY <1>1, <2>1, RequestTypes DEF VenueInv, SeriesRows, Downloaded
  <2>3. Verdict(serverTime) <=> ExactlyTheGrid /\ ClosedBy(serverTime)
    BY <2>1, <2>2, VerdictOfBatch
  <2>4. ASSUME NEW i \in DOMAIN rows
        PROVE  rows[i].at + (IF request.kind = "funding" THEN 0 ELSE Period) <= serverTime
    <3>1. rows[i] \in FinalRows(request, serverTime)
      BY <2>2
    <3>2. rows[i].at \in Served(request, serverTime)
      BY <2>1, <3>1, FinalRowFacts
    <3> QED BY <3>2 DEF Served, Length
  <2>5. ClosedBy(serverTime)
    BY <2>4 DEF ClosedBy
  <2> QED BY <2>3, <2>5
<1> QED BY <1>1, VenueInvariant, PTL

(***************************************************************************)
(* Resampling.  A bucket's group is taken apart into positions: which rows *)
(* it has, and that they come in the order of time.                        *)
(***************************************************************************)

\* A series of candles with parsed numbers.
Candles(batch, n) ==
    /\ n \in Nat /\ DOMAIN batch = 1..n
    /\ \A i \in 1..n : IsRow("candles", batch[i])

\* The rows of a bucket, and their positions.
Members(batch, target, b) == {i \in DOMAIN batch : Bucket(batch[i], target) = b}
GroupOf(batch, target, b) ==
    LET ordered == InTimeOrder(batch)
    IN  Picked(ordered, {i \in DOMAIN ordered : Bucket(ordered[i], target) = b})

\* e runs through the positions, in the order of time.
Grouped(e, c, batch, target, b) ==
    /\ c \in Nat /\ e \in [1..c -> Members(batch, target, b)]
    /\ GroupOf(batch, target, b) = [k \in 1..c |-> batch[e[k]]]
    /\ \A i \in Members(batch, target, b) : \E k \in 1..c : e[k] = i
    /\ \A j, k \in 1..c : j < k => e[j] # e[k] /\ batch[e[j]].at <= batch[e[k]].at

\* What a candle has of its bar by summing up.
Amounts == {"volume", "turnover"}

LEMMA CandleNumbers ==
    ASSUME NEW n, NEW batch, Candles(batch, n), NEW i \in 1..n
    PROVE  /\ batch[i].at \in Int /\ batch[i].open \in Int /\ batch[i].high \in Int
           /\ batch[i].low \in Int /\ batch[i].close \in Int
           /\ \A a \in Amounts : batch[i][a] \in Int
BY DEF Candles, IsRow, Amounts

LEMMA GroupsOfSeries ==
    ASSUME NEW n, NEW batch, Candles(batch, n), NEW target \in Nat \ {0}, NEW b
    PROVE  \E e, c : Grouped(e, c, batch, target, b)
<1> DEFINE keys == [i \in DOMAIN batch |-> batch[i].at]
           o == Sorting(keys)
           ordered == InTimeOrder(batch)
           P == {i \in DOMAIN ordered : Bucket(ordered[i], target) = b}
           c == Cardinality(P)
           a == Ascending(P)
           e == [k \in 1..c |-> o[a[k]]]
<1>1. n \in Nat /\ DOMAIN batch = 1..n
  BY DEF Candles
<1>2. keys \in [1..n -> Int] /\ \A i \in 1..n : keys[i] = batch[i].at
  <2>1. \A i \in 1..n : batch[i].at \in Int
    BY CandleNumbers
  <2> QED BY <1>1, <2>1
<1>3. ordered = Sorted(batch, keys)
  BY DEF InTimeOrder
<1> HIDE DEF keys
<1>4. Permutes(o, n, batch, keys)
  BY <1>1, <1>2, SortedItems
<1> HIDE DEF o, ordered
<1>5. /\ o \in [1..n -> 1..n] /\ ordered = [k \in 1..n |-> batch[o[k]]]
      /\ \A i \in 1..n : \E k \in 1..n : o[k] = i
      /\ \A j, k \in 1..n : j # k => o[j] # o[k]
      /\ \A j, k \in 1..n : j < k => keys[o[j]] <= keys[o[k]]
  BY <1>3, <1>4 DEF Permutes
<1>6. DOMAIN ordered = 1..n /\ \A k \in 1..n : ordered[k] = batch[o[k]]
  BY <1>5
<1>7. P \in SUBSET (1..n) /\ \A k \in 1..n : k \in P <=> Bucket(batch[o[k]], target) = b
  BY <1>6
<1>8. GroupOf(batch, target, b) = Picked(ordered, P)
  BY DEF GroupOf, ordered
<1> HIDE DEF P
<1>9. Selects(a, c, ordered, P)
  BY <1>1, <1>7, PickedItems
<1> HIDE DEF a, c
<1>10. /\ c \in Nat /\ a \in [1..c -> P]
       /\ Picked(ordered, P) = [k \in 1..c |-> ordered[a[k]]]
       /\ \A i \in P : \E k \in 1..c : a[k] = i
       /\ \A j, k \in 1..c : j < k => a[j] < a[k]
  BY <1>9 DEF Selects
<1>11. \A k \in 1..c : a[k] \in P /\ a[k] \in 1..n /\ o[a[k]] \in 1..n /\ e[k] = o[a[k]]
  BY <1>5, <1>7, <1>10
<1>12. \A k \in 1..c : e[k] \in Members(batch, target, b)
  BY <1>1, <1>7, <1>11 DEF Members
<1>13. e \in [1..c -> Members(batch, target, b)]
  <2>1. e = [k \in 1..c |-> e[k]]
    OBVIOUS
  <2> HIDE DEF e
  <2> QED BY <1>12, <2>1
<1>14. GroupOf(batch, target, b) = [k \in 1..c |-> batch[e[k]]]
  <2>1. \A k \in 1..c : ordered[a[k]] = batch[e[k]]
    BY <1>6, <1>11
  <2> HIDE DEF e
  <2> QED BY <1>8, <1>10, <2>1
<1> HIDE DEF e
<1>15. ASSUME NEW i \in Members(batch, target, b) PROVE \E k \in 1..c : e[k] = i
  <2>1. i \in 1..n /\ Bucket(batch[i], target) = b
    BY <1>1 DEF Members
  <2>2. PICK m \in 1..n : o[m] = i
    BY <1>5, <2>1
  <2>3. m \in P
    BY <1>7, <2>1, <2>2
  <2>4. PICK k \in 1..c : a[k] = m
    BY <1>10, <2>3
  <2> QED BY <1>11, <2>2, <2>4
<1>16. ASSUME NEW j \in 1..c, NEW k \in 1..c, j < k
       PROVE  e[j] # e[k] /\ batch[e[j]].at <= batch[e[k]].at
  <2>1. a[j] < a[k] /\ a[j] \in 1..n /\ a[k] \in 1..n
    BY <1>10, <1>11, <1>16
  <2>2. PICK u \in 1..n, v \in 1..n : u = a[j] /\ v = a[k] /\ u < v
    BY <2>1
  <2>3. o[u] # o[v] /\ keys[o[u]] <= keys[o[v]]
    <3>1. u # v
      BY <1>1, <2>2
    <3>2. o[u] # o[v]
      BY <1>5, <3>1
    <3>3. keys[o[u]] <= keys[o[v]]
      BY <1>5, <2>2
    <3> QED BY <3>2, <3>3
  <2> QED BY <1>2, <1>11, <2>2, <2>3
<1>17. Grouped(e, c, batch, target, b)
  BY <1>10, <1>13, <1>14, <1>15, <1>16 DEF Grouped
<1> QED BY <1>17

LEMMA ChainValues ==
    ASSUME NEW p \in Nat \ {0}, NEW n \in Nat \ {0}, NEW at \in [1..n -> Int], Chain(at, n, p)
    PROVE  \A i \in 1..n : at[i] = at[1] + p * (i - 1)
<1> DEFINE Bad == {i \in 1..n : at[i] # at[1] + p * (i - 1)}
<1> SUFFICES ASSUME Bad # {} PROVE FALSE
  OBVIOUS
<1>1. PICK i \in Bad : \A m \in Bad : i <= m
  <2>1. Bad \in SUBSET Nat
    OBVIOUS
  <2> HIDE DEF Bad
  <2> QED BY <2>1, LeastNatural
<1>2. i \in 1..n /\ at[i] # at[1] + p * (i - 1) /\ 1 \in 1..n
  OBVIOUS
<1>3. PICK first \in Int : first = at[1]
  BY <1>2
<1>4. i # 1
  <2>1. i = 1 => at[i] = first + p * (i - 1)
    BY <1>3
  <2> QED BY <1>2, <1>3, <2>1
<1>5. i \in 2..n /\ i - 1 \in 1..n /\ ~(i <= i - 1)
  BY <1>2, <1>4
<1>6. at[i - 1] = first + p * ((i - 1) - 1)
  BY <1>1, <1>3, <1>5
<1>7. at[i] = at[i - 1] + p
  BY <1>5 DEF Chain
<1>8. at[i] = first + p * (i - 1)
  BY <1>5, <1>6, <1>7
<1> QED BY <1>2, <1>3, <1>8

\* The times of the rows of one bucket of the target timeframe.
Slots(source, target, b) == Grid(source, b, b + target)

LEMMA SlotBounds ==
    ASSUME NEW source \in Nat \ {0}, NEW target \in Nat \ {0}, target % source = 0,
           NEW b \in Int, b % target = 0
    PROVE  /\ b + target \in Int /\ b < b + target
           /\ Bounds(source, b, b + target, b, b + target - source)
           /\ Slots(source, target, b) # {}
           /\ b \in Slots(source, target, b) /\ b + target - source \in Slots(source, target, b)
           /\ Slots(source, target, b) \in SUBSET Int /\ IsFiniteSet(Slots(source, target, b))
<1>1. PICK end \in Int : end = b + target
  OBVIOUS
<1>2. b < end
  BY <1>1
<1>3. b % source = 0
  BY MultipleOfMultiple
<1>4. (b + target) % target = 0
  BY NextMultiple
<1>5. end % source = 0
  BY <1>1, <1>4, MultipleOfMultiple
<1>6. Bounds(source, b, end, b, end - source) /\ Grid(source, b, end) # {}
  BY <1>2, <1>3, <1>5, BarBounds
<1>7. \A t \in Int : t \in Grid(source, b, end) <=> t % source = 0 /\ b <= t /\ t <= end - source
  BY <1>6, GridBounds
<1>8. b <= end - source /\ (end - source) % source = 0 /\ end - source \in Int
  <2>1. (end - source) % source = 0
    BY <1>6 DEF Bounds
  <2>2. PICK t \in Grid(source, b, end) : TRUE
    BY <1>6
  <2>3. t \in Int
    BY DEF Grid
  <2> QED BY <1>7, <2>1, <2>2, <2>3
<1>9. b \in Grid(source, b, end) /\ end - source \in Grid(source, b, end)
  BY <1>3, <1>7, <1>8
<1>10. IsFiniteSet(b..(end - 1))
  BY FS_Interval
<1>11. Grid(source, b, end) \in SUBSET (b..(end - 1))
  BY DEF Grid
<1>12. Grid(source, b, end) \in SUBSET Int /\ IsFiniteSet(Grid(source, b, end))
  BY <1>10, <1>11, FS_Subset
<1> QED BY <1>1, <1>2, <1>6, <1>9, <1>12 DEF Slots

\* The times that resample_candles expects are the slots in their order.
Expected(at, c, source, target, b) ==
    c = target \div source /\ \A i \in 1..c : at[i] = b + source * (i - 1)

LEMMA ExpectedTimes ==
    ASSUME NEW source \in Nat \ {0}, NEW target \in Nat \ {0}, target % source = 0,
           NEW b \in Int, b % target = 0, NEW c \in Nat, NEW at \in [1..c -> Int]
    PROVE  /\ Expected(at, c, source, target, b) <=> at = Ascending(Slots(source, target, b))
           /\ Expected(at, c, source, target, b) =>
                 c # 0 /\ at[1] = b /\ at[c] = b + target - source
<1>1. /\ b + target \in Int
      /\ Bounds(source, b, b + target, b, b + target - source)
      /\ Slots(source, target, b) # {}
  BY SlotBounds
<1>2. PICK r \in Int : r = target \div source /\ target = r * source
  <2>1. /\ target \div source \in Int
        /\ target = (target \div source) * source + (target % source)
    BY Quotient
  <2> QED BY <2>1
<1>3. r > 0
  <2>1. ~(r <= 0)
    BY <1>2
  <2> QED BY <2>1
<1>4. ASSUME Expected(at, c, source, target, b)
      PROVE  /\ c # 0 /\ at[1] = b /\ at[c] = b + target - source
             /\ at = Ascending(Slots(source, target, b))
  <2>1. c = r /\ \A i \in 1..c : at[i] = b + source * (i - 1)
    BY <1>2, <1>4 DEF Expected
  <2>2. c # 0 /\ 1 \in 1..c /\ c \in 1..c
    BY <1>3, <2>1
  <2>3. at[1] = b
    BY <2>1, <2>2
  <2>4. at[c] = b + target - source
    <3>1. at[c] = b + source * (c - 1)
      BY <2>1, <2>2
    <3>2. source * (c - 1) = c * source - source
      OBVIOUS
    <3> QED BY <1>2, <2>1, <3>1, <3>2
  <2>5. Chain(at, c, source)
    <3>1. ASSUME NEW i \in 2..c PROVE at[i] = at[i - 1] + source
      <4>1. i \in 1..c /\ i - 1 \in 1..c
        OBVIOUS
      <4>2. at[i] = b + source * (i - 1) /\ at[i - 1] = b + source * ((i - 1) - 1)
        BY <2>1, <4>1
      <4> QED BY <4>2
    <3> QED BY <3>1 DEF Chain
  <2>6. \A i \in 1..c : at[i] % source = 0
    <3>1. PICK q \in Int : b = q * source
      <4>1. b % source = 0
        BY MultipleOfMultiple
      <4> QED BY <4>1, Multiple
    <3>2. ASSUME NEW i \in 1..c PROVE at[i] % source = 0
      <4>1. at[i] = (q + (i - 1)) * source
        BY <2>1, <3>1
      <4>2. q + (i - 1) \in Int /\ at[i] \in Int
        OBVIOUS
      <4> QED BY <4>1, <4>2, Multiple
    <3> QED BY <3>2
  <2>7. at = Ascending(Grid(source, b, b + target))
    <3>1. PICK end \in Int, last \in Int : end = b + target /\ last = b + target - source
      BY <1>1
    <3>2. Bounds(source, b, end, b, last)
      BY <1>1, <3>1
    <3>3. at[1] = b /\ at[c] = last /\ c \in Nat \ {0}
      BY <2>2, <2>3, <2>4, <3>1
    <3>4. at = Ascending(Grid(source, b, end))
      BY <2>5, <2>6, <3>2, <3>3, ChainIsGrid
    <3> QED BY <3>1, <3>4
  <2> QED BY <2>2, <2>3, <2>4, <2>7 DEF Slots
<1>5. ASSUME at = Ascending(Slots(source, target, b))
      PROVE  Expected(at, c, source, target, b)
  <2>1. /\ Grid(source, b, b + target) # {} /\ at = Ascending(Grid(source, b, b + target))
        /\ DOMAIN at = 1..c
    BY <1>1, <1>5 DEF Slots
  <2>2. c # 0 /\ at[1] = b /\ at[c] = b + target - source /\ Chain(at, c, source)
    <3>1. PICK end \in Int, last \in Int : end = b + target /\ last = b + target - source
      BY <1>1
    <3>2. Bounds(source, b, end, b, last)
      BY <1>1, <3>1
    <3>3. Grid(source, b, end) # {} /\ at = Ascending(Grid(source, b, end))
      BY <2>1, <3>1
    <3>4. c # 0 /\ at[1] = b /\ at[c] = last /\ Chain(at, c, source)
      BY <2>1, <3>2, <3>3, GridIsChain
    <3> QED BY <3>1, <3>4
  <2>3. \A i \in 1..c : at[i] = b + source * (i - 1)
    BY <2>2, ChainValues
  <2>4. c \in 1..c
    BY <2>2
  <2>5. b + source * (c - 1) = b + target - source
    BY <2>2, <2>3, <2>4
  <2>6. c * source = r * source
    <3>1. source * (c - 1) = c * source - source
      OBVIOUS
    <3>2. PICK v \in Int, u \in Int : v = source * (c - 1) /\ u = c * source
      OBVIOUS
    <3>3. v = u - source
      BY <3>1, <3>2
    <3>4. b + v = b + target - source
      BY <2>5, <3>2
    <3>5. u = target
      BY <3>3, <3>4
    <3> QED BY <1>2, <3>2, <3>5
  <2>7. c = r
    <3>1. c * source <= r * source /\ r * source < c * source + source
      BY <2>6
    <3> QED BY <3>1, Squeezed
  <2> QED BY <1>2, <2>3, <2>7 DEF Expected
<1> QED BY <1>4, <1>5

(***************************************************************************)
(* A bucket is full when its rows have the slots for their times, each     *)
(* once; its candle is made of them, in whatever order they came.          *)
(***************************************************************************)
Full(batch, source, target, b) ==
    /\ b \in Int /\ b % target = 0
    /\ \A i \in Members(batch, target, b) : batch[i].at \in Slots(source, target, b)
    /\ \A i, j \in Members(batch, target, b) : batch[i].at = batch[j].at => i = j
    /\ \A x \in Slots(source, target, b) : \E i \in Members(batch, target, b) : batch[i].at = x

Highs(batch, M) == {batch[i].high : i \in M}
Lows(batch, M) == {batch[i].low : i \in M}
Amount(batch, a) == [i \in DOMAIN batch |-> batch[i][a]]

\* candle sums the rows of bucket b up.
Summary(candle, batch, source, target, b) ==
    /\ candle.at = b
    /\ \A i \in Members(batch, target, b) :
           /\ batch[i].at = b => candle.open = batch[i].open
           /\ batch[i].at = b + target - source => candle.close = batch[i].close
    /\ candle.high = Max(Highs(batch, Members(batch, target, b)))
    /\ candle.low = Min(Lows(batch, Members(batch, target, b)))
    /\ \A a \in Amounts : candle[a] = SumFunctionOnSet(Amount(batch, a), Members(batch, target, b))

\* at has the times of the rows that e runs through.
Dated(at, e, c, batch) == at \in [1..c -> Int] /\ \A k \in 1..c : at[k] = batch[e[k]].at

LEMMA FullBySlots ==
    ASSUME NEW n, NEW batch, Candles(batch, n),
           NEW source \in Nat \ {0}, NEW target \in Nat \ {0}, target % source = 0,
           NEW b \in Int, b % target = 0,
           NEW e, NEW c, Grouped(e, c, batch, target, b),
           NEW at, Dated(at, e, c, batch)
    PROVE  Full(batch, source, target, b) <=> at = Ascending(Slots(source, target, b))
<1> DEFINE G == Slots(source, target, b)
           M == Members(batch, target, b)
<1>1. G \in SUBSET Int /\ IsFiniteSet(G)
  BY SlotBounds
<1>2. /\ c \in Nat /\ \A k \in 1..c : e[k] \in M
      /\ \A i \in M : \E k \in 1..c : e[k] = i
      /\ \A j, k \in 1..c : j < k => e[j] # e[k] /\ batch[e[j]].at <= batch[e[k]].at
  BY DEF Grouped
<1> HIDE DEF G, M
<1> USE DEF Dated
<1>3. ASSUME Full(batch, source, target, b) PROVE at = Ascending(G)
  <2>1. /\ \A i \in M : batch[i].at \in G
        /\ \A i, j \in M : batch[i].at = batch[j].at => i = j
        /\ \A x \in G : \E i \in M : batch[i].at = x
    BY <1>3 DEF Full, G, M
  <2>2. at \in [1..c -> G]
    <3>1. \A k \in 1..c : at[k] \in G
      BY <1>2, <2>1
    <3> QED BY <3>1
  <2>3. ASSUME NEW x \in G PROVE \E k \in 1..c : at[k] = x
    <3>1. PICK i \in M : batch[i].at = x
      BY <2>1
    <3>2. PICK k \in 1..c : e[k] = i
      BY <1>2
    <3> QED BY <3>1, <3>2
  <2>4. ASSUME NEW j \in 1..c, NEW k \in 1..c, j < k PROVE at[j] < at[k]
    <3>1. e[j] # e[k] /\ batch[e[j]].at <= batch[e[k]].at
      BY <1>2, <2>4
    <3>2. batch[e[j]].at # batch[e[k]].at
      BY <1>2, <2>1, <3>1
    <3>3. at[j] <= at[k] /\ at[j] # at[k] /\ at[j] \in Int /\ at[k] \in Int
      BY <3>1, <3>2
    <3> QED BY <3>3
  <2>5. c \in Nat
    BY <1>2
  <2>6. \A x \in G : \E k \in 1..c : at[k] = x
    BY <2>3
  <2>7. \A j, k \in 1..c : j < k => at[j] < at[k]
    BY <2>4
  <2> QED BY <1>1, <2>2, <2>5, <2>6, <2>7, AscendingUnique
<1>4. ASSUME at = Ascending(G) PROVE Full(batch, source, target, b)
  <2>1. /\ Cardinality(G) \in Nat
        /\ at \in [1..Cardinality(G) -> G]
        /\ \A x \in G : \E k \in 1..Cardinality(G) : at[k] = x
        /\ \A j, k \in 1..Cardinality(G) : j < k => at[j] < at[k]
    BY <1>1, <1>4, AscendingSorted
  <2>2. 1..Cardinality(G) = 1..c
    BY <2>1
  <2>3. /\ \A k \in 1..c : at[k] \in G
        /\ \A x \in G : \E k \in 1..c : at[k] = x
        /\ \A j, k \in 1..c : j < k => at[j] < at[k]
    BY <2>1, <2>2
  <2>4. ASSUME NEW i \in M PROVE batch[i].at \in G
    <3>1. PICK k \in 1..c : e[k] = i
      BY <1>2
    <3> QED BY <2>3, <3>1
  <2>5. ASSUME NEW i \in M, NEW j \in M, batch[i].at = batch[j].at PROVE i = j
    <3>1. PICK k \in 1..c : e[k] = i
      BY <1>2
    <3>2. PICK l \in 1..c : e[l] = j
      BY <1>2
    <3>3. at[k] = at[l] /\ at[k] \in Int
      BY <2>5, <3>1, <3>2
    <3>4. ~(at[k] < at[l]) /\ ~(at[l] < at[k])
      BY <3>3
    <3>5. ~(k < l) /\ ~(l < k)
      BY <2>3, <3>4
    <3>6. k = l
      BY <1>2, <3>5
    <3> QED BY <3>1, <3>2, <3>6
  <2>6. ASSUME NEW x \in G PROVE \E i \in M : batch[i].at = x
    <3>1. PICK k \in 1..c : at[k] = x
      BY <2>3
    <3> QED BY <1>2, <3>1
  <2> QED BY <2>4, <2>5, <2>6 DEF Full, G, M
<1> QED BY <1>3, <1>4 DEF G

LEMMA GroupRows ==
    ASSUME NEW n, NEW batch, Candles(batch, n), NEW target \in Nat \ {0}, NEW b,
           NEW e, NEW c, Grouped(e, c, batch, target, b)
    PROVE  /\ c \in Nat /\ Len(GroupOf(batch, target, b)) = c
           /\ DOMAIN GroupOf(batch, target, b) = 1..c
           /\ \A k \in 1..c : /\ e[k] \in Members(batch, target, b) /\ e[k] \in 1..n
                              /\ GroupOf(batch, target, b)[k] = batch[e[k]]
           /\ c # 0 => /\ Head(GroupOf(batch, target, b)) = batch[e[1]]
                       /\ Last(GroupOf(batch, target, b)) = batch[e[c]]
<1>1. PICK group : group = GroupOf(batch, target, b)
  OBVIOUS
<1>2. /\ c \in Nat /\ group = [k \in 1..c |-> batch[e[k]]]
      /\ \A k \in 1..c : e[k] \in Members(batch, target, b)
  BY <1>1 DEF Grouped
<1>3. \A k \in 1..c : e[k] \in 1..n
  BY <1>2 DEF Members, Candles
<1>4. PICK X : \A i \in 1..n : batch[i] \in X
  <2>1. \A i \in 1..n : batch[i] \in {batch[j] : j \in 1..n}
    OBVIOUS
  <2> QED BY <2>1
<1>5. group \in [1..c -> X]
  BY <1>2, <1>3, <1>4
<1>6. group \in Seq(X) /\ Len(group) = c /\ DOMAIN group = 1..c
  BY <1>2, <1>5
<1>7. c # 0 => Head(group) = group[1] /\ Last(group) = group[c]
  <2>1. c # 0 => group # << >>
    BY <1>6
  <2> QED BY <1>6, <2>1 DEF Last
<1>8. c # 0 => 1 \in 1..c /\ c \in 1..c
  BY <1>2
<1> QED BY <1>1, <1>2, <1>3, <1>6, <1>7, <1>8

LEMMA CompleteIsFull ==
    ASSUME NEW n, NEW batch, Candles(batch, n),
           NEW source \in Nat \ {0}, NEW target \in Nat \ {0}, target % source = 0,
           NEW b \in Int, b % target = 0,
           NEW e, NEW c, Grouped(e, c, batch, target, b)
    PROVE  /\ Complete(GroupOf(batch, target, b), b, source, target)
                 <=> Full(batch, source, target, b)
           /\ Full(batch, source, target, b) =>
                 c # 0 /\ batch[e[1]].at = b /\ batch[e[c]].at = b + target - source
<1>0. /\ c \in Nat /\ Len(GroupOf(batch, target, b)) = c
      /\ DOMAIN GroupOf(batch, target, b) = 1..c
      /\ \A k \in 1..c : /\ e[k] \in Members(batch, target, b) /\ e[k] \in 1..n
                         /\ GroupOf(batch, target, b)[k] = batch[e[k]]
      /\ c # 0 => /\ Head(GroupOf(batch, target, b)) = batch[e[1]]
                  /\ Last(GroupOf(batch, target, b)) = batch[e[c]]
  BY GroupRows
<1> DEFINE group == GroupOf(batch, target, b)
           at == [k \in 1..c |-> batch[e[k]].at]
<1>1. /\ c \in Nat /\ Len(group) = c /\ DOMAIN group = 1..c
      /\ \A k \in 1..c : e[k] \in 1..n /\ group[k] = batch[e[k]]
  BY <1>0
<1>2. at \in [1..c -> Int] /\ \A k \in 1..c : at[k] = batch[e[k]].at
  <2>1. \A k \in 1..c : batch[e[k]].at \in Int
    BY <1>1, CandleNumbers
  <2> QED BY <2>1
<1> HIDE DEF group, at
<1>3. Complete(group, b, source, target) <=> Expected(at, c, source, target, b)
  BY <1>1, <1>2 DEF Complete, Expected
<1>4. Full(batch, source, target, b) <=> at = Ascending(Slots(source, target, b))
  <2>1. Dated(at, e, c, batch)
    BY <1>2 DEF Dated
  <2> QED BY <2>1, FullBySlots
<1>5. c \in Nat
  BY <1>1
<1>6. /\ Expected(at, c, source, target, b) <=> at = Ascending(Slots(source, target, b))
      /\ Expected(at, c, source, target, b) =>
            c # 0 /\ at[1] = b /\ at[c] = b + target - source
  BY <1>2, <1>5, ExpectedTimes
<1>7. c # 0 => at[1] = batch[e[1]].at /\ at[c] = batch[e[c]].at
  <2>1. c # 0 => 1 \in 1..c /\ c \in 1..c
    BY <1>5
  <2> QED BY <1>2, <2>1
<1> QED BY <1>3, <1>4, <1>6, <1>7 DEF group

LEMMA AggregateSums ==
    ASSUME NEW n, NEW batch, Candles(batch, n),
           NEW source \in Nat \ {0}, NEW target \in Nat \ {0}, target % source = 0,
           NEW b, Full(batch, source, target, b),
           NEW e, NEW c, Grouped(e, c, batch, target, b)
    PROVE  Summary(Aggregate(GroupOf(batch, target, b), b), batch, source, target, b)
<1>0. b \in Int /\ b % target = 0
  BY DEF Full
<1>2. c # 0 /\ batch[e[1]].at = b /\ batch[e[c]].at = b + target - source
  <2>1. ASSUME NEW y \in Int, y % target = 0, Grouped(e, c, batch, target, y),
               Full(batch, source, target, y)
        PROVE  c # 0 /\ batch[e[1]].at = y /\ batch[e[c]].at = y + target - source
    BY <2>1, CompleteIsFull
  <2> QED BY <1>0, <2>1
<1> DEFINE group == GroupOf(batch, target, b)
           M == Members(batch, target, b)
<1>1. /\ c \in Nat /\ Len(group) = c /\ DOMAIN group = 1..c
      /\ \A k \in 1..c : e[k] \in M /\ e[k] \in 1..n /\ group[k] = batch[e[k]]
      /\ c # 0 => Head(group) = batch[e[1]] /\ Last(group) = batch[e[c]]
  BY GroupRows
<1>3. /\ \A i \in M : \E k \in 1..c : e[k] = i
      /\ \A j, k \in 1..c : j < k => e[j] # e[k]
  BY DEF Grouped
<1>4. \A i, j \in M : batch[i].at = batch[j].at => i = j
  BY DEF Full
<1>5. M \in SUBSET (1..n) /\ n \in Nat /\ DOMAIN batch = 1..n
  BY DEF Members, Candles
<1> HIDE DEF group, M
<1>6. 1 \in 1..c /\ c \in 1..c
  BY <1>1, <1>2
<1>7. PICK candle : candle = Aggregate(group, b)
  OBVIOUS
<1>8. /\ candle.at = b /\ candle.open = Head(group).open /\ candle.close = Last(group).close
      /\ candle.high = Max({group[i].high : i \in DOMAIN group})
      /\ candle.low = Min({group[i].low : i \in DOMAIN group})
      /\ candle.volume = SumFunction([i \in DOMAIN group |-> group[i].volume])
      /\ candle.turnover = SumFunction([i \in DOMAIN group |-> group[i].turnover])
  BY <1>7 DEF Aggregate
<1>9. ASSUME NEW i \in M
      PROVE  /\ batch[i].at = b => candle.open = batch[i].open
             /\ batch[i].at = b + target - source => candle.close = batch[i].close
  <2>1. batch[i].at = b => i = e[1]
    BY <1>1, <1>2, <1>4, <1>6
  <2>2. batch[i].at = b + target - source => i = e[c]
    BY <1>1, <1>2, <1>4, <1>6
  <2>3. candle.open = batch[e[1]].open /\ candle.close = batch[e[c]].close
    BY <1>1, <1>2, <1>8
  <2> QED BY <2>1, <2>2, <2>3
<1>10. {group[k].high : k \in DOMAIN group} = Highs(batch, M)
  BY <1>1, <1>3 DEF Highs
<1>11. {group[k].low : k \in DOMAIN group} = Lows(batch, M)
  BY <1>1, <1>3 DEF Lows
<1>12. ASSUME NEW a \in Amounts PROVE candle[a] = SumFunctionOnSet(Amount(batch, a), M)
  <2> DEFINE g == [k \in DOMAIN group |-> group[k][a]]
             f == Amount(batch, a)
  <2>0. candle[a] = SumFunction(g)
    <3>1. CASE a = "volume"
      BY <1>8, <3>1
    <3>2. CASE a = "turnover"
      BY <1>8, <3>2
    <3> QED BY <3>1, <3>2 DEF Amounts
  <2>1. DOMAIN g = 1..c /\ \A k \in 1..c : g[k] = batch[e[k]][a]
    BY <1>1
  <2>2. \A i \in 1..n : f[i] = batch[i][a] /\ f[i] \in Int
    BY <1>5, CandleNumbers DEF Amount
  <2> HIDE DEF g, f
  <2>3. \A j, k \in 1..c : e[j] = e[k] => j = k
    <3>1. ASSUME NEW j \in 1..c, NEW k \in 1..c, e[j] = e[k] PROVE j = k
      <4>1. ~(j < k) /\ ~(k < j)
        BY <1>3, <3>1
      <4> QED BY <1>1, <4>1
    <3> QED BY <3>1
  <2>4. Reindexes(e, 1..c, M, f, g)
    <3>1. \A k \in 1..c : e[k] \in M /\ f[e[k]] \in Int /\ g[k] = f[e[k]]
      BY <1>1, <2>1, <2>2
    <3>2. \A i \in M : \E k \in 1..c : e[k] = i
      BY <1>3
    <3> QED BY <2>3, <3>1, <3>2 DEF Reindexes
  <2>5. IsFiniteSet(1..c) /\ IsFiniteSet(M)
    BY <1>1, <1>5, FS_Interval, Counts
  <2>6. SumFunctionOnSet(g, 1..c) = SumFunctionOnSet(f, M)
    BY <2>4, <2>5, SumReindex
  <2>7. SumFunction(g) = SumFunctionOnSet(g, 1..c)
    BY <2>1 DEF SumFunction
  <2> QED BY <2>0, <2>6, <2>7 DEF f
<1>13. /\ candle.high = Max(Highs(batch, M))
       /\ candle.low = Min(Lows(batch, M))
       /\ \A a \in Amounts : candle[a] = SumFunctionOnSet(Amount(batch, a), M)
  BY <1>8, <1>10, <1>11, <1>12
<1> QED BY <1>7, <1>8, <1>9, <1>13 DEF Summary, group, M

LEMMA BucketFacts ==
    ASSUME NEW row, row.at \in Int, NEW target \in Nat \ {0}
    PROVE  /\ Bucket(row, target) \in Int /\ Bucket(row, target) % target = 0
           /\ Bucket(row, target) <= row.at /\ row.at < Bucket(row, target) + target
           /\ \A y \in Int : y % target = 0 /\ y <= row.at /\ row.at < y + target
                                => Bucket(row, target) = y
<1>1. PICK a \in Int : a = row.at
  OBVIOUS
<1>2. PICK q \in Int, r \in Int : q = a \div target /\ r = a % target
                                  /\ a = q * target + r /\ 0 <= r /\ r < target
  BY Quotient
<1>3. PICK u \in Int : u = q * target
  OBVIOUS
<1>4. Bucket(row, target) = u
  <2>1. Bucket(row, target) = a - r
    BY <1>1, <1>2 DEF Bucket
  <2>2. a - r = u
    BY <1>2, <1>3
  <2> QED BY <2>1, <2>2
<1>5. u % target = 0
  BY <1>3, Multiple
<1>6. u <= a /\ a < u + target
  BY <1>2, <1>3
<1>7. ASSUME NEW y \in Int, y % target = 0, y <= a, a < y + target PROVE u = y
  <2>1. PICK p \in Int : y = p * target
    BY <1>7, Multiple
  <2>2. PICK v \in Int : v = p * target
    OBVIOUS
  <2>3. u < v + target /\ v < u + target
    BY <1>6, <1>7, <2>1, <2>2
  <2>4. CASE u <= v
    <3>1. q * target <= p * target /\ p * target < q * target + target
      BY <1>3, <2>2, <2>3, <2>4
    <3>2. q = p
      BY <3>1, Squeezed
    <3> QED BY <1>3, <2>1, <3>2
  <2>5. CASE v <= u
    <3>1. p * target <= q * target /\ q * target < p * target + target
      BY <1>3, <2>2, <2>3, <2>5
    <3>2. p = q
      BY <3>1, Squeezed
    <3> QED BY <1>3, <2>1, <3>2
  <2> QED BY <2>4, <2>5
<1> QED BY <1>1, <1>4, <1>5, <1>6, <1>7

\* The rows of a bucket, by their times.
LEMMA MembersByTime ==
    ASSUME NEW n, NEW batch, Candles(batch, n), NEW target \in Nat \ {0},
           NEW b \in Int, b % target = 0
    PROVE  \A i : i \in Members(batch, target, b)
                    <=> i \in 1..n /\ b <= batch[i].at /\ batch[i].at < b + target
<1> SUFFICES ASSUME NEW i \in 1..n
             PROVE  i \in Members(batch, target, b)
                      <=> b <= batch[i].at /\ batch[i].at < b + target
  BY DEF Members, Candles
<1>1. batch[i].at \in Int
  BY CandleNumbers
<1>2. PICK row : row = batch[i]
  OBVIOUS
<1>3. /\ Bucket(row, target) <= row.at /\ row.at < Bucket(row, target) + target
      /\ b <= row.at /\ row.at < b + target => Bucket(row, target) = b
  BY <1>1, <1>2, BucketFacts
<1> QED BY <1>2, <1>3 DEF Members, Candles

(***************************************************************************)
(* What resample_candles returns: one candle for each full bucket.         *)
(***************************************************************************)
Resampled(out, batch, source, target) ==
    /\ \E m \in Nat : DOMAIN out = 1..m
    /\ \A k \in DOMAIN out : /\ Full(batch, source, target, out[k].at)
                             /\ Summary(out[k], batch, source, target, out[k].at)
    /\ \A j, k \in DOMAIN out : out[j].at = out[k].at => j = k
    /\ \A b : Full(batch, source, target, b) => \E k \in DOMAIN out : out[k].at = b

LEMMA Resampling ==
    ASSUME NEW n, NEW batch, Candles(batch, n),
           NEW source \in Nat \ {0}, NEW target \in Nat \ {0}, target % source = 0
    PROVE  Resampled(resample_candles(batch, source, target), batch, source, target)
<1> DEFINE starts == {Bucket(batch[i], target) : i \in DOMAIN batch}
           B == {b \in starts : Complete(GroupOf(batch, target, b), b, source, target)}
           order == Ascending(B)
           out == resample_candles(batch, source, target)
<1>1. out = [k \in DOMAIN order |-> Aggregate(GroupOf(batch, target, order[k]), order[k])]
  BY DEF resample_candles, GroupOf
<1>2. n \in Nat /\ DOMAIN batch = 1..n
  BY DEF Candles
<1>3. \A b \in starts : b \in Int /\ b % target = 0
  <2>1. ASSUME NEW i \in 1..n
        PROVE  Bucket(batch[i], target) \in Int /\ Bucket(batch[i], target) % target = 0
    <3>1. batch[i].at \in Int
      BY CandleNumbers
    <3> QED BY <3>1, BucketFacts
  <2> QED BY <1>2, <2>1
<1>4. IsFiniteSet(starts)
  <2> DEFINE f == [i \in 1..n |-> Bucket(batch[i], target)]
  <2>1. f \in Surjection(1..n, starts)
    BY <1>2 DEF Surjection
  <2>2. IsFiniteSet(1..n)
    BY <1>2, FS_Interval
  <2> HIDE DEF f, starts
  <2> QED BY <2>1, <2>2, FS_Surjection
<1>5. \A b : b \in B <=> Full(batch, source, target, b)
  <2>1. ASSUME NEW b \in Int, b % target = 0
        PROVE  Complete(GroupOf(batch, target, b), b, source, target)
                 <=> Full(batch, source, target, b)
    <3>1. PICK e, c : Grouped(e, c, batch, target, b)
      BY GroupsOfSeries
    <3> QED BY <2>1, <3>1, CompleteIsFull
  <2>2. ASSUME NEW b, Full(batch, source, target, b) PROVE b \in starts
    <3>1. /\ b \in Int /\ b % target = 0
          /\ \A x \in Slots(source, target, b) :
                \E i \in Members(batch, target, b) : batch[i].at = x
      BY <2>2 DEF Full
    <3>2. b \in Slots(source, target, b)
      BY <3>1, SlotBounds
    <3>3. PICK i \in Members(batch, target, b) : TRUE
      BY <3>1, <3>2
    <3> QED BY <3>3 DEF Members
  <2>3. ASSUME NEW b, Full(batch, source, target, b) PROVE b \in B
    <3>1. b \in starts /\ b \in Int /\ b % target = 0
      BY <1>3, <2>2, <2>3
    <3> QED BY <2>1, <2>3, <3>1
  <2>4. ASSUME NEW b \in B PROVE Full(batch, source, target, b)
    <3>1. b \in Int /\ b % target = 0
      BY <1>3
    <3> QED BY <2>1, <3>1
  <2> HIDE DEF B
  <2> QED BY <2>3, <2>4
<1>6. B \in SUBSET Int /\ IsFiniteSet(B)
  <2>1. B \in SUBSET starts
    OBVIOUS
  <2> HIDE DEF B, starts
  <2> QED BY <1>3, <1>4, <2>1, FS_Subset
<1> HIDE DEF B, out, starts
<1>7. PICK m \in Nat : /\ order \in [1..m -> B]
                       /\ \A b \in B : \E k \in 1..m : order[k] = b
                       /\ \A j, k \in 1..m : j < k => order[j] < order[k]
  BY <1>6, AscendingSorted
<1> HIDE DEF order
<1>8. DOMAIN out = 1..m /\ \A k \in 1..m :
          /\ order[k] \in B /\ order[k] \in Int
          /\ out[k] = Aggregate(GroupOf(batch, target, order[k]), order[k])
  BY <1>1, <1>6, <1>7
<1>9. ASSUME NEW k \in 1..m
      PROVE  /\ out[k].at = order[k]
             /\ Full(batch, source, target, order[k])
             /\ Summary(out[k], batch, source, target, order[k])
  <2>1. PICK b : b = order[k] /\ b \in B
    BY <1>8
  <2>2. Full(batch, source, target, b)
    BY <1>5, <2>1
  <2>3. PICK e, c : Grouped(e, c, batch, target, b)
    BY GroupsOfSeries
  <2>4. Summary(Aggregate(GroupOf(batch, target, b), b), batch, source, target, b)
    BY <2>2, <2>3, AggregateSums
  <2>5. Aggregate(GroupOf(batch, target, b), b).at = b
    BY DEF Aggregate
  <2> QED BY <1>8, <2>1, <2>2, <2>4, <2>5
<1>10. ASSUME NEW j \in 1..m, NEW k \in 1..m, out[j].at = out[k].at PROVE j = k
  <2>1. order[j] = order[k] /\ order[j] \in Int /\ order[k] \in Int
    BY <1>8, <1>9, <1>10
  <2>2. ~(order[j] < order[k]) /\ ~(order[k] < order[j])
    BY <2>1
  <2>3. ~(j < k) /\ ~(k < j)
    BY <1>7, <2>2
  <2> QED BY <2>3
<1>11. ASSUME NEW b, Full(batch, source, target, b) PROVE \E k \in 1..m : out[k].at = b
  <2>1. PICK k \in 1..m : order[k] = b
    BY <1>5, <1>7, <1>11
  <2> QED BY <1>9, <2>1
<1>12. Resampled(out, batch, source, target)
  BY <1>8, <1>9, <1>10, <1>11 DEF Resampled
<1> QED BY <1>12 DEF out

(***************************************************************************)
(* Two stages.  The buckets of the middle timeframe lie inside those of    *)
(* the last.                                                               *)
(***************************************************************************)
Stages(source, middle, target) ==
    /\ source \in Nat \ {0} /\ middle \in Nat \ {0} /\ target \in Nat \ {0}
    /\ middle % source = 0 /\ target % middle = 0

LEMMA NextMultipleAfter ==
    ASSUME NEW p \in Nat \ {0}, NEW a \in Int, NEW b \in Int, a % p = 0, b % p = 0, a < b
    PROVE  a + p <= b
<1> SUFFICES ASSUME b < a + p PROVE FALSE
  OBVIOUS
<1>1. a <= b
  OBVIOUS
<1>2. a = b
  BY <1>1, OneMultiple
<1> QED BY <1>2

LEMMA Nested ==
    ASSUME NEW source, NEW middle, NEW target, Stages(source, middle, target),
           NEW b \in Int, b % target = 0, NEW y \in Int, y % middle = 0,
           NEW x \in Int, y <= x, x < y + middle
    PROVE  /\ b % middle = 0
           /\ b <= x /\ x < b + target <=> b <= y /\ y + middle <= b + target
           /\ b <= x /\ x < b + target <=> y \in Slots(middle, target, b)
<1>1. /\ middle \in Nat \ {0} /\ target \in Nat \ {0} /\ target % middle = 0
      /\ middle \in Int /\ target \in Int
  BY DEF Stages
<1>2. b % middle = 0
  BY <1>1, MultipleOfMultiple
<1>3. PICK end \in Int : end = b + target
  BY <1>1
<1>4. end % middle = 0
  <2>1. (b + target) % target = 0
    BY <1>1, NextMultiple
  <2> QED BY <1>1, <1>3, <2>1, MultipleOfMultiple
<1>5. ASSUME b <= x PROVE b <= y
  <2> SUFFICES ASSUME y < b PROVE FALSE
    OBVIOUS
  <2>1. y + middle <= b
    BY <1>1, <1>2, NextMultipleAfter
  <2> QED BY <1>1, <1>5, <2>1
<1>6. ASSUME x < end PROVE y + middle <= end /\ y < end
  <2>1. y < end
    BY <1>6
  <2> QED BY <1>1, <1>4, <2>1, NextMultipleAfter
<1>7. ASSUME b <= y, y < end PROVE b <= x /\ x < end /\ y + middle <= end
  <2>1. y + middle <= end
    BY <1>1, <1>4, <1>7, NextMultipleAfter
  <2> QED BY <1>1, <1>7, <2>1
<1>8. y + middle <= end => y < end
  BY <1>1
<1>9. y \in Slots(middle, target, b) <=> b <= y /\ y < end
  BY <1>3 DEF Slots, Grid
<1> QED BY <1>2, <1>3, <1>5, <1>6, <1>7, <1>8, <1>9

\* The slot of a later stage that a time belongs to.
LEMMA SlotOf ==
    ASSUME NEW source, NEW middle, NEW target, Stages(source, middle, target),
           NEW b \in Int, b % target = 0, NEW x \in Int, b <= x, x < b + target
    PROVE  \E y \in Slots(middle, target, b) :
               y \in Int /\ y % middle = 0 /\ y <= x /\ x < y + middle
<1>1. middle \in Nat \ {0}
  BY DEF Stages
<1>2. PICK row : row = [at |-> x]
  OBVIOUS
<1>3. row.at = x /\ row.at \in Int
  BY <1>2
<1>4. PICK y \in Int : y = Bucket(row, middle)
  BY <1>1, <1>3, BucketFacts
<1>5. y % middle = 0 /\ y <= x /\ x < y + middle
  BY <1>1, <1>3, <1>4, BucketFacts
<1>6. y \in Slots(middle, target, b)
  BY <1>5, Nested
<1> QED BY <1>5, <1>6

\* A slot of the middle stage that is full has the slots of the source.
LEMMA SourceSlots ==
    ASSUME NEW source, NEW middle, NEW target, Stages(source, middle, target),
           NEW b \in Int, b % target = 0, NEW y \in Slots(middle, target, b)
    PROVE  /\ y \in Int /\ y % middle = 0 /\ b <= y /\ y + middle <= b + target
           /\ \A x \in Int : x \in Slots(source, middle, y)
                 <=> x \in Slots(source, target, b) /\ y <= x /\ x < y + middle
<1>1. /\ middle \in Int /\ target \in Int /\ middle > 0
  BY DEF Stages
<1>2. y \in Int /\ y % middle = 0
  BY DEF Slots, Grid
<1>3. b <= y /\ y + middle <= b + target
  <2>1. y <= y /\ y < y + middle
    BY <1>1, <1>2
  <2> QED BY <1>2, <2>1, Nested
<1>4. ASSUME NEW x \in Int
      PROVE  x \in Slots(source, middle, y)
                 <=> x \in Slots(source, target, b) /\ y <= x /\ x < y + middle
  <2>1. x \in Slots(source, middle, y) <=> x % source = 0 /\ y <= x /\ x < y + middle
    BY <1>1, <1>2 DEF Slots, Grid
  <2>2. x \in Slots(source, target, b) <=> x % source = 0 /\ b <= x /\ x < b + target
    BY <1>1 DEF Slots, Grid
  <2> QED BY <1>1, <1>2, <1>3, <2>1, <2>2
<1> QED BY <1>2, <1>3, <1>4

\* medium is batch in the middle timeframe.
Staged(batch, n, medium, source, middle, target) ==
    /\ Candles(batch, n) /\ Stages(source, middle, target)
    /\ Resampled(medium, batch, source, middle)

LEMMA MiddleRows ==
    ASSUME NEW batch, NEW n, NEW medium, NEW source, NEW middle, NEW target,
           Staged(batch, n, medium, source, middle, target),
           NEW b \in Int, b % target = 0
    PROVE  /\ \A k : k \in Members(medium, target, b) <=>
                        k \in DOMAIN medium /\ medium[k].at \in Slots(middle, target, b)
           /\ \A j, k \in Members(medium, target, b) : medium[j].at = medium[k].at => j = k
<1>1. /\ middle \in Int /\ middle > 0 /\ target \in Nat \ {0} /\ target % middle = 0
      /\ \A k \in DOMAIN medium : Full(batch, source, middle, medium[k].at)
      /\ \A j, k \in DOMAIN medium : medium[j].at = medium[k].at => j = k
  BY DEF Staged, Stages, Resampled
<1>2. ASSUME NEW k \in DOMAIN medium
      PROVE  k \in Members(medium, target, b) <=> medium[k].at \in Slots(middle, target, b)
  <2>1. PICK row : row = medium[k]
    OBVIOUS
  <2>2. row.at \in Int /\ row.at % middle = 0
    BY <1>1, <2>1 DEF Full
  <2>3. /\ Bucket(row, target) <= row.at /\ row.at < Bucket(row, target) + target
        /\ b <= row.at /\ row.at < b + target => Bucket(row, target) = b
    BY <1>1, <2>2, BucketFacts
  <2>4. k \in Members(medium, target, b) <=> Bucket(row, target) = b
    BY <2>1 DEF Members
  <2>5. row.at \in Slots(middle, target, b) <=> b <= row.at /\ row.at < b + target
    BY <1>1, <2>2 DEF Slots, Grid
  <2> QED BY <2>1, <2>3, <2>4, <2>5
<1>3. \A k \in Members(medium, target, b) : k \in DOMAIN medium
  BY DEF Members
<1> QED BY <1>1, <1>2, <1>3

\* A bucket whose middle rows are all there has the rows of their buckets.
LEMMA RowsInStages ==
    ASSUME NEW batch, NEW n, NEW medium, NEW source, NEW middle, NEW target,
           Staged(batch, n, medium, source, middle, target),
           NEW b, Full(medium, middle, target, b)
    PROVE  /\ \A k \in Members(medium, target, b) : \A i :
                  i \in Members(batch, middle, medium[k].at) => i \in Members(batch, target, b)
           /\ \A i \in Members(batch, target, b) : \E k \in Members(medium, target, b) :
                  i \in Members(batch, middle, medium[k].at)
           /\ \A x \in Slots(source, target, b) : \E k \in Members(medium, target, b) :
                  x \in Slots(source, middle, medium[k].at)
<1>1. /\ Candles(batch, n) /\ Stages(source, middle, target) /\ n \in Nat
      /\ middle \in Nat \ {0} /\ target \in Nat \ {0}
  BY DEF Staged, Stages, Candles
<1>2. /\ b \in Int /\ b % target = 0
      /\ \A y \in Slots(middle, target, b) :
             \E k \in Members(medium, target, b) : medium[k].at = y
  BY DEF Full
<1>3. \A i : i \in Members(batch, target, b)
                <=> i \in 1..n /\ b <= batch[i].at /\ batch[i].at < b + target
  BY <1>1, <1>2, MembersByTime
<1>4. ASSUME NEW y \in Slots(middle, target, b)
      PROVE  /\ y \in Int /\ y % middle = 0
             /\ \A i : i \in Members(batch, middle, y)
                    <=> i \in 1..n /\ y <= batch[i].at /\ batch[i].at < y + middle
  <2>1. y \in Int /\ y % middle = 0
    BY DEF Slots, Grid
  <2> QED BY <1>1, <2>1, MembersByTime
<1>5. ASSUME NEW y \in Slots(middle, target, b), NEW i \in Members(batch, middle, y)
      PROVE  i \in Members(batch, target, b)
  <2>1. y \in Int /\ y % middle = 0 /\ i \in 1..n /\ y <= batch[i].at /\ batch[i].at < y + middle
    BY <1>4, <1>5
  <2>2. PICK x \in Int : x = batch[i].at
    BY <1>1, <2>1, CandleNumbers
  <2>3. b <= x /\ x < b + target
    BY <1>1, <1>2, <2>1, <2>2, Nested
  <2> QED BY <1>3, <2>1, <2>2, <2>3
<1>6. ASSUME NEW i \in Members(batch, target, b)
      PROVE  \E k \in Members(medium, target, b) : i \in Members(batch, middle, medium[k].at)
  <2>1. i \in 1..n /\ b <= batch[i].at /\ batch[i].at < b + target
    BY <1>3
  <2>2. PICK x \in Int : x = batch[i].at
    BY <1>1, <2>1, CandleNumbers
  <2>3. PICK y \in Slots(middle, target, b) : y <= x /\ x < y + middle
    <3>1. b <= x /\ x < b + target
      BY <2>1, <2>2
    <3> QED BY <1>1, <1>2, <3>1, SlotOf
  <2>4. i \in Members(batch, middle, y)
    BY <1>4, <2>1, <2>2, <2>3
  <2> QED BY <1>2, <2>4
<1>7. ASSUME NEW x \in Slots(source, target, b)
      PROVE  \E k \in Members(medium, target, b) : x \in Slots(source, middle, medium[k].at)
  <2>1. x \in Int /\ b <= x /\ x < b + target
    BY <1>1, <1>2 DEF Slots, Grid
  <2>2. PICK y \in Slots(middle, target, b) : y <= x /\ x < y + middle
    BY <1>1, <1>2, <2>1, SlotOf
  <2>3. x \in Slots(source, middle, y)
    BY <1>1, <1>2, <2>1, <2>2, SourceSlots
  <2> QED BY <1>2, <2>3
<1>8. \A k \in Members(medium, target, b) : medium[k].at \in Slots(middle, target, b)
  BY DEF Full
<1> QED BY <1>5, <1>6, <1>7, <1>8

LEMMA FullFromStages ==
    ASSUME NEW batch, NEW n, NEW medium, NEW source, NEW middle, NEW target,
           Staged(batch, n, medium, source, middle, target),
           NEW b, Full(medium, middle, target, b)
    PROVE  Full(batch, source, target, b)
<1>1. /\ Stages(source, middle, target) /\ target \in Int /\ b \in Int /\ b % target = 0
      /\ \A k \in Members(medium, target, b) : medium[k].at \in Slots(middle, target, b)
      /\ \A k \in Members(medium, target, b) : k \in DOMAIN medium
      /\ \A k \in DOMAIN medium : Full(batch, source, middle, medium[k].at)
  <2>1. Stages(source, middle, target) /\ target \in Int
    BY DEF Staged, Stages
  <2>2. /\ b \in Int /\ b % target = 0
        /\ \A k \in Members(medium, target, b) : medium[k].at \in Slots(middle, target, b)
    BY DEF Full
  <2>3. \A k \in Members(medium, target, b) : k \in DOMAIN medium
    BY DEF Members
  <2>4. \A k \in DOMAIN medium : Full(batch, source, middle, medium[k].at)
    BY DEF Staged, Resampled
  <2> QED BY <2>1, <2>2, <2>3, <2>4
<1>2. /\ \A k \in Members(medium, target, b) : \A i :
             i \in Members(batch, middle, medium[k].at) => i \in Members(batch, target, b)
      /\ \A i \in Members(batch, target, b) : \E k \in Members(medium, target, b) :
             i \in Members(batch, middle, medium[k].at)
      /\ \A x \in Slots(source, target, b) : \E k \in Members(medium, target, b) :
             x \in Slots(source, middle, medium[k].at)
  BY RowsInStages
<1>3. ASSUME NEW y \in Slots(middle, target, b), NEW x \in Slots(source, middle, y)
      PROVE  x \in Slots(source, target, b)
  <2>1. x \in Int
    BY DEF Slots, Grid
  <2> QED BY <1>1, <2>1, SourceSlots
<1>4. ASSUME NEW i \in Members(batch, target, b)
      PROVE  batch[i].at \in Slots(source, target, b)
  <2>1. PICK k \in Members(medium, target, b) : i \in Members(batch, middle, medium[k].at)
    BY <1>2
  <2>2. batch[i].at \in Slots(source, middle, medium[k].at)
    BY <1>1, <2>1 DEF Full
  <2> QED BY <1>1, <1>3, <2>2
<1>5. ASSUME NEW i \in Members(batch, target, b), NEW j \in Members(batch, target, b),
             batch[i].at = batch[j].at
      PROVE  i = j
  <2>1. PICK k \in Members(medium, target, b) : i \in Members(batch, middle, medium[k].at)
    BY <1>2
  <2>2. Bucket(batch[i], middle) = Bucket(batch[j], middle)
    BY <1>5 DEF Bucket
  <2>3. j \in Members(batch, middle, medium[k].at)
    BY <2>1, <2>2 DEF Members
  <2> QED BY <1>1, <1>5, <2>1, <2>3 DEF Full
<1>6. ASSUME NEW x \in Slots(source, target, b)
      PROVE  \E i \in Members(batch, target, b) : batch[i].at = x
  <2>1. PICK k \in Members(medium, target, b) : x \in Slots(source, middle, medium[k].at)
    BY <1>2
  <2>2. PICK i \in Members(batch, middle, medium[k].at) : batch[i].at = x
    BY <1>1, <2>1 DEF Full
  <2> QED BY <1>2, <2>1, <2>2
<1> QED BY <1>1, <1>4, <1>5, <1>6 DEF Full

LEMMA FullInStages ==
    ASSUME NEW batch, NEW n, NEW medium, NEW source, NEW middle, NEW target,
           Staged(batch, n, medium, source, middle, target),
           NEW b, Full(batch, source, target, b)
    PROVE  Full(medium, middle, target, b)
<1>1. /\ Candles(batch, n) /\ Stages(source, middle, target) /\ n \in Nat
      /\ source \in Nat \ {0} /\ middle \in Nat \ {0} /\ target \in Nat \ {0}
  BY DEF Staged, Stages, Candles
<1>2. /\ b \in Int /\ b % target = 0
      /\ \A i \in Members(batch, target, b) : batch[i].at \in Slots(source, target, b)
      /\ \A i, j \in Members(batch, target, b) : batch[i].at = batch[j].at => i = j
      /\ \A x \in Slots(source, target, b) : \E i \in Members(batch, target, b) : batch[i].at = x
  BY DEF Full
<1>3. ASSUME NEW y \in Slots(middle, target, b) PROVE Full(batch, source, middle, y)
  <2>1. /\ y \in Int /\ y % middle = 0 /\ b <= y /\ y + middle <= b + target
        /\ \A x \in Int : x \in Slots(source, middle, y)
              <=> x \in Slots(source, target, b) /\ y <= x /\ x < y + middle
    BY <1>1, <1>2, SourceSlots
  <2>2. \A i : i \in Members(batch, middle, y)
                 <=> i \in 1..n /\ y <= batch[i].at /\ batch[i].at < y + middle
    BY <1>1, <2>1, MembersByTime
  <2>3. \A i : i \in Members(batch, target, b)
                 <=> i \in 1..n /\ b <= batch[i].at /\ batch[i].at < b + target
    BY <1>1, <1>2, MembersByTime
  <2>4. ASSUME NEW i \in Members(batch, middle, y)
        PROVE  i \in Members(batch, target, b) /\ batch[i].at \in Slots(source, middle, y)
    <3>1. i \in 1..n /\ y <= batch[i].at /\ batch[i].at < y + middle
      BY <2>2
    <3>2. PICK x \in Int : x = batch[i].at
      BY <1>1, <3>1, CandleNumbers
    <3>3. b <= x /\ x < b + target
      BY <1>1, <1>2, <2>1, <3>1, <3>2
    <3>4. i \in Members(batch, target, b)
      BY <2>3, <3>1, <3>2, <3>3
    <3> QED BY <1>2, <2>1, <3>1, <3>2, <3>4
  <2>5. ASSUME NEW x \in Slots(source, middle, y)
        PROVE  \E i \in Members(batch, middle, y) : batch[i].at = x
    <3>1. x \in Int
      BY DEF Slots, Grid
    <3>2. x \in Slots(source, target, b) /\ y <= x /\ x < y + middle
      BY <2>1, <3>1
    <3>3. PICK i \in Members(batch, target, b) : batch[i].at = x
      BY <1>2, <3>2
    <3> QED BY <2>2, <2>3, <3>2, <3>3
  <2> QED BY <1>2, <2>1, <2>4, <2>5 DEF Full
<1>4. /\ \A k : k \in Members(medium, target, b) <=>
                   k \in DOMAIN medium /\ medium[k].at \in Slots(middle, target, b)
      /\ \A j, k \in Members(medium, target, b) : medium[j].at = medium[k].at => j = k
  BY <1>2, MiddleRows
<1>5. ASSUME NEW y \in Slots(middle, target, b)
      PROVE  \E k \in Members(medium, target, b) : medium[k].at = y
  <2>1. PICK k \in DOMAIN medium : medium[k].at = y
    BY <1>3 DEF Staged, Resampled
  <2> QED BY <1>4, <2>1
<1> QED BY <1>2, <1>4, <1>5 DEF Full

(***************************************************************************)
(* What a candle says of its bucket are numbers.                           *)
(***************************************************************************)
LEMMA ExtremesOfRows ==
    ASSUME NEW n, NEW batch, Candles(batch, n), NEW M, M \in SUBSET (1..n), M # {}
    PROVE  /\ Highs(batch, M) \in SUBSET Int /\ Lows(batch, M) \in SUBSET Int
           /\ Max(Highs(batch, M)) \in Highs(batch, M)
           /\ \A x \in Highs(batch, M) : x <= Max(Highs(batch, M))
           /\ Min(Lows(batch, M)) \in Lows(batch, M)
           /\ \A x \in Lows(batch, M) : Min(Lows(batch, M)) <= x
<1> DEFINE highs == {batch[i].high : i \in M}
           lows == {batch[i].low : i \in M}
<1>1. highs \in SUBSET Int /\ lows \in SUBSET Int /\ highs # {} /\ lows # {}
  <2>1. \A i \in M : batch[i].high \in Int /\ batch[i].low \in Int
    BY CandleNumbers
  <2> QED BY <2>1
<1>2. IsFiniteSet(M)
  <2>1. n \in Nat
    BY DEF Candles
  <2> QED BY <2>1, Counts
<1>3. IsFiniteSet(highs)
  <2> DEFINE f == [i \in M |-> batch[i].high]
  <2>1. f \in Surjection(M, highs)
    BY DEF Surjection
  <2> HIDE DEF f, highs
  <2> QED BY <1>2, <2>1, FS_Surjection
<1>4. IsFiniteSet(lows)
  <2> DEFINE f == [i \in M |-> batch[i].low]
  <2>1. f \in Surjection(M, lows)
    BY DEF Surjection
  <2> HIDE DEF f, lows
  <2> QED BY <1>2, <2>1, FS_Surjection
<1> HIDE DEF highs, lows
<1>5. Max(highs) \in highs /\ \A x \in highs : x <= Max(highs)
  BY <1>1, <1>3, LeastAndGreatest
<1>6. Min(lows) \in lows /\ \A x \in lows : Min(lows) <= x
  BY <1>1, <1>4, LeastAndGreatest
<1>7. highs = Highs(batch, M) /\ lows = Lows(batch, M)
  BY DEF highs, lows, Highs, Lows
<1> QED BY <1>1, <1>5, <1>6, <1>7

LEMMA FullHasRows ==
    ASSUME NEW n, NEW batch, Candles(batch, n),
           NEW source \in Nat \ {0}, NEW target \in Nat \ {0}, target % source = 0,
           NEW b, Full(batch, source, target, b)
    PROVE  /\ Members(batch, target, b) \in SUBSET (1..n) /\ Members(batch, target, b) # {}
           /\ \E i \in Members(batch, target, b) : batch[i].at = b
           /\ \E i \in Members(batch, target, b) : batch[i].at = b + target - source
<1>1. /\ b \in Int /\ b % target = 0
      /\ \A x \in Slots(source, target, b) : \E i \in Members(batch, target, b) : batch[i].at = x
  BY DEF Full
<1>2. b \in Slots(source, target, b) /\ b + target - source \in Slots(source, target, b)
  BY <1>1, SlotBounds
<1>3. Members(batch, target, b) \in SUBSET (1..n)
  BY DEF Members, Candles
<1>4. /\ \E i \in Members(batch, target, b) : batch[i].at = b
      /\ \E i \in Members(batch, target, b) : batch[i].at = b + target - source
  BY <1>1, <1>2
<1> QED BY <1>3, <1>4

LEMMA ResampledCandles ==
    ASSUME NEW n, NEW batch, Candles(batch, n),
           NEW source \in Nat \ {0}, NEW target \in Nat \ {0}, target % source = 0,
           NEW out, Resampled(out, batch, source, target)
    PROVE  \E m : Candles(out, m)
<1>1. PICK m \in Nat : DOMAIN out = 1..m
  BY DEF Resampled
<1>2. ASSUME NEW k \in 1..m PROVE IsRow("candles", out[k])
  <2>1. PICK candle, b : candle = out[k] /\ b = out[k].at
    OBVIOUS
  <2>2. Full(batch, source, target, b) /\ Summary(candle, batch, source, target, b)
    BY <1>1, <2>1 DEF Resampled
  <2>3. PICK M : M = Members(batch, target, b)
    OBVIOUS
  <2>4. M \in SUBSET (1..n) /\ M # {}
    BY <2>2, <2>3, FullHasRows
  <2>5. candle.at = b /\ b \in Int
    BY <2>2 DEF Summary, Full
  <2>6. candle.open \in Int
    <3>1. PICK i \in M : batch[i].at = b
      BY <2>2, <2>3, FullHasRows
    <3>2. candle.open = batch[i].open
      BY <2>2, <2>3, <3>1 DEF Summary
    <3>3. i \in 1..n
      BY <2>4
    <3> QED BY <3>2, <3>3, CandleNumbers
  <2>7. candle.close \in Int
    <3>1. PICK i \in M : batch[i].at = b + target - source
      BY <2>2, <2>3, FullHasRows
    <3>2. candle.close = batch[i].close
      BY <2>2, <2>3, <3>1 DEF Summary
    <3>3. i \in 1..n
      BY <2>4
    <3> QED BY <3>2, <3>3, CandleNumbers
  <2>8. candle.high \in Int /\ candle.low \in Int
    <3>1. candle.high = Max(Highs(batch, M)) /\ candle.low = Min(Lows(batch, M))
      BY <2>2, <2>3 DEF Summary
    <3>2. /\ Highs(batch, M) \in SUBSET Int /\ Lows(batch, M) \in SUBSET Int
          /\ Max(Highs(batch, M)) \in Highs(batch, M) /\ Min(Lows(batch, M)) \in Lows(batch, M)
      BY <2>4, ExtremesOfRows
    <3> QED BY <3>1, <3>2
  <2>9. ASSUME NEW a \in Amounts PROVE candle[a] \in Int
    <3>1. candle[a] = SumFunctionOnSet(Amount(batch, a), M)
      BY <2>2, <2>3 DEF Summary
    <3>2. n \in Nat /\ DOMAIN batch = 1..n
      BY DEF Candles
    <3>3. IsFiniteSet(M)
      BY <2>4, <3>2, Counts
    <3>4. \A i \in M : Amount(batch, a)[i] \in Int
      <4>1. \A i \in 1..n : batch[i][a] \in Int
        BY CandleNumbers
      <4> QED BY <2>4, <3>2, <4>1 DEF Amount
    <3> QED BY <3>1, <3>3, <3>4, SumType
  <2> QED BY <2>1, <2>5, <2>6, <2>7, <2>8, <2>9 DEF IsRow, Amounts
<1>3. Candles(out, m)
  BY <1>1, <1>2 DEF Candles
<1> QED BY <1>3

(***************************************************************************)
(* A candle of the last timeframe is the same from both.                   *)
(***************************************************************************)
LEMMA GreatestMaximum ==
    ASSUME NEW x \in Int, NEW y \in Int, NEW S, NEW T, S \in SUBSET Int, T \in SUBSET Int,
           x \in S, \A s \in S : s <= x, y \in T, \A t \in T : t <= y,
           \A s \in S : s \in T, \A t \in T : \E s \in S : t <= s
    PROVE  x = y
<1>1. x <= y
  OBVIOUS
<1>2. PICK s \in S : y <= s
  OBVIOUS
<1>3. s <= x /\ s \in Int
  OBVIOUS
<1> QED BY <1>1, <1>2, <1>3

LEMMA LeastMinimum ==
    ASSUME NEW x \in Int, NEW y \in Int, NEW S, NEW T, S \in SUBSET Int, T \in SUBSET Int,
           x \in S, \A s \in S : x <= s, y \in T, \A t \in T : y <= t,
           \A s \in S : s \in T, \A t \in T : \E s \in S : s <= t
    PROVE  x = y
<1>1. y <= x
  OBVIOUS
<1>2. PICK s \in S : s <= y
  OBVIOUS
<1>3. x <= s /\ s \in Int
  OBVIOUS
<1> QED BY <1>1, <1>2, <1>3

\* The middle candles K are each made of the rows in part[k], the parts of I.
Combined(batch, n, medium, m, K, I, part) ==
    /\ Candles(batch, n) /\ Candles(medium, m)
    /\ K \in SUBSET (1..m) /\ I \in SUBSET (1..n) /\ K # {}
    /\ \A k \in K : /\ part[k] \in SUBSET I /\ part[k] # {}
                    /\ medium[k].high = Max(Highs(batch, part[k]))
                    /\ medium[k].low = Min(Lows(batch, part[k]))
                    /\ \A a \in Amounts :
                          medium[k][a] = SumFunctionOnSet(Amount(batch, a), part[k])
    /\ \A j, k \in K : j # k => part[j] \cap part[k] = {}
    /\ \A i \in I : \E k \in K : i \in part[k]

LEMMA CombinedExtremes ==
    ASSUME NEW batch, NEW n, NEW medium, NEW m, NEW K, NEW I, NEW part,
           Combined(batch, n, medium, m, K, I, part)
    PROVE  /\ Max(Highs(medium, K)) = Max(Highs(batch, I))
           /\ Min(Lows(medium, K)) = Min(Lows(batch, I))
<1>1. /\ Candles(batch, n) /\ Candles(medium, m)
      /\ K \in SUBSET (1..m) /\ K # {} /\ I \in SUBSET (1..n) /\ I # {}
  BY DEF Combined
<1>2. /\ Highs(medium, K) \in SUBSET Int /\ Lows(medium, K) \in SUBSET Int
      /\ Max(Highs(medium, K)) \in Highs(medium, K)
      /\ \A x \in Highs(medium, K) : x <= Max(Highs(medium, K))
      /\ Min(Lows(medium, K)) \in Lows(medium, K)
      /\ \A x \in Lows(medium, K) : Min(Lows(medium, K)) <= x
  BY <1>1, ExtremesOfRows
<1>3. /\ Highs(batch, I) \in SUBSET Int /\ Lows(batch, I) \in SUBSET Int
      /\ Max(Highs(batch, I)) \in Highs(batch, I)
      /\ \A x \in Highs(batch, I) : x <= Max(Highs(batch, I))
      /\ Min(Lows(batch, I)) \in Lows(batch, I)
      /\ \A x \in Lows(batch, I) : Min(Lows(batch, I)) <= x
  BY <1>1, ExtremesOfRows
<1>4. ASSUME NEW k \in K
      PROVE  /\ medium[k].high \in Highs(batch, part[k])
             /\ \A i \in part[k] : batch[i].high <= medium[k].high
             /\ medium[k].low \in Lows(batch, part[k])
             /\ \A i \in part[k] : medium[k].low <= batch[i].low
             /\ part[k] \in SUBSET I
  <2>1. PICK M : M = part[k]
    OBVIOUS
  <2>2. /\ M \in SUBSET I /\ M # {}
        /\ medium[k].high = Max(Highs(batch, M)) /\ medium[k].low = Min(Lows(batch, M))
    BY <2>1 DEF Combined
  <2>3. M \in SUBSET (1..n)
    BY <1>1, <2>2
  <2>4. /\ Max(Highs(batch, M)) \in Highs(batch, M)
        /\ \A x \in Highs(batch, M) : x <= Max(Highs(batch, M))
        /\ Min(Lows(batch, M)) \in Lows(batch, M)
        /\ \A x \in Lows(batch, M) : Min(Lows(batch, M)) <= x
    BY <1>1, <2>2, <2>3, ExtremesOfRows
  <2>5. \A i \in M : batch[i].high \in Highs(batch, M) /\ batch[i].low \in Lows(batch, M)
    BY DEF Highs, Lows
  <2> QED BY <2>1, <2>2, <2>4, <2>5
<1>5. \A x \in Highs(medium, K) : x \in Highs(batch, I)
  BY <1>4 DEF Highs
<1>6. \A x \in Lows(medium, K) : x \in Lows(batch, I)
  BY <1>4 DEF Lows
<1>7. ASSUME NEW x \in Highs(batch, I) PROVE \E y \in Highs(medium, K) : x <= y
  <2>1. PICK i \in I : x = batch[i].high
    BY DEF Highs
  <2>2. PICK k \in K : i \in part[k]
    BY DEF Combined
  <2>3. medium[k].high \in Highs(medium, K)
    BY DEF Highs
  <2> QED BY <1>4, <2>1, <2>2, <2>3
<1>8. ASSUME NEW x \in Lows(batch, I) PROVE \E y \in Lows(medium, K) : y <= x
  <2>1. PICK i \in I : x = batch[i].low
    BY DEF Lows
  <2>2. PICK k \in K : i \in part[k]
    BY DEF Combined
  <2>3. medium[k].low \in Lows(medium, K)
    BY DEF Lows
  <2> QED BY <1>4, <2>1, <2>2, <2>3
<1>9. Max(Highs(medium, K)) = Max(Highs(batch, I))
  <2>1. PICK x \in Int, y \in Int : x = Max(Highs(medium, K)) /\ y = Max(Highs(batch, I))
    BY <1>2, <1>3
  <2>2. x = y
    BY <1>2, <1>3, <1>5, <1>7, <2>1, GreatestMaximum
  <2> QED BY <2>1, <2>2
<1>10. Min(Lows(medium, K)) = Min(Lows(batch, I))
  <2>1. PICK x \in Int, y \in Int : x = Min(Lows(medium, K)) /\ y = Min(Lows(batch, I))
    BY <1>2, <1>3
  <2>2. x = y
    BY <1>2, <1>3, <1>6, <1>8, <2>1, LeastMinimum
  <2> QED BY <2>1, <2>2
<1> QED BY <1>9, <1>10

LEMMA CombinedAmounts ==
    ASSUME NEW batch, NEW n, NEW medium, NEW m, NEW K, NEW I, NEW part,
           Combined(batch, n, medium, m, K, I, part), NEW a \in Amounts
    PROVE  SumFunctionOnSet(Amount(medium, a), K) = SumFunctionOnSet(Amount(batch, a), I)
<1>1. /\ Candles(batch, n) /\ Candles(medium, m) /\ n \in Nat /\ m \in Nat
      /\ K \in SUBSET (1..m) /\ I \in SUBSET (1..n)
      /\ DOMAIN batch = 1..n /\ DOMAIN medium = 1..m
  BY DEF Combined, Candles
<1>2. IsFiniteSet(K) /\ IsFiniteSet(I)
  BY <1>1, Counts
<1>3. \A i \in I : Amount(batch, a)[i] \in Int
  <2>1. \A i \in 1..n : batch[i][a] \in Int
    BY <1>1, CandleNumbers
  <2> QED BY <1>1, <2>1 DEF Amount
<1>4. \A k \in K : Amount(medium, a)[k] = medium[k][a]
  BY <1>1 DEF Amount
<1>5. PartSums(part, K, I, Amount(batch, a), Amount(medium, a))
  BY <1>3, <1>4 DEF PartSums, Combined
<1>6. SumFunctionOnSet(Amount(medium, a), K)
        = SumFunctionOnSet(Amount(batch, a), UNION {part[k] : k \in K})
  BY <1>2, <1>5, SumOfParts
<1>7. UNION {part[k] : k \in K} = I
  BY DEF Combined
<1> QED BY <1>6, <1>7

LEMMA SummariesAgree ==
    ASSUME NEW batch, NEW n, NEW medium, NEW source, NEW middle, NEW target,
           Staged(batch, n, medium, source, middle, target),
           NEW b, Full(medium, middle, target, b), Full(batch, source, target, b),
           NEW late, Summary(late, medium, middle, target, b),
           NEW direct, Summary(direct, batch, source, target, b)
    PROVE  /\ late.open = direct.open /\ late.close = direct.close
           /\ late.high = direct.high /\ late.low = direct.low
           /\ \A a \in Amounts : late[a] = direct[a]
<1>1. /\ Candles(batch, n) /\ Resampled(medium, batch, source, middle)
      /\ source \in Nat \ {0} /\ middle \in Nat \ {0} /\ target \in Nat \ {0}
      /\ middle % source = 0 /\ target % middle = 0
  BY DEF Staged, Stages
<1>2. target % source = 0
  <2>1. target \in Int
    BY <1>1
  <2> QED BY <1>1, <2>1, MultipleOfMultiple
<1>3. PICK m : Candles(medium, m)
  BY <1>1, ResampledCandles
<1>4. PICK K : K = Members(medium, target, b)
  OBVIOUS
<1>5. PICK I : I = Members(batch, target, b)
  OBVIOUS
<1>6. /\ K \in SUBSET (1..m) /\ K # {}
      /\ \E k \in K : medium[k].at = b
      /\ \E k \in K : medium[k].at = b + target - middle
  BY <1>1, <1>3, <1>4, FullHasRows
<1>7. I \in SUBSET (1..n)
  BY <1>1, <1>2, <1>5, FullHasRows
<1>8. /\ \A k \in K : \A i : i \in Members(batch, middle, medium[k].at) => i \in I
      /\ \A i \in I : \E k \in K : i \in Members(batch, middle, medium[k].at)
  BY <1>4, <1>5, RowsInStages
<1>9. ASSUME NEW k \in K
      PROVE  /\ Full(batch, source, middle, medium[k].at)
             /\ Summary(medium[k], batch, source, middle, medium[k].at)
  <2>1. k \in DOMAIN medium
    BY <1>4 DEF Members
  <2> QED BY <1>1, <2>1 DEF Resampled
<1>10. late.open = direct.open
  <2>1. PICK k \in K : medium[k].at = b
    BY <1>6
  <2>2. late.open = medium[k].open
    BY <1>4, <2>1 DEF Summary
  <2>3. Full(batch, source, middle, b) /\ Summary(medium[k], batch, source, middle, b)
    BY <1>9, <2>1
  <2>4. PICK i \in Members(batch, middle, b) : batch[i].at = b
    BY <1>1, <2>3, FullHasRows
  <2>5. medium[k].open = batch[i].open
    BY <2>3, <2>4 DEF Summary
  <2>6. i \in I
    BY <1>8, <2>1
  <2>7. direct.open = batch[i].open
    BY <1>5, <2>4, <2>6 DEF Summary
  <2> QED BY <2>2, <2>5, <2>7
<1>11. late.close = direct.close
  <2>1. PICK k \in K : medium[k].at = b + target - middle
    BY <1>6
  <2>2. late.close = medium[k].close
    BY <1>4, <2>1 DEF Summary
  <2>3. PICK z : z = medium[k].at
    OBVIOUS
  <2>4. Full(batch, source, middle, z) /\ Summary(medium[k], batch, source, middle, z)
    BY <1>9, <2>3
  <2>5. PICK i \in Members(batch, middle, z) : batch[i].at = z + middle - source
    BY <1>1, <2>4, FullHasRows
  <2>6. medium[k].close = batch[i].close
    BY <2>4, <2>5 DEF Summary
  <2>7. i \in I
    BY <1>8, <2>3
  <2>8. z + middle - source = b + target - source
    <3>1. b \in Int /\ source \in Int /\ middle \in Int /\ target \in Int
      BY <1>1 DEF Full
    <3> QED BY <2>1, <2>3, <3>1
  <2>9. direct.close = batch[i].close
    BY <1>5, <2>5, <2>7, <2>8 DEF Summary
  <2> QED BY <2>2, <2>6, <2>9
<1>12. PICK part : part = [k \in K |-> Members(batch, middle, medium[k].at)]
  OBVIOUS
<1>13. \A k \in K : part[k] = Members(batch, middle, medium[k].at)
  BY <1>12
<1>14. Combined(batch, n, medium, m, K, I, part)
  <2>1. ASSUME NEW k \in K
        PROVE  /\ part[k] \in SUBSET I /\ part[k] # {}
               /\ medium[k].high = Max(Highs(batch, part[k]))
               /\ medium[k].low = Min(Lows(batch, part[k]))
               /\ \A a \in Amounts :
                     medium[k][a] = SumFunctionOnSet(Amount(batch, a), part[k])
    <3>1. PICK z : z = medium[k].at
      OBVIOUS
    <3>2. part[k] = Members(batch, middle, z)
      BY <1>13, <3>1
    <3>3. Full(batch, source, middle, z) /\ Summary(medium[k], batch, source, middle, z)
      BY <1>9, <3>1
    <3>4. part[k] # {}
      BY <1>1, <3>2, <3>3, FullHasRows
    <3>5. part[k] \in SUBSET I
      BY <1>8, <3>1, <3>2
    <3> QED BY <3>2, <3>3, <3>4, <3>5 DEF Summary
  <2>2. ASSUME NEW j \in K, NEW k \in K, j # k PROVE part[j] \cap part[k] = {}
    <3>1. j \in DOMAIN medium /\ k \in DOMAIN medium
      BY <1>4 DEF Members
    <3>2. medium[j].at # medium[k].at
      BY <1>1, <2>2, <3>1 DEF Resampled
    <3> QED BY <1>13, <3>2 DEF Members
  <2>3. \A i \in I : \E k \in K : i \in part[k]
    BY <1>8, <1>13
  <2> QED BY <1>1, <1>3, <1>6, <1>7, <2>1, <2>2, <2>3 DEF Combined
<1>15. late.high = direct.high /\ late.low = direct.low
  <2>1. /\ Max(Highs(medium, K)) = Max(Highs(batch, I))
        /\ Min(Lows(medium, K)) = Min(Lows(batch, I))
    BY <1>14, CombinedExtremes
  <2>2. late.high = Max(Highs(medium, K)) /\ late.low = Min(Lows(medium, K))
    BY <1>4 DEF Summary
  <2>3. direct.high = Max(Highs(batch, I)) /\ direct.low = Min(Lows(batch, I))
    BY <1>5 DEF Summary
  <2> QED BY <2>1, <2>2, <2>3
<1>16. ASSUME NEW a \in Amounts PROVE late[a] = direct[a]
  <2>1. SumFunctionOnSet(Amount(medium, a), K) = SumFunctionOnSet(Amount(batch, a), I)
    BY <1>14, CombinedAmounts
  <2>2. late[a] = SumFunctionOnSet(Amount(medium, a), K)
    BY <1>4 DEF Summary
  <2>3. direct[a] = SumFunctionOnSet(Amount(batch, a), I)
    BY <1>5 DEF Summary
  <2> QED BY <2>1, <2>2, <2>3
<1> QED BY <1>10, <1>11, <1>15, <1>16

\* Whatever candles: two stages give the buckets and the fields of one.
LEMMA StagesCompose ==
    ASSUME NEW batch, NEW n, NEW medium, NEW source, NEW middle, NEW target,
           Staged(batch, n, medium, source, middle, target),
           NEW late, Resampled(late, medium, middle, target),
           NEW direct, Resampled(direct, batch, source, target)
    PROVE  /\ Times(late) = Times(direct)
           /\ \A i \in DOMAIN late : \A j \in DOMAIN direct : late[i].at = direct[j].at =>
                 /\ late[i].open = direct[j].open /\ late[i].close = direct[j].close
                 /\ late[i].high = direct[j].high /\ late[i].low = direct[j].low
                 /\ \A a \in Amounts : late[i][a] = direct[j][a]
<1>1. \A b : Full(medium, middle, target, b) <=> Full(batch, source, target, b)
  <2>1. ASSUME NEW b, Full(medium, middle, target, b) PROVE Full(batch, source, target, b)
    BY <2>1, FullFromStages
  <2>2. ASSUME NEW b, Full(batch, source, target, b) PROVE Full(medium, middle, target, b)
    BY <2>2, FullInStages
  <2> QED BY <2>1, <2>2
<1>2. ASSUME NEW x PROVE x \in Times(late) <=> Full(medium, middle, target, x)
  <2>1. x \in Times(late) => Full(medium, middle, target, x)
    BY DEF Times, Resampled
  <2>2. Full(medium, middle, target, x) => x \in Times(late)
    BY DEF Times, Resampled
  <2> QED BY <2>1, <2>2
<1>3. ASSUME NEW x PROVE x \in Times(direct) <=> Full(batch, source, target, x)
  <2>1. x \in Times(direct) => Full(batch, source, target, x)
    BY DEF Times, Resampled
  <2>2. Full(batch, source, target, x) => x \in Times(direct)
    BY DEF Times, Resampled
  <2> QED BY <2>1, <2>2
<1>4. Times(late) = Times(direct)
  BY <1>1, <1>2, <1>3
<1>5. ASSUME NEW i \in DOMAIN late, NEW j \in DOMAIN direct, late[i].at = direct[j].at
      PROVE  /\ late[i].open = direct[j].open /\ late[i].close = direct[j].close
             /\ late[i].high = direct[j].high /\ late[i].low = direct[j].low
             /\ \A a \in Amounts : late[i][a] = direct[j][a]
  <2>1. PICK b : b = late[i].at
    OBVIOUS
  <2>2. Full(medium, middle, target, b) /\ Summary(late[i], medium, middle, target, b)
    BY <2>1 DEF Resampled
  <2>3. Full(batch, source, target, b) /\ Summary(direct[j], batch, source, target, b)
    BY <1>5, <2>1 DEF Resampled
  <2> QED BY <2>2, <2>3, SummariesAgree
<1> QED BY <1>4, <1>5

\* The parity check compares numbers, and finds no gap between equal ones.
LEMMA ParityOfEquals ==
    ASSUME NEW late, NEW n, Candles(late, n), NEW direct,
           \A i \in DOMAIN late : \A j \in DOMAIN direct : late[i].at = direct[j].at =>
                 /\ late[i].open = direct[j].open /\ late[i].close = direct[j].close
                 /\ late[i].high = direct[j].high /\ late[i].low = direct[j].low
                 /\ \A a \in Amounts : late[i][a] = direct[j][a]
    PROVE  compare_candle_parity(late, direct, 0) = {}
<1> SUFFICES ASSUME NEW x, x.field \in {"open", "high", "low", "close"} \cup Amounts,
                    NEW i \in DOMAIN late, NEW j \in DOMAIN direct,
                    late[i].at = x.at, direct[j].at = x.at,
                    \/ late[i][x.field] - direct[j][x.field] > 0
                    \/ -(late[i][x.field] - direct[j][x.field]) > 0
             PROVE  FALSE
  BY DEF compare_candle_parity, Amounts
<1>1. late[i].at = direct[j].at
  OBVIOUS
<1>2. /\ late[i].open = direct[j].open /\ late[i].close = direct[j].close
      /\ late[i].high = direct[j].high /\ late[i].low = direct[j].low
      /\ \A a \in Amounts : late[i][a] = direct[j][a]
  BY <1>1
<1>3. /\ late[i].open \in Int /\ late[i].high \in Int /\ late[i].low \in Int
      /\ late[i].close \in Int /\ \A a \in Amounts : late[i][a] \in Int
  BY CandleNumbers DEF Candles
<1>4. late[i][x.field] = direct[j][x.field] /\ late[i][x.field] \in Int
  BY <1>2, <1>3
<1>5. PICK v \in Int : v = late[i][x.field] /\ v = direct[j][x.field]
  BY <1>4
<1> QED BY <1>5

(***************************************************************************)
(* Resampling in two stages is resampling at once, of every series that is *)
(* read from elsewhere or downloaded (resample_candles), and the parity    *)
(* check (compare_candle_parity) reports nothing.                          *)
(***************************************************************************)
THEOREM ResamplingComposes == Spec => []ResampleComposes
<1>1. ASSUME VenueInv PROVE ResampleComposes
  <2> SUFFICES ASSUME phase = "idle" \/ Downloaded, request.kind = "candles"
               PROVE  LET medium == resample_candles(rows, Period, Medium)
                          staged == resample_candles(medium, Medium, Large)
                          direct == resample_candles(rows, Period, Large)
                      IN  /\ Times(staged) = Times(direct)
                          /\ compare_candle_parity(staged, direct, 0) = {}
    BY DEF ResampleComposes
  <2>1. \A i \in DOMAIN rows : IsRow("candles", rows[i])
    BY <1>1, RowsAtHand
  <2>2. PICK X : rows \in Seq(X)
    BY <1>1, RowsAtHand
  <2>3. PICK batch, n : batch = rows /\ Candles(batch, n)
    <3>1. Len(rows) \in Nat /\ DOMAIN rows = 1..Len(rows)
      BY <2>2
    <3>2. Candles(rows, Len(rows))
      BY <2>1, <3>1 DEF Candles
    <3> QED BY <3>2
  <2>4. Stages(Period, Medium, Large)
    BY VenueAssumption, TimeframesAssumption DEF Stages
  <2>5. /\ Period \in Nat \ {0} /\ Medium \in Nat \ {0} /\ Large \in Nat \ {0}
        /\ Medium % Period = 0 /\ Large % Medium = 0 /\ Large \in Int
    BY <2>4 DEF Stages
  <2>6. Large % Period = 0
    BY <2>5, MultipleOfMultiple
  <2>7. PICK medium : medium = resample_candles(batch, Period, Medium)
    OBVIOUS
  <2>8. Resampled(medium, batch, Period, Medium)
    BY <2>3, <2>5, <2>7, Resampling
  <2>9. PICK m : Candles(medium, m)
    BY <2>3, <2>5, <2>8, ResampledCandles
  <2>10. PICK staged : staged = resample_candles(medium, Medium, Large)
    OBVIOUS
  <2>11. Resampled(staged, medium, Medium, Large)
    BY <2>5, <2>9, <2>10, Resampling
  <2>12. PICK l : Candles(staged, l)
    BY <2>5, <2>9, <2>11, ResampledCandles
  <2>13. PICK direct : direct = resample_candles(batch, Period, Large)
    OBVIOUS
  <2>14. Resampled(direct, batch, Period, Large)
    BY <2>3, <2>5, <2>6, <2>13, Resampling
  <2>15. Staged(batch, n, medium, Period, Medium, Large)
    BY <2>3, <2>4, <2>8 DEF Staged
  <2>16. Times(staged) = Times(direct)
    BY <2>11, <2>14, <2>15, StagesCompose
  <2>17. compare_candle_parity(staged, direct, 0) = {}
    <3>1. \A i \in DOMAIN staged : \A j \in DOMAIN direct : staged[i].at = direct[j].at =>
             /\ staged[i].open = direct[j].open /\ staged[i].close = direct[j].close
             /\ staged[i].high = direct[j].high /\ staged[i].low = direct[j].low
             /\ \A a \in Amounts : staged[i][a] = direct[j][a]
      BY <2>11, <2>14, <2>15, StagesCompose
    <3> QED BY <2>12, <3>1, ParityOfEquals
  <2> QED BY <2>3, <2>7, <2>10, <2>13, <2>16, <2>17
<1> QED BY <1>1, VenueInvariant, PTL
=============================================================================
