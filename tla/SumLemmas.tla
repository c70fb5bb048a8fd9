------------------------------ MODULE SumLemmas -----------------------------
(***************************************************************************)
(* Sums over finite sets: what the fold SumFunctionOnSet of the community  *)
(* modules returns for every function and every finite set.  The facts are *)
(* proved from the well-foundedness of the strict subsets of a finite set, *)
(* by looking at a smallest counterexample.                                *)
(***************************************************************************)
EXTENDS Integers, FiniteSetsExt, FiniteSetTheorems, TLAPS

(***************************************************************************)
(* A nonempty set of subsets of a finite set has a member that contains no *)
(* other member: induction on finite sets, stated without an operator.     *)
(***************************************************************************)
LEMMA SmallestSubset ==
    ASSUME NEW S, IsFiniteSet(S), NEW T \in SUBSET (SUBSET S), T # {}
    PROVE  \E s \in T : \A t \in T : t \subseteq s => t = s
<1>1. IsWellFoundedOn(StrictSubsetOrdering(S), SUBSET S)
  BY FS_StrictSubsetOrderingWellFounded, FS_FiniteSubsetsOfFinite
<1>2. PICK s \in T : \A t \in T : ~(<<t, s>> \in StrictSubsetOrdering(S))
  BY <1>1, WFMin
<1>3. ASSUME NEW t \in T, t \subseteq s PROVE t = s
  BY <1>2, <1>3 DEF StrictSubsetOrdering
<1> QED BY <1>3

(***************************************************************************)
(* Subsets of an interval are finite and counted, and values at a nonempty *)
(* set of such indices have a greatest.                                    *)
(***************************************************************************)
LEMMA Counts ==
    ASSUME NEW n \in Nat, NEW S \in SUBSET (1..n)
    PROVE  /\ IsFiniteSet(S) /\ Cardinality(S) \in Nat
           /\ \A T \in SUBSET S : Cardinality(T) <= Cardinality(S)
           /\ S = {} => Cardinality(S) = 0
<1>1. IsFiniteSet(1..n)
  BY FS_Interval
<1>2. IsFiniteSet(S)
  BY <1>1, FS_Subset
<1> QED BY <1>2, FS_Subset, FS_CardinalityType, FS_EmptySet

LEMMA GreatestAt ==
    ASSUME NEW n \in Nat, NEW v \in [1..n -> Int], NEW I \in SUBSET (1..n), I # {}
    PROVE  \E m \in I : \A i \in I : v[i] <= v[m]
<1> DEFINE above(i) == {j \in I : v[j] >= v[i]}
           T == {above(i) : i \in I}
           all == I
<1>0. IsFiniteSet(all)
  BY Counts
<1>1. T \in SUBSET (SUBSET all) /\ T # {}
  OBVIOUS
<1> HIDE DEF T, above, all
<1>2. PICK s \in T : \A t \in T : t \subseteq s => t = s
  BY <1>0, <1>1, SmallestSubset
<1>3. PICK m \in I : s = above(m)
  BY <1>2 DEF T
<1>4. ASSUME NEW i \in I, v[i] > v[m] PROVE FALSE
  <2>1. above(i) \in T
    BY DEF T
  <2>2. v[i] \in Int /\ v[m] \in Int /\ \A j \in I : v[j] \in Int
    OBVIOUS
  <2>3. \A j \in I : v[j] >= v[i] => v[j] >= v[m]
    BY <1>4, <2>2
  <2>4. above(i) \subseteq above(m)
    BY <2>3 DEF above
  <2>5. m \in above(m) /\ m \notin above(i)
    BY <1>4, <2>2 DEF above
  <2> QED BY <1>2, <1>3, <2>1, <2>4, <2>5
<1>5. \A i \in I : v[i] \in Int /\ v[m] \in Int
  OBVIOUS
<1> QED BY <1>4, <1>5

(***************************************************************************)
(* A nonempty set of naturals has a least member.                          *)
(***************************************************************************)
LEMMA LeastNatural ==
    ASSUME NEW T \in SUBSET Nat, T # {}
    PROVE  \E n \in T : \A m \in T : n <= m
<1>1. PICK top \in T : TRUE
  OBVIOUS
<1> DEFINE U == {0..n : n \in {m \in T : m <= top}}
<1> DEFINE all == 0..top
<1>2. IsFiniteSet(all)
  BY <1>1, FS_Interval
<1>3. U \in SUBSET (SUBSET all) /\ U # {}
  <2>1. 0..top \in U
    BY <1>1
  <2> QED BY <1>1, <2>1
<1> HIDE DEF U, all
<1>4. PICK s \in U : \A t \in U : t \subseteq s => t = s
  BY <1>2, <1>3, SmallestSubset
<1>5. PICK n \in T : n <= top /\ s = 0..n
  BY <1>4 DEF U
<1>6. ASSUME NEW m \in T, m < n PROVE FALSE
  <2>1. 0..m \in U /\ 0..m \subseteq 0..n
    BY <1>1, <1>5, <1>6 DEF U
  <2>2. 0..m = 0..n
    BY <1>4, <1>5, <2>1
  <2> QED BY <1>6, <2>2
<1>7. \A m \in T : n <= m
  BY <1>6
<1> QED BY <1>7
-----------------------------------------------------------------------------
Chosen(s) == CHOOSE x \in s : TRUE

\* h is the recursive function inside the fold of f over S.
SumTable(h, f, S) ==
    h = [s \in SUBSET S |-> IF s = {} THEN 0
                            ELSE f[Chosen(s)] + h[s \ {Chosen(s)}]]

LEMMA ChosenMember == ASSUME NEW s, s # {} PROVE Chosen(s) \in s
BY DEF Chosen

LEMMA SumUnfolds ==
    ASSUME NEW f, NEW S
    PROVE  SumFunctionOnSet(f, S) = (CHOOSE h : SumTable(h, f, S))[S]
BY DEF SumFunctionOnSet, FoldFunctionOnSet, MapThenFoldSet, SumTable, Chosen

\* Two such functions agree where both are defined.
LEMMA TablesAgree ==
    ASSUME NEW S, NEW T, IsFiniteSet(S), NEW f, NEW g, NEW h,
           SumTable(g, f, S), SumTable(h, f, T)
    PROVE  \A s \in SUBSET S : s \subseteq T => g[s] = h[s]
<1> DEFINE Bad == {s \in SUBSET S : s \subseteq T /\ g[s] # h[s]}
<1> SUFFICES ASSUME Bad # {} PROVE FALSE
  OBVIOUS
<1>0. Bad \in SUBSET (SUBSET S)
  OBVIOUS
<1> HIDE DEF Bad
<1>1. PICK s \in Bad : \A t \in Bad : t \subseteq s => t = s
  BY <1>0, SmallestSubset
<1> USE DEF Bad
<1>2. CASE s = {}
  BY <1>2 DEF SumTable
<1>3. CASE s # {}
  <2>1. Chosen(s) \in s
    BY <1>3, ChosenMember
  <2>2. g[s \ {Chosen(s)}] = h[s \ {Chosen(s)}]
    BY <1>1, <2>1
  <2>3. /\ g[s] = f[Chosen(s)] + g[s \ {Chosen(s)}]
        /\ h[s] = f[Chosen(s)] + h[s \ {Chosen(s)}]
    BY <1>3 DEF SumTable
  <2> QED BY <2>2, <2>3
<1> QED BY <1>2, <1>3

\* The recursion defines a function on every finite set.
LEMMA TableExists ==
    ASSUME NEW S, IsFiniteSet(S), NEW f
    PROVE  \E h : SumTable(h, f, S)
<1> DEFINE Bad == {s \in SUBSET S : ~\E h : SumTable(h, f, s)}
<1> SUFFICES ASSUME Bad # {} PROVE FALSE
  OBVIOUS
<1>0. Bad \in SUBSET (SUBSET S)
  OBVIOUS
<1> HIDE DEF Bad
<1>1. PICK s \in Bad : \A t \in Bad : t \subseteq s => t = s
  BY <1>0, SmallestSubset
<1> USE DEF Bad
<1> DEFINE of(t) == CHOOSE h : SumTable(h, f, t)
           sum == [t \in SUBSET s |->
                     IF t = {} THEN 0
                     ELSE f[Chosen(t)] + of(t \ {Chosen(t)})[t \ {Chosen(t)}]]
<1>2. \A t \in SUBSET s : t # s => SumTable(of(t), f, t)
  <2> TAKE t \in SUBSET s
  <2>1. t # s => \E h : SumTable(h, f, t)
    BY <1>1
  <2> QED BY <2>1
<1>3. ASSUME NEW t \in SUBSET s, t # s PROVE sum[t] = of(t)[t]
  <2>1. SumTable(of(t), f, t)
    BY <1>2, <1>3
  <2>2. CASE t = {}
    BY <2>1, <2>2 DEF SumTable
  <2>3. CASE t # {}
    <3> DEFINE u == t \ {Chosen(t)}
    <3>1. Chosen(t) \in t /\ u \in SUBSET s /\ u # s
      BY <2>3, ChosenMember
    <3>2. SumTable(of(u), f, u)
      BY <1>2, <3>1
    <3>3. IsFiniteSet(u)
      BY <3>1, FS_Subset
    <3> HIDE DEF of
    <3>4. of(u)[u] = of(t)[u]
      BY <2>1, <3>2, <3>3, TablesAgree
    <3>5. of(t)[t] = f[Chosen(t)] + of(t)[u]
      BY <2>1, <2>3 DEF SumTable
    <3>6. sum[t] = f[Chosen(t)] + of(u)[u]
      BY <2>3
    <3> QED BY <3>4, <3>5, <3>6
  <2> QED BY <2>2, <2>3
<1> HIDE DEF of
<1>4. SumTable(sum, f, s)
  <2>1. ASSUME NEW t \in SUBSET s, t # {}
        PROVE  sum[t] = f[Chosen(t)] + sum[t \ {Chosen(t)}]
    <3>1. Chosen(t) \in t
      BY <2>1, ChosenMember
    <3>2. sum[t \ {Chosen(t)}] = of(t \ {Chosen(t)})[t \ {Chosen(t)}]
      BY <1>3, <3>1
    <3> QED BY <2>1, <3>2
  <2>2. sum = [t \in SUBSET s |-> sum[t]]
    OBVIOUS
  <2>3. sum[{}] = 0
    OBVIOUS
  <2> HIDE DEF sum
  <2> QED BY <2>1, <2>2, <2>3 DEF SumTable
<1> QED BY <1>1, <1>4

(***************************************************************************)
(* The two equations of a sum over a finite set.                           *)
(***************************************************************************)
LEMMA SumEquations ==
    ASSUME NEW S, IsFiniteSet(S), NEW f
    PROVE  /\ S = {} => SumFunctionOnSet(f, S) = 0
           /\ S # {} => SumFunctionOnSet(f, S)
                          = f[Chosen(S)] + SumFunctionOnSet(f, S \ {Chosen(S)})
<1> DEFINE of(t) == CHOOSE h : SumTable(h, f, t)
           u == S \ {Chosen(S)}
<1>1. SumTable(of(S), f, S)
  BY TableExists
<1>2. IsFiniteSet(u)
  BY FS_Subset
<1>3. SumTable(of(u), f, u)
  BY <1>2, TableExists
<1>4. SumFunctionOnSet(f, S) = of(S)[S] /\ SumFunctionOnSet(f, u) = of(u)[u]
  BY SumUnfolds
<1> HIDE DEF of
<1>5. CASE S = {}
  BY <1>1, <1>4, <1>5 DEF SumTable
<1>6. CASE S # {}
  <2>1. of(u)[u] = of(S)[u]
    BY <1>1, <1>2, <1>3, TablesAgree
  <2>2. of(S)[S] = f[Chosen(S)] + of(S)[u]
    BY <1>1, <1>6 DEF SumTable
  <2> QED BY <1>4, <1>6, <2>1, <2>2
<1> QED BY <1>5, <1>6

(***************************************************************************)
(* Sums of whole numbers are whole, of naturals natural, and depend on     *)
(* nothing but the values summed.                                          *)
(***************************************************************************)
LEMMA SumType ==
    ASSUME NEW S, IsFiniteSet(S), NEW f, \A x \in S : f[x] \in Int
    PROVE  SumFunctionOnSet(f, S) \in Int
<1> DEFINE Bad == {s \in SUBSET S : SumFunctionOnSet(f, s) \notin Int}
<1> SUFFICES ASSUME Bad # {} PROVE FALSE
  OBVIOUS
<1>1. Bad \in SUBSET (SUBSET S)
  OBVIOUS
<1> HIDE DEF Bad
<1>2. PICK s \in Bad : \A t \in Bad : t \subseteq s => t = s
  BY <1>1, SmallestSubset
<1>3. s \subseteq S /\ IsFiniteSet(s) /\ SumFunctionOnSet(f, s) \notin Int
  BY <1>2, FS_Subset DEF Bad
<1>4. s # {}
  <2>1. s = {} => SumFunctionOnSet(f, s) = 0
    BY <1>3, SumEquations
  <2> QED BY <1>3, <2>1
<1>5. Chosen(s) \in s
  BY <1>4, ChosenMember
<1>6. SumFunctionOnSet(f, s \ {Chosen(s)}) \in Int
  BY <1>2, <1>3, <1>5 DEF Bad
<1>7. SumFunctionOnSet(f, s)
        = f[Chosen(s)] + SumFunctionOnSet(f, s \ {Chosen(s)})
  BY <1>3, <1>4, SumEquations
<1> QED BY <1>3, <1>5, <1>6, <1>7

LEMMA SumNat ==
    ASSUME NEW S, IsFiniteSet(S), NEW f, \A x \in S : f[x] \in Nat
    PROVE  SumFunctionOnSet(f, S) \in Nat
<1> DEFINE Bad == {s \in SUBSET S : SumFunctionOnSet(f, s) \notin Nat}
<1> SUFFICES ASSUME Bad # {} PROVE FALSE
  OBVIOUS
<1>1. Bad \in SUBSET (SUBSET S)
  OBVIOUS
<1> HIDE DEF Bad
<1>2. PICK s \in Bad : \A t \in Bad : t \subseteq s => t = s
  BY <1>1, SmallestSubset
<1>3. s \subseteq S /\ IsFiniteSet(s) /\ SumFunctionOnSet(f, s) \notin Nat
  BY <1>2, FS_Subset DEF Bad
<1>4. s # {}
  <2>1. s = {} => SumFunctionOnSet(f, s) = 0
    BY <1>3, SumEquations
  <2> QED BY <1>3, <2>1
<1>5. Chosen(s) \in s
  BY <1>4, ChosenMember
<1>6. SumFunctionOnSet(f, s \ {Chosen(s)}) \in Nat
  BY <1>2, <1>3, <1>5 DEF Bad
<1>7. SumFunctionOnSet(f, s)
        = f[Chosen(s)] + SumFunctionOnSet(f, s \ {Chosen(s)})
  BY <1>3, <1>4, SumEquations
<1> QED BY <1>3, <1>5, <1>6, <1>7

LEMMA SumCongruence ==
    ASSUME NEW S, IsFiniteSet(S), NEW f, NEW g, \A x \in S : f[x] = g[x]
    PROVE  SumFunctionOnSet(f, S) = SumFunctionOnSet(g, S)
<1> DEFINE Bad == {s \in SUBSET S : SumFunctionOnSet(f, s) # SumFunctionOnSet(g, s)}
<1> SUFFICES ASSUME Bad # {} PROVE FALSE
  OBVIOUS
<1>1. Bad \in SUBSET (SUBSET S)
  OBVIOUS
<1> HIDE DEF Bad
<1>2. PICK s \in Bad : \A t \in Bad : t \subseteq s => t = s
  BY <1>1, SmallestSubset
<1> USE DEF Bad
<1>3. s \subseteq S /\ IsFiniteSet(s)
  BY <1>2, FS_Subset
<1>4. s # {}
  BY <1>2, <1>3, SumEquations
<1>5. Chosen(s) \in s
  BY <1>4, ChosenMember
<1>6. SumFunctionOnSet(f, s \ {Chosen(s)}) = SumFunctionOnSet(g, s \ {Chosen(s)})
  BY <1>2, <1>5
<1> QED BY <1>2, <1>3, <1>4, <1>5, <1>6, SumEquations

(***************************************************************************)
(* A sum over one more element is greater by its value, whatever order the *)
(* fold takes the elements in.                                             *)
(***************************************************************************)
LEMMA SumAdd ==
    ASSUME NEW S, IsFiniteSet(S), NEW x, x \notin S,
           NEW f, \A y \in S \cup {x} : f[y] \in Int
    PROVE  SumFunctionOnSet(f, S \cup {x}) = SumFunctionOnSet(f, S) + f[x]
<1> DEFINE all == S \cup {x}
           Grows(s, y) ==
              SumFunctionOnSet(f, s \cup {y}) = SumFunctionOnSet(f, s) + f[y]
           Bad == {s \in SUBSET all : \E y \in all \ s : ~Grows(s, y)}
<1> SUFFICES ASSUME Bad # {} PROVE FALSE
  <2>1. Bad = {} => Grows(S, x)
    BY Zenon
  <2> QED BY <2>1
<1>1. Bad \in SUBSET (SUBSET all) /\ IsFiniteSet(all)
  BY FS_AddElement
<1> HIDE DEF Bad
<1>2. PICK s \in Bad : \A t \in Bad : t \subseteq s => t = s
  BY <1>1, SmallestSubset
<1>3. s \in SUBSET all
  BY <1>2 DEF Bad
<1>4. PICK y \in all \ s : ~Grows(s, y)
  BY <1>2 DEF Bad
<1>5. \A t \in SUBSET all :
         t \subseteq s /\ t # s => \A z \in all \ t : Grows(t, z)
  BY <1>2 DEF Bad
<1>6. \A u \in SUBSET all : IsFiniteSet(u) /\ SumFunctionOnSet(f, u) \in Int
  <2>1. \A u \in SUBSET all : IsFiniteSet(u)
    BY <1>1, FS_Subset
  <2> QED BY <2>1, SumType
<1> DEFINE c == Chosen(s \cup {y})
           t == s \ {c}
<1>7. c \in s \cup {y}
  BY ChosenMember
<1>8. SumFunctionOnSet(f, s \cup {y})
        = f[c] + SumFunctionOnSet(f, (s \cup {y}) \ {c})
  <2>1. IsFiniteSet(s \cup {y})
    BY <1>3, <1>6
  <2> QED BY <2>1, SumEquations
<1> HIDE DEF c
<1>9. CASE c = y
  <2>1. (s \cup {y}) \ {c} = s
    BY <1>4, <1>9
  <2>2. SumFunctionOnSet(f, s \cup {y}) = f[y] + SumFunctionOnSet(f, s)
    BY <1>8, <1>9, <2>1
  <2>3. SumFunctionOnSet(f, s) \in Int /\ f[y] \in Int
    BY <1>3, <1>4, <1>6
  <2>4. SumFunctionOnSet(f, s \cup {y}) = SumFunctionOnSet(f, s) + f[y]
    BY <2>2, <2>3
  <2> QED BY <1>4, <2>4
<1>10. CASE c # y
  <2>1. /\ c \in s /\ t \in SUBSET all /\ t \subseteq s /\ t # s
        /\ c \in all \ t /\ y \in all \ t
    BY <1>3, <1>4, <1>7, <1>10
  <2>2. (s \cup {y}) \ {c} = t \cup {y} /\ t \cup {c} = s
    BY <1>10, <2>1
  <2>3. Grows(t, c) /\ Grows(t, y)
    BY <1>5, <2>1
  <2>4. /\ SumFunctionOnSet(f, s) = SumFunctionOnSet(f, t) + f[c]
        /\ SumFunctionOnSet(f, s \cup {y}) = f[c] + (SumFunctionOnSet(f, t) + f[y])
    BY <1>8, <2>2, <2>3
  <2>5. SumFunctionOnSet(f, t) \in Int /\ f[c] \in Int /\ f[y] \in Int
    BY <1>4, <1>6, <2>1
  <2>6. SumFunctionOnSet(f, s \cup {y}) = SumFunctionOnSet(f, s) + f[y]
    BY <2>4, <2>5
  <2> QED BY <1>4, <2>6
<1> QED BY <1>9, <1>10

LEMMA SumEmpty ==
    ASSUME NEW f PROVE SumFunctionOnSet(f, {}) = 0
BY SumEquations, FS_EmptySet

(***************************************************************************)
(* Appending to a sequence of values leaves the sum over earlier indices   *)
(* alone, and adds the last value to a sum that takes the new index in.    *)
(***************************************************************************)
LEMMA SumAppended ==
    ASSUME NEW n \in Nat, NEW S \in SUBSET (1..n), NEW f, NEW g,
           \A i \in 1..n : f[i] \in Int /\ g[i] = f[i],
           g[n + 1] \in Int
    PROVE  /\ IsFiniteSet(S)
           /\ SumFunctionOnSet(f, S) \in Int
           /\ SumFunctionOnSet(g, S) = SumFunctionOnSet(f, S)
           /\ SumFunctionOnSet(g, S \cup {n + 1}) = SumFunctionOnSet(f, S) + g[n + 1]
<1>1. IsFiniteSet(S)
  <2>1. IsFiniteSet(1..n)
    BY FS_Interval
  <2> QED BY <2>1, FS_Subset
<1>2. SumFunctionOnSet(f, S) \in Int
  BY <1>1, SumType
<1>3. SumFunctionOnSet(g, S) = SumFunctionOnSet(f, S)
  BY <1>1, SumCongruence
<1>4. n + 1 \notin S /\ \A i \in S \cup {n + 1} : g[i] \in Int
  OBVIOUS
<1>5. SumFunctionOnSet(g, S \cup {n + 1}) = SumFunctionOnSet(g, S) + g[n + 1]
  BY <1>1, <1>4, SumAdd
<1> QED BY <1>1, <1>2, <1>3, <1>5

(***************************************************************************)
(* Sums over parts: two disjoint sets, the image of a set under a          *)
(* one-to-one function, a family of disjoint sets.                         *)
(***************************************************************************)
LEMMA SumUnion ==
    ASSUME NEW U, IsFiniteSet(U), NEW A \in SUBSET U, NEW B \in SUBSET U, A \cap B = {},
           NEW f, \A x \in U : f[x] \in Int
    PROVE  SumFunctionOnSet(f, A \cup B) = SumFunctionOnSet(f, A) + SumFunctionOnSet(f, B)
<1> DEFINE Adds(s) ==
              SumFunctionOnSet(f, A \cup s) = SumFunctionOnSet(f, A) + SumFunctionOnSet(f, s)
           Bad == {s \in SUBSET B : ~Adds(s)}
<1> SUFFICES ASSUME Bad # {} PROVE FALSE
  <2>1. Bad = {} => Adds(B)
    BY Zenon
  <2> QED BY <2>1
<1>1. Bad \in SUBSET (SUBSET B) /\ IsFiniteSet(B)
  BY FS_Subset
<1> HIDE DEF Bad
<1>2. PICK s \in Bad : \A t \in Bad : t \subseteq s => t = s
  BY <1>1, SmallestSubset
<1>3. s \in SUBSET B /\ ~Adds(s)
  BY <1>2 DEF Bad
<1>4. \A u \in SUBSET U : IsFiniteSet(u) /\ SumFunctionOnSet(f, u) \in Int
  <2>1. \A u \in SUBSET U : IsFiniteSet(u)
    BY FS_Subset
  <2> QED BY <2>1, SumType
<1>5. s # {}
  <2>1. A \cup {} = A
    OBVIOUS
  <2>2. SumFunctionOnSet(f, A) \in Int
    BY <1>4
  <2>3. SumFunctionOnSet(f, {}) = 0
    BY SumEmpty
  <2>4. Adds({})
    BY <2>1, <2>2, <2>3
  <2> HIDE DEF Adds
  <2> QED BY <1>3, <2>4
<1>6. PICK x \in s : TRUE
  BY <1>5
<1> DEFINE t == s \ {x}
<1>7. t \in SUBSET B /\ t \subseteq s /\ t # s /\ x \notin t /\ x \notin A \cup t /\ x \in U
  BY <1>3, <1>6
<1>8. t \cup {x} = s /\ (A \cup t) \cup {x} = A \cup s
  BY <1>6
<1>9. Adds(t)
  BY <1>2, <1>7 DEF Bad
<1>10. A \cup t \in SUBSET U /\ t \in SUBSET U
  BY <1>7
<1> HIDE DEF t
<1>11. SumFunctionOnSet(f, s) = SumFunctionOnSet(f, t) + f[x]
  <2>1. IsFiniteSet(t) /\ \A y \in t \cup {x} : f[y] \in Int
    BY <1>4, <1>7, <1>10
  <2>2. SumFunctionOnSet(f, t \cup {x}) = SumFunctionOnSet(f, t) + f[x]
    BY <1>7, <2>1, SumAdd
  <2> QED BY <1>8, <2>2
<1>12. SumFunctionOnSet(f, A \cup s) = SumFunctionOnSet(f, A \cup t) + f[x]
  <2>1. IsFiniteSet(A \cup t) /\ \A y \in (A \cup t) \cup {x} : f[y] \in Int
    BY <1>4, <1>7, <1>10
  <2>2. SumFunctionOnSet(f, (A \cup t) \cup {x}) = SumFunctionOnSet(f, A \cup t) + f[x]
    BY <1>7, <2>1, SumAdd
  <2> QED BY <1>8, <2>2
<1>13. PICK a \in Int, b \in Int, c \in Int :
           a = SumFunctionOnSet(f, A) /\ b = SumFunctionOnSet(f, t) /\ c = f[x]
  BY <1>4, <1>7, <1>10
<1>14. SumFunctionOnSet(f, A \cup s) = (a + b) + c /\ SumFunctionOnSet(f, s) = b + c
  BY <1>9, <1>11, <1>12, <1>13
<1>15. Adds(s)
  BY <1>13, <1>14
<1> QED BY <1>3, <1>15

\* e takes each member of S to its own member of T, and g is f behind e.
Reindexes(e, S, T, f, g) ==
    /\ \A k \in S : e[k] \in T /\ f[e[k]] \in Int /\ g[k] = f[e[k]]
    /\ \A j, k \in S : e[j] = e[k] => j = k
    /\ \A x \in T : \E k \in S : e[k] = x

LEMMA SumReindex ==
    ASSUME NEW S, IsFiniteSet(S), NEW T, IsFiniteSet(T),
           NEW e, NEW f, NEW g, Reindexes(e, S, T, f, g)
    PROVE  SumFunctionOnSet(g, S) = SumFunctionOnSet(f, T)
<1> DEFINE image(s) == {e[k] : k \in s}
           Same(s) == SumFunctionOnSet(g, s) = SumFunctionOnSet(f, image(s))
           Bad == {s \in SUBSET S : ~Same(s)}
<1>0. image(S) = T
  BY DEF Reindexes
<1> SUFFICES ASSUME Bad # {} PROVE FALSE
  <2>1. Bad = {} => Same(S)
    BY Zenon
  <2> QED BY <1>0, <2>1
<1>1. Bad \in SUBSET (SUBSET S)
  OBVIOUS
<1> HIDE DEF Bad
<1>2. PICK s \in Bad : \A t \in Bad : t \subseteq s => t = s
  BY <1>1, SmallestSubset
<1>3. s \in SUBSET S /\ ~Same(s)
  BY <1>2 DEF Bad
<1>4. s # {}
  <2>1. image({}) = {}
    OBVIOUS
  <2>2. Same({})
    BY <2>1, SumEmpty
  <2> HIDE DEF Same
  <2> QED BY <1>3, <2>2
<1>5. PICK x \in s : TRUE
  BY <1>4
<1> DEFINE t == s \ {x}
<1>6. t \in SUBSET S /\ t \subseteq s /\ t # s /\ x \notin t /\ t \cup {x} = s /\ x \in S
  BY <1>3, <1>5
<1>7. Same(t)
  BY <1>2, <1>6 DEF Bad
<1>8. image(s) = image(t) \cup {e[x]} /\ e[x] \notin image(t) /\ image(t) \in SUBSET T
  BY <1>3, <1>5, <1>6 DEF Reindexes
<1>9. /\ \A k \in s : g[k] \in Int
      /\ \A y \in image(t) \cup {e[x]} : f[y] \in Int
      /\ g[x] = f[e[x]]
  BY <1>3, <1>5, <1>6 DEF Reindexes
<1>10. IsFiniteSet(t) /\ IsFiniteSet(image(t))
  BY <1>6, <1>8, FS_Subset
<1> HIDE DEF t, image
<1>11. SumFunctionOnSet(g, s) = SumFunctionOnSet(g, t) + g[x]
  <2>1. \A k \in t \cup {x} : g[k] \in Int
    BY <1>6, <1>9
  <2>2. SumFunctionOnSet(g, t \cup {x}) = SumFunctionOnSet(g, t) + g[x]
    BY <1>6, <1>10, <2>1, SumAdd
  <2> QED BY <1>6, <2>2
<1>12. SumFunctionOnSet(f, image(s)) = SumFunctionOnSet(f, image(t)) + f[e[x]]
  <2>1. SumFunctionOnSet(f, image(t) \cup {e[x]}) = SumFunctionOnSet(f, image(t)) + f[e[x]]
    BY <1>8, <1>9, <1>10, SumAdd
  <2> QED BY <1>8, <2>1
<1>13. Same(s)
  BY <1>7, <1>9, <1>11, <1>12
<1> QED BY <1>3, <1>13

\* The parts part[k], k in S, of U are disjoint, and g[k] is the sum of f over one.
PartSums(part, S, U, f, g) ==
    /\ \A x \in U : f[x] \in Int
    /\ \A k \in S : part[k] \in SUBSET U /\ g[k] = SumFunctionOnSet(f, part[k])
    /\ \A j, k \in S : j # k => part[j] \cap part[k] = {}

LEMMA SumOfParts ==
    ASSUME NEW S, IsFiniteSet(S), NEW U, IsFiniteSet(U),
           NEW part, NEW f, NEW g, PartSums(part, S, U, f, g)
    PROVE  SumFunctionOnSet(g, S) = SumFunctionOnSet(f, UNION {part[k] : k \in S})
<1> DEFINE all(s) == UNION {part[k] : k \in s}
           Same(s) == SumFunctionOnSet(g, s) = SumFunctionOnSet(f, all(s))
           Bad == {s \in SUBSET S : ~Same(s)}
<1> SUFFICES ASSUME Bad # {} PROVE FALSE
  <2>1. Bad = {} => Same(S)
    BY Zenon
  <2> QED BY <2>1
<1>1. Bad \in SUBSET (SUBSET S)
  OBVIOUS
<1> HIDE DEF Bad
<1>2. PICK s \in Bad : \A t \in Bad : t \subseteq s => t = s
  BY <1>1, SmallestSubset
<1>3. s \in SUBSET S /\ ~Same(s)
  BY <1>2 DEF Bad
<1>4. s # {}
  <2>1. all({}) = {}
    OBVIOUS
  <2>2. Same({})
    BY <2>1, SumEmpty
  <2> HIDE DEF Same
  <2> QED BY <1>3, <2>2
<1>5. PICK x \in s : TRUE
  BY <1>4
<1> DEFINE t == s \ {x}
<1>6. t \in SUBSET S /\ t \subseteq s /\ t # s /\ x \notin t /\ t \cup {x} = s /\ x \in S
  BY <1>3, <1>5
<1>7. Same(t)
  BY <1>2, <1>6 DEF Bad
<1>8. all(s) = all(t) \cup part[x]
  BY <1>6
<1>9. all(t) \in SUBSET U /\ part[x] \in SUBSET U
  BY <1>6 DEF PartSums
<1>10. all(t) \cap part[x] = {}
  BY <1>6 DEF PartSums
<1>11. \A k \in s : g[k] \in Int
  <2>1. ASSUME NEW k \in s PROVE g[k] \in Int
    <3>1. /\ part[k] \in SUBSET U /\ g[k] = SumFunctionOnSet(f, part[k])
          /\ \A y \in part[k] : f[y] \in Int
      BY <1>3 DEF PartSums
    <3>2. IsFiniteSet(part[k])
      BY <3>1, FS_Subset
    <3> QED BY <3>1, <3>2, SumType
  <2> QED BY <2>1
<1>12. IsFiniteSet(t)
  BY <1>6, FS_Subset
<1> HIDE DEF t, all
<1>13. SumFunctionOnSet(g, s) = SumFunctionOnSet(g, t) + g[x]
  <2>1. \A k \in t \cup {x} : g[k] \in Int
    BY <1>6, <1>11
  <2>2. SumFunctionOnSet(g, t \cup {x}) = SumFunctionOnSet(g, t) + g[x]
    BY <1>6, <1>12, <2>1, SumAdd
  <2> QED BY <1>6, <2>2
<1>14. SumFunctionOnSet(f, all(s)) = SumFunctionOnSet(f, all(t)) + SumFunctionOnSet(f, part[x])
  <2>1. \A y \in U : f[y] \in Int
    BY DEF PartSums
  <2>2. SumFunctionOnSet(f, all(t) \cup part[x])
          = SumFunctionOnSet(f, all(t)) + SumFunctionOnSet(f, part[x])
    BY <1>9, <1>10, <2>1, SumUnion
  <2> QED BY <1>8, <2>2
<1>15. g[x] = SumFunctionOnSet(f, part[x])
  BY <1>6 DEF PartSums
<1>16. Same(s)
  BY <1>7, <1>13, <1>14, <1>15
<1> QED BY <1>3, <1>16
=============================================================================
