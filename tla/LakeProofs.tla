----------------------------- MODULE LakeProofs -----------------------------
(***************************************************************************)
(* What the properties of the lake and of the validation matrix rest on,   *)
(* for every set of ingesters, requests and versions, whatever the venue   *)
(* serves, wherever processes die and whatever a power failure takes.      *)
(***************************************************************************)
EXTENDS LakeProperties, SumLemmas, SequenceTheorems

-----------------------------------------------------------------------------
(***************************************************************************)
(* The plan of an ingestion.                                               *)
(***************************************************************************)
Increasing(s) == \A i, j \in DOMAIN s : i < j => s[i].part < s[j].part

Numbered(S) == \A x, y \in S : x.part \in Nat /\ (x.part = y.part => x = y)

\* Parts with numbers of their own can be listed by number.
LEMMA Enumeration ==
    ASSUME NEW S, IsFiniteSet(S), Numbered(S)
    PROVE  \E s \in [1..Cardinality(S) -> S] : Increasing(s)
<1> DEFINE Enumerated(t) == \E s \in [1..Cardinality(t) -> t] : Increasing(s)
           Bad == {t \in SUBSET S : ~Enumerated(t)}
<1> SUFFICES ASSUME Bad # {} PROVE FALSE
  OBVIOUS
<1>0. Bad \in SUBSET (SUBSET S)
  OBVIOUS
<1> HIDE DEF Bad
<1>1. PICK t \in Bad : \A u \in Bad : u \subseteq t => u = t
  BY <1>0, SmallestSubset
<1> USE DEF Bad
<1>2. t # {}
  <2>1. [i \in 1..0 |-> 0] \in [1..0 -> {}] /\ Increasing([i \in 1..0 |-> 0])
    BY DEF Increasing
  <2>2. Cardinality({}) = 0
    BY FS_EmptySet
  <2> QED BY <2>1, <2>2
<1>3. PICK x \in t : \A y \in t : x.part <= y.part
  <2> DEFINE T == {y.part : y \in t}
  <2>1. T \in SUBSET Nat /\ T # {}
    BY <1>2 DEF Numbered
  <2>2. PICK n \in T : \A m \in T : n <= m
    BY <2>1, LeastNatural
  <2> QED BY <2>2
<1> DEFINE u == t \ {x}
<1>4. IsFiniteSet(t)
  BY FS_Subset
<1>5. PICK n \in Nat, c \in Nat :
          n = Cardinality(t) /\ c = Cardinality(u) /\ n = c + 1
  BY <1>3, <1>4, FS_RemoveElement, FS_CardinalityType, FS_Subset
<1>6. PICK s \in [1..c -> u] : Increasing(s)
  <2>1. u \in SUBSET S /\ u \subseteq t /\ u # t
    BY <1>3
  <2>2. Enumerated(u)
    BY <1>1, <2>1
  <2> QED BY <1>5, <2>2
<1> DEFINE r == [i \in 1..n |-> IF i = 1 THEN x ELSE s[i - 1]]
<1>7. /\ DOMAIN s = 1..c /\ s \in [1..c -> u]
      /\ \A i \in 1..n : i # 1 => i - 1 \in 1..c
  <2>1. n = c + 1
    BY <1>5
  <2>2. \A i \in 1..n : i # 1 => i - 1 \in 1..c
    BY <2>1
  <2> QED BY <2>2
<1>8. r \in [1..n -> t]
  BY <1>3, <1>7
<1>9. ASSUME NEW i \in DOMAIN r, NEW j \in DOMAIN r, i < j
      PROVE  r[i].part < r[j].part
  <2>1. i \in 1..n /\ j \in 1..n /\ j # 1
    BY <1>7, <1>9
  <2>2. r[j] = s[j - 1] /\ r[j] \in u
    BY <1>7, <2>1
  <2>3. CASE i = 1
    BY <1>3, <2>2, <2>3 DEF Numbered
  <2>4. CASE i # 1
    <3>1. i - 1 \in DOMAIN s /\ j - 1 \in DOMAIN s /\ i - 1 < j - 1
      BY <1>7, <1>9, <2>1, <2>4
    <3> QED BY <1>6, <2>1, <2>2, <2>4, <3>1 DEF Increasing
  <2> QED BY <2>3, <2>4
<1>10. Increasing(r)
  BY <1>9 DEF Increasing
<1> QED BY <1>1, <1>5, <1>8, <1>10

\* InOrder lists each of the parts.
LEMMA InOrderLists ==
    ASSUME NEW S, IsFiniteSet(S), Numbered(S)
    PROVE  InOrder(S) \in Seq(S) /\ ToSet(InOrder(S)) = S
<1> DEFINE s == InOrder(S)
           n == Cardinality(S)
<1>1. n \in Nat
  BY FS_CardinalityType
<1>2. s \in [1..n -> S] /\ Increasing(s)
  <2>1. \E q \in [1..n -> S] : Increasing(q)
    BY Enumeration
  <2> QED BY <2>1 DEF InOrder, Increasing
<1> HIDE DEF s
<1>3. s \in Seq(S)
  BY <1>1, <1>2
<1>4. \A i, j \in 1..n : s[i] = s[j] => i = j
  <2> TAKE i, j \in 1..n
  <2>1. s[i].part \in Nat /\ s[j].part \in Nat
    BY <1>2 DEF Numbered
  <2>2. i < j => s[i].part < s[j].part
    BY <1>2 DEF Increasing
  <2>3. j < i => s[j].part < s[i].part
    BY <1>2 DEF Increasing
  <2> QED BY <1>1, <2>1, <2>2, <2>3
<1>5. s \in Injection(1..n, S)
  BY <1>2, <1>4 DEF Injection, IsInjective
<1>6. Cardinality(1..n) = n
  BY <1>1, FS_Interval
<1>7. s \in Surjection(1..n, S)
  BY <1>5, <1>6, FS_Injection
<1>8. ToSet(s) = S
  BY <1>2, <1>7 DEF Surjection, ToSet
<1> QED BY <1>3, <1>8 DEF s

LEMMA PartsListed ==
    ASSUME NEW zone, NEW v \in Versions
    PROVE  /\ InOrder(Parts(zone, v)) \in Seq(Parts(zone, v))
           /\ ToSet(InOrder(Parts(zone, v))) = Parts(zone, v)
<1> DEFINE f == [m \in Months(v) |-> Path(zone, v, m)]
<1>1. IsFiniteSet(Months(v)) /\ Months(v) \subseteq Nat
  BY LakeAssumption, FS_Subset
<1>2. f \in Surjection(Months(v), Parts(zone, v))
  BY DEF Surjection, Parts
<1>3. IsFiniteSet(Parts(zone, v))
  BY <1>1, <1>2, FS_Surjection
<1>4. Numbered(Parts(zone, v))
  BY <1>1 DEF Numbered, Parts, Path
<1> QED BY <1>3, <1>4, InOrderLists

\* The files of an ingestion beside its manifest.
Evidence(v, at) ==
    {Path("raw", v, at)}
    \cup (IF RequestOf[v] \in Snapshots THEN {} ELSE Parts("normalized", v))
    \cup (IF IsValid(v) THEN Parts("curated", v)
                        ELSE Parts("quarantine", v) \cup {Path("reports", v, 0)})

LEMMA ConcatSet ==
    ASSUME NEW S, NEW s \in Seq(S), NEW t \in Seq(S)
    PROVE  s \o t \in Seq(S) /\ ToSet(s \o t) = ToSet(s) \cup ToSet(t)
<1>1. /\ s \o t \in Seq(S)
      /\ Len(s \o t) = Len(s) + Len(t)
      /\ \A i \in 1..Len(s) + Len(t) :
            (s \o t)[i] = IF i <= Len(s) THEN s[i] ELSE t[i - Len(s)]
  BY ConcatProperties
<1>2. /\ DOMAIN s = 1..Len(s) /\ Len(s) \in Nat
      /\ DOMAIN t = 1..Len(t) /\ Len(t) \in Nat
      /\ DOMAIN (s \o t) = 1..Len(s) + Len(t)
  BY <1>1, LenProperties
<1> DEFINE st == s \o t
<1> HIDE DEF st
<1>3. ASSUME NEW i \in DOMAIN s PROVE s[i] \in ToSet(st)
  <2>1. i \in DOMAIN st /\ st[i] = s[i]
    BY <1>1, <1>2 DEF st
  <2> QED BY <2>1 DEF ToSet
<1>4. ASSUME NEW i \in DOMAIN t PROVE t[i] \in ToSet(st)
  <2>1. i + Len(s) \in DOMAIN st /\ st[i + Len(s)] = t[i]
    BY <1>1, <1>2 DEF st
  <2> QED BY <2>1 DEF ToSet
<1>5. ASSUME NEW i \in DOMAIN st PROVE st[i] \in ToSet(s) \cup ToSet(t)
  <2>1. \/ i \in DOMAIN s /\ st[i] = s[i]
        \/ i - Len(s) \in DOMAIN t /\ st[i] = t[i - Len(s)]
    BY <1>1, <1>2 DEF st
  <2> QED BY <2>1 DEF ToSet
<1>6. ToSet(st) = ToSet(s) \cup ToSet(t)
  BY <1>3, <1>4, <1>5 DEF ToSet
<1> QED BY <1>1, <1>6 DEF st

LEMMA SingleSet == \A x : <<x>> \in Seq({x}) /\ ToSet(<<x>>) = {x}
BY DEF ToSet

(***************************************************************************)
(* The plan of an ingestion is its evidence, each file of it, and then the *)
(* manifest.                                                               *)
(***************************************************************************)
LEMMA PlanOf ==
    ASSUME NEW v \in Versions, NEW at
    PROVE  \E front \in Seq(Evidence(v, at)) :
              /\ Plan(v, at) = front \o <<ManifestPath(v)>>
              /\ ToSet(front) = Evidence(v, at)
<1> DEFINE E == Evidence(v, at)
           page == <<Path("raw", v, at)>>
           normalized == IF RequestOf[v] \in Snapshots THEN << >>
                         ELSE InOrder(Parts("normalized", v))
           decided == IF IsValid(v) THEN InOrder(Parts("curated", v))
                      ELSE Append(InOrder(Parts("quarantine", v)), Path("reports", v, 0))
           front == page \o normalized \o decided
<1>1. page \in Seq(E) /\ ToSet(page) = {Path("raw", v, at)}
  BY SingleSet, SeqMonotonic DEF Evidence
<1>2. /\ normalized \in Seq(E)
      /\ ToSet(normalized) = IF RequestOf[v] \in Snapshots THEN {}
                             ELSE Parts("normalized", v)
  <2>1. CASE RequestOf[v] \in Snapshots
    BY <2>1 DEF ToSet
  <2>2. CASE RequestOf[v] \notin Snapshots
    <3>1. Parts("normalized", v) \subseteq E
      BY <2>2 DEF Evidence
    <3> QED BY <2>2, <3>1, PartsListed, SeqMonotonic
  <2> QED BY <2>1, <2>2
<1>3. /\ decided \in Seq(E)
      /\ ToSet(decided) = IF IsValid(v) THEN Parts("curated", v)
                          ELSE Parts("quarantine", v) \cup {Path("reports", v, 0)}
  <2>1. CASE IsValid(v)
    <3>1. Parts("curated", v) \subseteq E
      BY <2>1 DEF Evidence
    <3> QED BY <2>1, <3>1, PartsListed, SeqMonotonic
  <2>2. CASE ~IsValid(v)
    <3> DEFINE report == Path("reports", v, 0)
               parts == InOrder(Parts("quarantine", v))
    <3>1. Parts("quarantine", v) \subseteq E /\ report \in E
      BY <2>2 DEF Evidence
    <3> HIDE DEF E, report
    <3>2. /\ parts \in Seq(E)
          /\ ToSet(parts) = Parts("quarantine", v)
          /\ <<report>> \in Seq(E)
      BY <3>1, PartsListed, SeqMonotonic
    <3>3. Append(parts, report) = parts \o <<report>>
      BY <3>2
    <3> HIDE DEF parts
    <3>4. ToSet(parts \o <<report>>) = Parts("quarantine", v) \cup {report}
      <4>1. PICK end : end = <<report>>
        OBVIOUS
      <4>2. parts \in Seq(E) /\ end \in Seq(E)
        BY <3>2, <4>1
      <4>3. ToSet(parts \o end) = ToSet(parts) \cup ToSet(end)
        BY <4>2, ConcatSet
      <4> QED BY <3>2, <4>1, <4>3, SingleSet
    <3>5. parts \o <<report>> \in Seq(E)
      BY <3>2, ConcatSet
    <3>6. decided = Append(parts, report)
      BY <2>2 DEF report, parts
    <3> HIDE DEF decided
    <3> QED BY <2>2, <3>3, <3>4, <3>5, <3>6 DEF report, E
  <2> QED BY <2>1, <2>2
<1> DEFINE start == page \o normalized
<1>5. start \in Seq(E) /\ ToSet(start) = ToSet(page) \cup ToSet(normalized)
  <2> HIDE DEF page, normalized, E
  <2> QED BY <1>1, <1>2, ConcatSet
<1>6. front \in Seq(E) /\ ToSet(front) = ToSet(start) \cup ToSet(decided)
  <2> HIDE DEF start, decided, E, front
  <2>1. front = start \o decided
    BY DEF start, front
  <2> QED BY <1>3, <1>5, <2>1, ConcatSet
<1>7. ToSet(front) = E
  <2>1. ToSet(front) = ToSet(page) \cup ToSet(normalized) \cup ToSet(decided)
    BY <1>5, <1>6
  <2> HIDE DEF front, page, normalized, decided
  <2> QED BY <1>1, <1>2, <1>3, <2>1 DEF Evidence
<1>8. Plan(v, at) = front \o <<ManifestPath(v)>>
  BY DEF Plan
<1> QED BY <1>6, <1>7, <1>8

-----------------------------------------------------------------------------
(***************************************************************************)
(* The invariant of the lake.  Its parts are stated of what they depend on *)
(* and nothing else: there, the names of the files; broken, whether the    *)
(* power has failed; now, the downloads so far.                            *)
(***************************************************************************)
Holds(path, contents, broken) ==
    \/ contents = Data(path)
    \/ broken /\ IsParquet(path) /\ contents = Torn

\* A manifest certifies the evidence of one ingestion of its version.
Certificate(v, m, there, broken) ==
    /\ m.status = Status(v)
    /\ \E at \in Nat : DOMAIN m.artifacts = Evidence(v, at)
    /\ \A x \in DOMAIN m.artifacts :
          /\ Holds(x, m.artifacts[x], broken)
          /\ broken \/ x \in there

Sound(path, contents, there, broken) ==
    /\ path \in Paths /\ (IsParquet(path) => path.part \in Months(path.of))
    /\ IF path.zone = "manifests"
         THEN path = ManifestPath(path.of) /\ Certificate(path.of, contents, there, broken)
         ELSE Holds(path, contents, broken)

\* An ingester has written, or found, exactly what its plan no longer lists.
Progress(j, there, broken) ==
    LET manifest == ManifestPath(j.version)
        evidence == Evidence(j.version, j.at)
    IN  /\ j.todo # << >> =>
              \E front \in Seq(evidence) :
                  /\ j.todo = front \o <<manifest>>
                  /\ DOMAIN j.artifacts \cup ToSet(front) = evidence
        /\ DOMAIN j.artifacts \subseteq evidence \cup {manifest}
        /\ \A x \in DOMAIN j.artifacts \ {manifest} :
              x \in there /\ Holds(x, j.artifacts[x], broken)

JobOf(j) == [version |-> j.version, at |-> j.at, parsed |-> j.parsed,
             absent |-> j.absent, todo |-> j.todo, artifacts |-> j.artifacts]

IsJob(j) == j = JobOf(j)

Busy(j, there, broken, now) ==
    /\ IsJob(j)
    /\ j.version \in Versions /\ j.at \in 1..now
    /\ j.parsed \in BOOLEAN /\ j.absent \in BOOLEAN
    /\ j.absent => j.todo # << >>
    /\ j.todo \in Seq(Paths)
    /\ Progress(j, there, broken)

LakeInv ==
    /\ fetches \in Nat /\ kills \in Nat /\ outages \in Nat
    /\ unflushed \subseteq DOMAIN files
    /\ \A path \in DOMAIN files : Sound(path, files[path], DOMAIN files, outages > 0)
    /\ job = [p \in Ingesters |-> job[p]]
    /\ \A p \in Ingesters :
          job[p] # None => Busy(job[p], DOMAIN files, outages > 0, fetches)

LEMMA EvidencePaths ==
    ASSUME NEW v \in Versions, NEW at \in Nat
    PROVE  /\ \A x \in Evidence(v, at) :
                 /\ x \in Paths /\ x.of = v /\ x.zone # "manifests"
                 /\ IsParquet(x) => x.part \in Months(v)
           /\ ManifestPath(v) \in Paths /\ ~IsParquet(ManifestPath(v))
<1>1. Months(v) \subseteq Nat
  BY LakeAssumption
<1>2. \A zone \in Zones, part \in Nat : Path(zone, v, part) \in Paths
  BY DEF Path, Paths
<1>3. {"raw", "normalized", "curated", "quarantine", "reports", "manifests"} \subseteq Zones
  BY DEF Zones, ParquetZones
<1>4. ASSUME NEW x \in Evidence(v, at)
      PROVE  \E zone \in Zones \ {"manifests"}, part \in Nat : x = Path(zone, v, part)
  BY <1>1, <1>3 DEF Evidence, Parts
<1>5. \A zone, part : Path(zone, v, part).zone = zone /\ Path(zone, v, part).of = v
  BY DEF Path
<1>6. ASSUME NEW x \in Evidence(v, at), IsParquet(x) PROVE x.part \in Months(v)
  <2>1. x.zone \in {"normalized", "curated", "quarantine"}
    BY <1>6 DEF IsParquet, ParquetZones
  <2>2. x.zone # "raw" /\ x.zone # "reports"
    BY <2>1
  <2>3. \A part : Path("raw", v, part).zone = "raw" /\ Path("reports", v, part).zone = "reports"
    BY DEF Path
  <2>4. \E zone \in ParquetZones : x \in Parts(zone, v)
    BY <2>2, <2>3 DEF Evidence, ParquetZones
  <2>5. PICK zone \in ParquetZones, m \in Months(v) : x = Path(zone, v, m)
    BY <2>4 DEF Parts
  <2>6. x.part = m
    BY <2>5 DEF Path
  <2> QED BY <2>6
<1>7. ~IsParquet(ManifestPath(v))
  BY DEF ManifestPath, Path, IsParquet, ParquetZones
<1> QED BY <1>2, <1>3, <1>4, <1>5, <1>6, <1>7 DEF ManifestPath

LEMMA SoundMonotone ==
    ASSUME NEW path, NEW contents, NEW there, NEW more, there \subseteq more,
           NEW broken \in BOOLEAN, Sound(path, contents, there, broken)
    PROVE  Sound(path, contents, more, broken)
BY DEF Sound, Certificate

LEMMA SoundOnceBroken ==
    ASSUME NEW path, NEW contents, NEW there, NEW left,
           NEW broken \in BOOLEAN, Sound(path, contents, there, broken)
    PROVE  /\ Sound(path, contents, left, TRUE)
           /\ IsParquet(path) => Sound(path, Torn, left, TRUE)
<1>1. IsParquet(path) => path.zone # "manifests"
  BY DEF IsParquet, ParquetZones
<1>2. \A x, y : Holds(x, y, broken) => Holds(x, y, TRUE)
  BY DEF Holds
<1>3. IsParquet(path) => Holds(path, Torn, TRUE)
  BY DEF Holds
<1>4. ASSUME path.zone = "manifests", Certificate(path.of, contents, there, broken)
      PROVE  Certificate(path.of, contents, left, TRUE)
  BY <1>2, <1>4 DEF Certificate
<1> QED BY <1>1, <1>2, <1>3, <1>4 DEF Sound

LEMMA BusyMonotone ==
    ASSUME NEW j, NEW there, NEW more, there \subseteq more, NEW broken \in BOOLEAN,
           NEW now \in Nat, NEW later \in Nat, now <= later,
           Busy(j, there, broken, now)
    PROVE  Busy(j, more, broken, later)
<1>1. Progress(j, more, broken)
  BY DEF Busy, Progress
<1>2. j.at \in 1..later
  BY DEF Busy
<1> QED BY <1>1, <1>2 DEF Busy

\* A sound file may be put into a sound lake.
LEMMA PutSound ==
    ASSUME NEW f, NEW broken \in BOOLEAN, NEW x, NEW y,
           \A path \in DOMAIN f : Sound(path, f[path], DOMAIN f, broken),
           Sound(x, y, DOMAIN f \cup {x}, broken)
    PROVE  /\ DOMAIN Put(f, x, y) = DOMAIN f \cup {x}
           /\ Put(f, x, y)[x] = y
           /\ \A path \in DOMAIN Put(f, x, y) :
                 Sound(path, Put(f, x, y)[path], DOMAIN Put(f, x, y), broken)
<1> DEFINE g == Put(f, x, y)
           more == DOMAIN f \cup {x}
<1>1. DOMAIN g = more /\ g[x] = y /\ \A path \in DOMAIN f : path = x \/ g[path] = f[path]
  BY DEF Put
<1>2. \A path \in DOMAIN f : Sound(path, f[path], more, broken)
  BY SoundMonotone
<1> HIDE DEF g, more
<1>3. \A path \in more : Sound(path, g[path], more, broken)
  BY <1>1, <1>2 DEF more
<1> QED BY <1>1, <1>3 DEF g, more

(***************************************************************************)
(* A step of one ingester, which may put one sound file, keeps the         *)
(* invariant when what the ingester does next is in accord with the files. *)
(***************************************************************************)
LEMMA IngesterStep ==
    ASSUME LakeInv, NEW p \in Ingesters, NEW j, job' = [job EXCEPT ![p] = j],
           fetches' \in Nat, fetches <= fetches', kills' \in Nat, outages' = outages,
           DOMAIN files \subseteq DOMAIN files', unflushed' \subseteq DOMAIN files',
           \A path \in DOMAIN files' :
              Sound(path, files'[path], DOMAIN files', outages > 0),
           j = None \/ Busy(j, DOMAIN files', outages > 0, fetches')
    PROVE  LakeInv'
<1> DEFINE broken == outages > 0
<1>1. broken \in BOOLEAN /\ fetches \in Nat /\ outages' \in Nat
  BY DEF LakeInv
<1>2. job' = [q \in Ingesters |-> job'[q]]
  BY DEF LakeInv
<1>3. ASSUME NEW q \in Ingesters, job'[q] # None
      PROVE  Busy(job'[q], DOMAIN files', broken, fetches')
  <2>1. CASE q = p
    BY <1>3, <2>1 DEF LakeInv
  <2>2. CASE q # p
    <3>1. job'[q] = job[q] /\ job[q] # None
      BY <1>3, <2>2 DEF LakeInv
    <3>2. Busy(job[q], DOMAIN files, broken, fetches)
      BY <3>1 DEF LakeInv
    <3> HIDE DEF broken
    <3>3. Busy(job[q], DOMAIN files', broken, fetches')
      BY <1>1, <3>2, BusyMonotone
    <3> QED BY <3>1, <3>3
  <2> QED BY <2>1, <2>2
<1> QED BY <1>1, <1>2, <1>3 DEF LakeInv
-----------------------------------------------------------------------------
(***************************************************************************)
(* The steps of the ingesters.                                             *)
(***************************************************************************)
LEMMA FetchInv ==
    ASSUME LakeInv, NEW p \in Ingesters, NEW v, Fetch(p, v)
    PROVE  LakeInv'
<1> DEFINE page == Path("raw", v, fetches + 1)
           j == [version |-> v, at |-> fetches + 1, parsed |-> FALSE, absent |-> FALSE,
                 todo |-> << >>, artifacts |-> << >>]
           broken == outages > 0
<1>1. v \in Versions /\ fetches \in Nat /\ outages \in Nat /\ broken \in BOOLEAN
  BY LakeAssumption DEF Fetch, LakeInv
<1>2. job' = [job EXCEPT ![p] = j] /\ files' = Put(files, page, Data(page))
  BY DEF Fetch
<1>3. Sound(page, Data(page), DOMAIN files \cup {page}, broken)
  <2>1. page \in Paths
    BY <1>1 DEF Path, Paths, Zones
  <2>2. page.zone # "manifests" /\ ~IsParquet(page)
    BY DEF Path, IsParquet, ParquetZones
  <2> QED BY <2>1, <2>2 DEF Sound, Holds
<1>4. \A path \in DOMAIN files : Sound(path, files[path], DOMAIN files, broken)
  BY DEF LakeInv
<1> HIDE DEF page
<1>5. /\ DOMAIN files' = DOMAIN files \cup {page}
      /\ \A path \in DOMAIN files' : Sound(path, files'[path], DOMAIN files', broken)
  <2> HIDE DEF broken
  <2> QED BY <1>1, <1>2, <1>3, <1>4, PutSound
<1>6. Busy(j, DOMAIN files', broken, fetches + 1)
  <2>1. Progress(j, DOMAIN files', broken)
    BY DEF Progress
  <2>2. << >> \in Seq(Paths)
    OBVIOUS
  <2> HIDE DEF broken
  <2> QED BY <1>1, <2>1, <2>2 DEF Busy, IsJob, JobOf
<1>7. /\ fetches' = fetches + 1 /\ kills' = kills /\ outages' = outages
      /\ unflushed' = unflushed \cup {page}
  BY DEF Fetch, faults, page
<1>8. fetches' \in Nat /\ fetches <= fetches' /\ kills' \in Nat
  BY <1>1, <1>7 DEF LakeInv
<1>9. DOMAIN files \subseteq DOMAIN files' /\ unflushed' \subseteq DOMAIN files'
  BY <1>5, <1>7 DEF LakeInv
<1> HIDE DEF j
<1> QED BY <1>2, <1>5, <1>6, <1>7, <1>8, <1>9, IngesterStep

\* The command ends, by itself or not.
LEMMA LeaveInv ==
    ASSUME LakeInv, NEW p \in Ingesters, job' = [job EXCEPT ![p] = None],
           UNCHANGED <<files, unflushed, fetches, outages>>, kills' \in Nat
    PROVE  LakeInv'
<1>1. /\ fetches' \in Nat /\ fetches <= fetches'
      /\ DOMAIN files \subseteq DOMAIN files' /\ unflushed' \subseteq DOMAIN files'
      /\ outages' = outages
      /\ \A path \in DOMAIN files' : Sound(path, files'[path], DOMAIN files', outages > 0)
  BY DEF LakeInv
<1> QED BY <1>1, IngesterStep

\* A command that goes on, without having written a file.
LEMMA StayInv ==
    ASSUME LakeInv, NEW p \in Ingesters, NEW j, job' = [job EXCEPT ![p] = j],
           UNCHANGED <<files, unflushed, fetches, faults>>,
           Busy(j, DOMAIN files, outages > 0, fetches)
    PROVE  LakeInv'
<1>1. /\ fetches' \in Nat /\ fetches <= fetches' /\ kills' \in Nat
      /\ DOMAIN files \subseteq DOMAIN files' /\ unflushed' \subseteq DOMAIN files'
      /\ outages' = outages
      /\ \A path \in DOMAIN files' : Sound(path, files'[path], DOMAIN files', outages > 0)
  BY DEF LakeInv, faults
<1>2. Busy(j, DOMAIN files', outages > 0, fetches')
  OBVIOUS
<1> QED BY <1>1, <1>2, IngesterStep

JobWith(version, at, parsed, absent, todo, artifacts) ==
    [version |-> version, at |-> at, parsed |-> parsed, absent |-> absent,
     todo |-> todo, artifacts |-> artifacts]

LEMMA JobExcept ==
    \A a, b, c, d, e, f, g :
        /\ [JobWith(a, b, c, d, e, f) EXCEPT !.parsed = g] = JobWith(a, b, g, d, e, f)
        /\ [JobWith(a, b, c, d, e, f) EXCEPT !.absent = g] = JobWith(a, b, c, g, e, f)
        /\ [JobWith(a, b, c, d, e, f) EXCEPT !.todo = g] = JobWith(a, b, c, d, g, f)
        /\ [JobWith(a, b, c, d, e, f) EXCEPT !.artifacts = g] = JobWith(a, b, c, d, e, g)
BY DEF JobWith

\* A job whose download is accepted.
LEMMA JobAccepted ==
    ASSUME NEW j, IsJob(j), NEW x, NEW y, NEW z
    PROVE  [j EXCEPT !.parsed = x, !.artifacts = y, !.todo = z]
              = JobWith(j.version, j.at, x, j.absent, z, y)
<1>1. PICK a, b, c, d, e, f : /\ a = j.version /\ b = j.at /\ c = j.parsed
                              /\ d = j.absent /\ e = j.todo /\ f = j.artifacts
  OBVIOUS
<1>2. j = JobWith(a, b, c, d, e, f)
  BY <1>1 DEF IsJob, JobOf, JobWith
<1>3. PICK k : k = [j EXCEPT !.parsed = x]
  OBVIOUS
<1>4. PICK l : l = [k EXCEPT !.artifacts = y]
  OBVIOUS
<1>5. PICK m : m = [l EXCEPT !.todo = z]
  OBVIOUS
<1>6. k = JobWith(a, b, x, d, e, f)
  BY <1>2, <1>3, JobExcept
<1>7. l = JobWith(a, b, x, d, e, y)
  BY <1>4, <1>6, JobExcept
<1>8. m = JobWith(a, b, x, d, z, y)
  BY <1>5, <1>7, JobExcept
<1>9. [j EXCEPT !.parsed = x, !.artifacts = y, !.todo = z] = m
  BY <1>3, <1>4, <1>5
<1> QED BY <1>1, <1>8, <1>9

\* A job that has written a file.
Written(j, x, y, z) == [j EXCEPT !.todo = x, !.absent = y, !.artifacts = z]

LEMMA JobWrote ==
    ASSUME NEW j, IsJob(j), NEW x, NEW y, NEW z
    PROVE  Written(j, x, y, z) = JobWith(j.version, j.at, j.parsed, y, x, z)
<1>1. PICK a, b, c, d, e, f : /\ a = j.version /\ b = j.at /\ c = j.parsed
                              /\ d = j.absent /\ e = j.todo /\ f = j.artifacts
  OBVIOUS
<1>2. j = JobWith(a, b, c, d, e, f)
  BY <1>1 DEF IsJob, JobOf, JobWith
<1>3. PICK k : k = [j EXCEPT !.todo = x]
  OBVIOUS
<1>4. PICK l : l = [k EXCEPT !.absent = y]
  OBVIOUS
<1>5. PICK m : m = [l EXCEPT !.artifacts = z]
  OBVIOUS
<1>6. k = JobWith(a, b, c, d, x, f)
  BY <1>2, <1>3, JobExcept
<1>7. l = JobWith(a, b, c, y, x, f)
  BY <1>4, <1>6, JobExcept
<1>8. m = JobWith(a, b, c, y, x, z)
  BY <1>5, <1>7, JobExcept
<1>9. Written(j, x, y, z) = m
  BY <1>3, <1>4, <1>5 DEF Written
<1> QED BY <1>1, <1>8, <1>9

\* A job that has found its next file absent.
LEMMA JobFound ==
    ASSUME NEW j, IsJob(j), NEW x
    PROVE  [j EXCEPT !.absent = x]
              = JobWith(j.version, j.at, j.parsed, x, j.todo, j.artifacts)
<1>1. PICK a, b, c, d, e, f : /\ a = j.version /\ b = j.at /\ c = j.parsed
                              /\ d = j.absent /\ e = j.todo /\ f = j.artifacts
  OBVIOUS
<1>2. j = JobWith(a, b, c, d, e, f)
  BY <1>1 DEF IsJob, JobOf, JobWith
<1>3. [j EXCEPT !.absent = x] = JobWith(a, b, c, x, e, f)
  BY <1>2, JobExcept
<1> QED BY <1>1, <1>3

LEMMA BusyWith ==
    ASSUME NEW a, NEW b, NEW c, NEW d, NEW e, NEW f,
           NEW there, NEW broken \in BOOLEAN, NEW now \in Nat,
           a \in Versions, b \in 1..now, c \in BOOLEAN, d \in BOOLEAN,
           d => e # << >>, e \in Seq(Paths),
           e # << >> => \E front \in Seq(Evidence(a, b)) :
                           /\ e = front \o <<ManifestPath(a)>>
                           /\ DOMAIN f \cup ToSet(front) = Evidence(a, b),
           DOMAIN f \subseteq Evidence(a, b) \cup {ManifestPath(a)},
           \A x \in DOMAIN f \ {ManifestPath(a)} : x \in there /\ Holds(x, f[x], broken)
    PROVE  Busy(JobWith(a, b, c, d, e, f), there, broken, now)
<1> DEFINE j == JobWith(a, b, c, d, e, f)
<1>1. /\ j.version = a /\ j.at = b /\ j.parsed = c /\ j.absent = d
      /\ j.todo = e /\ j.artifacts = f
  BY DEF JobWith
<1>2. IsJob(j)
  BY DEF IsJob, JobOf, JobWith
<1> HIDE DEF j
<1>3. Progress(j, there, broken)
  BY <1>1 DEF Progress
<1> QED BY <1>1, <1>2, <1>3 DEF Busy, j

LEMMA AcceptInv ==
    ASSUME LakeInv, NEW p \in Ingesters, AcceptDownload(p)
    PROVE  LakeInv'
<1> DEFINE broken == outages > 0
           there == DOMAIN files
<1>1. PICK j : j = job[p]
  OBVIOUS
<1>2. Busy(j, there, broken, fetches) /\ j.todo = << >>
  BY <1>1 DEF LakeInv, AcceptDownload
<1>3. j.version \in Versions /\ j.at \in 1..fetches /\ fetches \in Nat /\ j.at \in Nat
  BY <1>2 DEF Busy, LakeInv
<1> DEFINE v == j.version
           plan == Plan(j.version, j.at)
           k == JobWith(v, j.at, TRUE, j.absent, plan, << >>)
<1>4. job' = [job EXCEPT ![p] = k]
  <2>1. job' = [job EXCEPT ![p] = [j EXCEPT !.parsed = TRUE, !.artifacts = << >>,
                                            !.todo = plan]]
    BY <1>1 DEF AcceptDownload, LakeInv
  <2>2. IsJob(j)
    BY <1>2 DEF Busy
  <2> HIDE DEF plan
  <2>3. \A yes, none, rest :
           [j EXCEPT !.parsed = yes, !.artifacts = none, !.todo = rest]
              = JobWith(j.version, j.at, yes, j.absent, rest, none)
    <3> HIDE DEF k
    <3> QED BY <2>2, JobAccepted, Zenon
  <2>4. [j EXCEPT !.parsed = TRUE, !.artifacts = << >>, !.todo = plan]
           = JobWith(v, j.at, TRUE, j.absent, plan, << >>)
    <3> HIDE DEF k
    <3> QED BY <2>3, Zenon
  <2> QED BY <2>1, <2>4
<1>5. PICK front \in Seq(Evidence(v, j.at)) :
         plan = front \o <<ManifestPath(v)>> /\ ToSet(front) = Evidence(v, j.at)
  BY <1>3, PlanOf
<1>6. plan \in Seq(Paths) /\ plan # << >>
  <2>1. Evidence(v, j.at) \subseteq Paths /\ ManifestPath(v) \in Paths
    BY <1>3, EvidencePaths
  <2>2. front \in Seq(Paths) /\ <<ManifestPath(v)>> \in Seq(Paths)
    BY <1>5, <2>1, SeqMonotonic
  <2> QED BY <1>5, <2>2, ConcatProperties
<1>7. Busy(k, there, broken, fetches)
  <2>1. j.absent \in BOOLEAN /\ broken \in BOOLEAN
    BY <1>2, <1>3 DEF Busy, LakeInv
  <2>2. PICK none : none = << >> /\ DOMAIN none = {}
    OBVIOUS
  <2>3. DOMAIN none \cup ToSet(front) = Evidence(v, j.at)
    BY <1>5, <2>2
  <2> HIDE DEF plan, broken, there, v
  <2>4. Busy(JobWith(v, j.at, TRUE, j.absent, plan, none), there, broken, fetches)
    BY <1>3, <1>5, <1>6, <2>1, <2>2, <2>3, BusyWith DEF v
  <2> QED BY <2>2, <2>4
<1>8. UNCHANGED <<files, unflushed, fetches, faults>>
  BY DEF AcceptDownload
<1> HIDE DEF k
<1> QED BY <1>4, <1>7, <1>8, StayInv

\* What a plan that is not over has next, and what then remains.
EndsWith(todo, front, m) == todo = front \o <<m>>

LEMMA PointwiseTail ==
    ASSUME NEW n \in Nat \ {0}, NEW todo, NEW front, NEW rest, NEW left, NEW right, NEW m,
           \A i \in 1..n : left[i] = todo[i + 1],
           \A i \in 1..n + 1 : todo[i] = IF i <= n THEN front[i] ELSE m,
           \A i \in 1..n - 1 : rest[i] = front[i + 1],
           \A i \in 1..n : right[i] = IF i <= n - 1 THEN rest[i] ELSE m
    PROVE  \A i \in 1..n : left[i] = right[i]
OBVIOUS

LEMMA NextFile ==
    ASSUME NEW E, NEW m, NEW front \in Seq(E), NEW todo, EndsWith(todo, front, m)
    PROVE  \/ front = << >> /\ Head(todo) = m /\ Tail(todo) = << >>
           \/ /\ Head(todo) \in E
              /\ ToSet(front) = {Head(todo)} \cup ToSet(Tail(front))
              /\ Tail(front) \in Seq(E)
              /\ Tail(todo) = Tail(front) \o <<m>>
<1> USE DEF EndsWith
<1>1. CASE front = << >>
  BY <1>1
<1>2. CASE front # << >>
  <2>0. PICK n, rest : n = Len(front) /\ rest = Tail(front)
    OBVIOUS
  <2>1. /\ n \in Nat \ {0} /\ DOMAIN front = 1..n /\ \A i \in 1..n : front[i] \in E
        /\ rest \in Seq(E) /\ Len(rest) = n - 1 /\ DOMAIN rest = 1..n - 1
        /\ \A i \in 1..n - 1 : rest[i] = front[i + 1]
    BY <1>2, <2>0, HeadTailProperties, LenProperties
  <2> DEFINE F == E \cup {m}
  <2>2. /\ todo \in Seq(F) /\ Len(todo) = n + 1
        /\ \A i \in 1..n + 1 : todo[i] = IF i <= n THEN front[i] ELSE m
    <3>1. front \in Seq(F) /\ <<m>> \in Seq(F) /\ Len(<<m>>) = 1
      BY SeqMonotonic
    <3>2. PICK last : last = <<m>> /\ last[1] = m
      OBVIOUS
    <3> HIDE DEF F
    <3> QED BY <2>0, <2>1, <3>1, <3>2, ConcatProperties
  <2>3. Head(todo) = front[1]
    BY <2>1, <2>2
  <2>4. rest \o <<m>> \in Seq(F) /\ Len(rest \o <<m>>) = n
        /\ \A i \in 1..n : (rest \o <<m>>)[i] = IF i <= n - 1 THEN rest[i] ELSE m
    <3>1. rest \in Seq(F) /\ <<m>> \in Seq(F) /\ Len(<<m>>) = 1
      BY <2>1, SeqMonotonic
    <3>2. PICK last, r : last = <<m>> /\ last[1] = m /\ r = rest
      OBVIOUS
    <3> HIDE DEF F
    <3>3. /\ r \o last \in Seq(F)
          /\ Len(r \o last) = Len(r) + Len(last)
          /\ \A i \in 1..Len(r) + Len(last) :
                (r \o last)[i] = IF i <= Len(r) THEN r[i] ELSE last[i - Len(r)]
      BY <3>1, <3>2, ConcatProperties
    <3>4. Len(r) = n - 1 /\ Len(last) = 1
      BY <2>1, <3>1, <3>2
    <3>5. \A i \in 1..n : i <= n - 1 \/ i - (n - 1) = 1
      BY <2>1
    <3>6. Len(r) + Len(last) = n
      BY <2>1, <3>4
    <3>7. r \o last = rest \o <<m>>
      BY <3>2
    <3>8. PICK q : q = r \o last
      OBVIOUS
    <3>9. q \in Seq(F) /\ Len(q) = n
          /\ \A i \in 1..n : q[i] = IF i <= n - 1 THEN r[i] ELSE last[i - (n - 1)]
      BY <3>3, <3>4, <3>6, <3>8
    <3>10. \A i \in 1..n : q[i] = IF i <= n - 1 THEN rest[i] ELSE m
      BY <3>2, <3>5, <3>9
    <3> QED BY <3>7, <3>8, <3>9, <3>10
  <2>a. \A i \in 1..n : (rest \o <<m>>)[i] = IF i <= n - 1 THEN rest[i] ELSE m
    BY <2>4
  <2>5. Tail(todo) = rest \o <<m>>
    <3> DEFINE left == Tail(todo)
               right == rest \o <<m>>
    <3>1. /\ left \in Seq(F) /\ Len(left) = n
          /\ \A i \in 1..n : left[i] = todo[i + 1]
      <4>1. todo # << >>
        BY <2>1, <2>2
      <4> HIDE DEF F
      <4> QED BY <2>1, <2>2, <4>1, HeadTailProperties
    <3>2. \A i \in 1..n : left[i] = right[i]
      <4>1. \A i \in 1..n : right[i] = IF i <= n - 1 THEN rest[i] ELSE m
        BY <2>a
      <4> HIDE DEF left, right
      <4> QED BY <2>1, <2>2, <3>1, <4>1, PointwiseTail
    <3> HIDE DEF F, left, right
    <3> QED BY <2>4, <3>1, <3>2, SeqEqual DEF left, right
  <2>6. ToSet(front) = {front[1]} \cup ToSet(rest)
    <3>1. /\ n \in Nat \ {0} /\ DOMAIN front = 1..n /\ DOMAIN rest = 1..n - 1
          /\ \A i \in 1..n - 1 : rest[i] = front[i + 1]
      BY <2>1
    <3>2. ASSUME NEW i \in 1..n PROVE front[i] \in {front[1]} \cup ToSet(rest)
      <4>1. i = 1 \/ (i - 1 \in 1..n - 1 /\ front[i] = rest[i - 1])
        BY <3>1
      <4>2. ASSUME NEW h \in 1..n - 1 PROVE rest[h] \in ToSet(rest)
        BY <3>1 DEF ToSet
      <4> QED BY <4>1, <4>2
    <3>3. ASSUME NEW i \in 1..n - 1 PROVE rest[i] \in ToSet(front)
      <4>1. i + 1 \in 1..n /\ rest[i] = front[i + 1]
        BY <3>1
      <4> QED BY <3>1, <4>1 DEF ToSet
    <3>4. front[1] \in ToSet(front)
      BY <3>1 DEF ToSet
    <3>5. ASSUME NEW x \in ToSet(front) PROVE x \in {front[1]} \cup ToSet(rest)
      <4>1. PICK i \in 1..n : x = front[i]
        BY <3>1 DEF ToSet
      <4> QED BY <3>2, <4>1
    <3>6. ASSUME NEW x \in ToSet(rest) PROVE x \in ToSet(front)
      <4>1. PICK i \in 1..n - 1 : x = rest[i]
        BY <3>1 DEF ToSet
      <4> QED BY <3>3, <4>1
    <3> QED BY <3>4, <3>5, <3>6
  <2>7. front[1] \in E
    BY <2>1
  <2> QED BY <2>0, <2>1, <2>3, <2>5, <2>6, <2>7
<1> QED BY <1>1, <1>2

\* A file of the plan is the manifest when all the evidence has been dealt
\* with, and a piece of the evidence otherwise.
LEMMA HeadOf ==
    ASSUME NEW j, NEW there, NEW broken \in BOOLEAN, NEW now \in Nat,
           Busy(j, there, broken, now), j.todo # << >>
    PROVE  /\ Head(j.todo) \in Paths /\ Head(j.todo).of = j.version
           /\ \/ /\ Head(j.todo) = ManifestPath(j.version)
                 /\ Tail(j.todo) = << >>
                 /\ DOMAIN j.artifacts = Evidence(j.version, j.at)
              \/ /\ Head(j.todo) \in Evidence(j.version, j.at)
                 /\ \E front \in Seq(Evidence(j.version, j.at)) :
                       /\ Tail(j.todo) = front \o <<ManifestPath(j.version)>>
                       /\ DOMAIN j.artifacts \cup {Head(j.todo)} \cup ToSet(front)
                             = Evidence(j.version, j.at)
<1> DEFINE E == Evidence(j.version, j.at)
           m == ManifestPath(j.version)
<1>1. PICK front \in Seq(E) :
         j.todo = front \o <<m>> /\ DOMAIN j.artifacts \cup ToSet(front) = E
  BY DEF Busy, Progress
<1>2. j.version \in Versions /\ j.at \in Nat
  BY DEF Busy
<1>3. (\A x \in E : x \in Paths /\ x.of = j.version) /\ m \in Paths /\ m.of = j.version
  BY <1>2, EvidencePaths DEF ManifestPath, Path
<1> HIDE DEF E, m
<1>4. \/ front = << >> /\ Head(j.todo) = m /\ Tail(j.todo) = << >>
      \/ /\ Head(j.todo) \in E
         /\ ToSet(front) = {Head(j.todo)} \cup ToSet(Tail(front))
         /\ Tail(front) \in Seq(E)
         /\ Tail(j.todo) = Tail(front) \o <<m>>
  <2>0. PICK todo, end, F : todo = j.todo /\ end = m /\ F = E
    OBVIOUS
  <2>1. front \in Seq(F) /\ EndsWith(todo, front, end)
    BY <1>1, <2>0 DEF EndsWith
  <2>2. \/ front = << >> /\ Head(todo) = end /\ Tail(todo) = << >>
        \/ /\ Head(todo) \in F
           /\ ToSet(front) = {Head(todo)} \cup ToSet(Tail(front))
           /\ Tail(front) \in Seq(F)
           /\ Tail(todo) = Tail(front) \o <<end>>
    BY <2>1, NextFile
  <2> QED BY <2>0, <2>2
<1>5. CASE front = << >> /\ Head(j.todo) = m /\ Tail(j.todo) = << >>
  <2>1. ToSet(front) = {}
    BY <1>5 DEF ToSet
  <2> QED BY <1>1, <1>3, <1>5, <2>1 DEF E, m
<1>6. CASE /\ Head(j.todo) \in E
           /\ ToSet(front) = {Head(j.todo)} \cup ToSet(Tail(front))
           /\ Tail(front) \in Seq(E)
           /\ Tail(j.todo) = Tail(front) \o <<m>>
  <2>1. PICK rest \in Seq(E) : rest = Tail(front)
    BY <1>6
  <2>2. DOMAIN j.artifacts \cup {Head(j.todo)} \cup ToSet(rest) = E
    BY <1>1, <1>6, <2>1
  <2>3. Tail(j.todo) = rest \o <<m>>
    BY <1>6, <2>1
  <2> QED BY <1>3, <1>6, <2>2, <2>3 DEF E, m
<1> QED BY <1>4, <1>5, <1>6

LEMMA AfterWrite ==
    ASSUME NEW j, NEW there, NEW more, there \subseteq more, NEW broken \in BOOLEAN,
           NEW now \in Nat, Busy(j, there, broken, now), j.todo # << >>,
           NEW contents, Head(j.todo) \in more,
           Head(j.todo).zone # "manifests" => Holds(Head(j.todo), contents, broken)
    PROVE  Busy(JobWith(j.version, j.at, j.parsed, FALSE, Tail(j.todo),
                        Put(j.artifacts, Head(j.todo), contents)), more, broken, now)
<1> DEFINE E == Evidence(j.version, j.at)
           m == ManifestPath(j.version)
           path == Head(j.todo)
           a == Put(j.artifacts, path, contents)
<1>1. DOMAIN a = DOMAIN j.artifacts \cup {path}
  BY DEF Put
<1>2. /\ a[path] = contents
      /\ \A x \in DOMAIN a : x # path => x \in DOMAIN j.artifacts /\ a[x] = j.artifacts[x]
  BY DEF Put
<1>3. /\ j.version \in Versions /\ j.at \in 1..now /\ j.at \in Nat /\ j.parsed \in BOOLEAN
      /\ j.todo \in Seq(Paths) /\ Progress(j, there, broken)
  BY DEF Busy
<1>4. Tail(j.todo) \in Seq(Paths)
  BY <1>3, HeadTailProperties
<1>5. \/ path = m /\ Tail(j.todo) = << >> /\ DOMAIN j.artifacts = E
      \/ /\ path \in E
         /\ \E front \in Seq(E) :
               /\ Tail(j.todo) = front \o <<m>>
               /\ DOMAIN j.artifacts \cup {path} \cup ToSet(front) = E
  BY HeadOf
<1>6. \A x \in E : x.zone # "manifests"
  BY <1>3, EvidencePaths
<1>7. DOMAIN j.artifacts \subseteq E \cup {m}
      /\ \A x \in DOMAIN j.artifacts \ {m} : x \in there /\ Holds(x, j.artifacts[x], broken)
  BY <1>3 DEF Progress
<1> HIDE DEF E, m, path, a
<1>8. Tail(j.todo) # << >> =>
         \E front \in Seq(E) :
            Tail(j.todo) = front \o <<m>> /\ DOMAIN a \cup ToSet(front) = E
  BY <1>1, <1>5
<1>9. DOMAIN a \subseteq E \cup {m}
  BY <1>1, <1>5, <1>7
<1>10. ASSUME NEW x \in DOMAIN a \ {m} PROVE x \in more /\ Holds(x, a[x], broken)
  <2>1. CASE x = path
    <3>1. path \in E
      BY <1>5, <1>10, <2>1
    <3> QED BY <1>2, <1>6, <2>1, <3>1 DEF path
  <2>2. CASE x # path
    BY <1>2, <1>7, <1>10, <2>2
  <2> QED BY <2>1, <2>2
<1>11. PICK no : no = FALSE
  OBVIOUS
<1>12. Busy(JobWith(j.version, j.at, j.parsed, no, Tail(j.todo), a), more, broken, now)
  BY <1>3, <1>4, <1>8, <1>9, <1>10, <1>11, BusyWith DEF E, m
<1> QED BY <1>11, <1>12 DEF a, path

\* What p has written, or found, is next in its plan and sound.
LEMMA WroteInv ==
    ASSUME LakeInv, NEW p \in Ingesters, Writing(p), NEW contents,
           Wrote(p, contents), UNCHANGED <<fetches, faults>>,
           NEW path, path = Head(job[p].todo), path \in DOMAIN files',
           Sound(path, contents, DOMAIN files', outages > 0),
           DOMAIN files \subseteq DOMAIN files', unflushed' \subseteq DOMAIN files',
           \A x \in DOMAIN files' : Sound(x, files'[x], DOMAIN files', outages > 0)
    PROVE  LakeInv'
<1> DEFINE broken == outages > 0
<1>1. PICK j : j = job[p]
  OBVIOUS
<1>2. Busy(j, DOMAIN files, broken, fetches) /\ j.todo # << >>
  BY <1>1 DEF LakeInv, Writing
<1>3. IsJob(j)
  BY <1>2 DEF Busy
<1> DEFINE a == Put(j.artifacts, path, contents)
           k == JobWith(j.version, j.at, j.parsed, FALSE, Tail(j.todo), a)
<1>4. job' = [job EXCEPT ![p] = k]
  <2>1. job' = [job EXCEPT ![p] = Written(j, Tail(j.todo), FALSE, a)]
    BY <1>1 DEF Wrote, LakeInv, Written
  <2> HIDE DEF a
  <2>2. PICK rest, art, no : rest = Tail(j.todo) /\ art = a /\ no = FALSE
    OBVIOUS
  <2>3. Written(j, rest, no, art) = JobWith(j.version, j.at, j.parsed, no, rest, art)
    BY <1>3, JobWrote
  <2> QED BY <2>1, <2>2, <2>3
<1>5. broken \in BOOLEAN /\ fetches \in Nat
  BY DEF LakeInv
<1>6. path.zone # "manifests" => Holds(path, contents, broken)
  BY DEF Sound
<1>7. Busy(k, DOMAIN files', broken, fetches)
  <2> HIDE DEF broken
  <2> QED BY <1>1, <1>2, <1>5, <1>6, AfterWrite
<1>8. /\ fetches' \in Nat /\ fetches <= fetches' /\ fetches' = fetches
      /\ kills' \in Nat /\ outages' = outages
  BY DEF LakeInv, faults
<1>9. Busy(k, DOMAIN files', broken, fetches')
  BY <1>7, <1>8
<1> HIDE DEF k
<1> QED BY <1>4, <1>8, <1>9, IngesterStep

LEMMA KeepInv ==
    ASSUME LakeInv, NEW p \in Ingesters, KeepExisting(p)
    PROVE  LakeInv'
<1>1. PICK path : path = Head(job[p].todo)
  OBVIOUS
<1>2. PICK contents : contents = files[path]
  OBVIOUS
<1>3. /\ Writing(p) /\ path \in DOMAIN files /\ Wrote(p, contents)
      /\ UNCHANGED <<fetches, faults>> /\ files' = files /\ unflushed' = unflushed
  BY <1>1, <1>2 DEF KeepExisting
<1>4. \A x \in DOMAIN files' : Sound(x, files'[x], DOMAIN files', outages > 0)
  BY <1>3 DEF LakeInv
<1>5. unflushed' \subseteq DOMAIN files'
  BY <1>3 DEF LakeInv
<1> QED BY <1>1, <1>2, <1>3, <1>4, <1>5, WroteInv

LEMMA FindAbsentInv ==
    ASSUME LakeInv, NEW p \in Ingesters, FindAbsent(p)
    PROVE  LakeInv'
<1> DEFINE broken == outages > 0
<1>1. PICK j : j = job[p]
  OBVIOUS
<1>2. Busy(j, DOMAIN files, broken, fetches) /\ j.todo # << >>
  BY <1>1 DEF LakeInv, FindAbsent, Writing
<1> DEFINE k == JobWith(j.version, j.at, j.parsed, TRUE, j.todo, j.artifacts)
<1>3. job' = [job EXCEPT ![p] = k]
  <2>1. job' = [job EXCEPT ![p] = [j EXCEPT !.absent = TRUE]]
    BY <1>1 DEF FindAbsent, LakeInv
  <2>2. \A yes : [j EXCEPT !.absent = yes]
                   = JobWith(j.version, j.at, j.parsed, yes, j.todo, j.artifacts)
    BY <1>2, JobFound DEF Busy
  <2>3. [j EXCEPT !.absent = TRUE] = k
    BY <2>2, Zenon
  <2> QED BY <2>1, <2>3
<1>4. broken \in BOOLEAN /\ fetches \in Nat
  BY DEF LakeInv
<1>5. /\ j.version \in Versions /\ j.at \in 1..fetches /\ j.parsed \in BOOLEAN
      /\ j.todo \in Seq(Paths) /\ Progress(j, DOMAIN files, broken)
  BY <1>2 DEF Busy
<1>6. Busy(k, DOMAIN files, broken, fetches)
  <2>1. PICK yes : yes = TRUE
    OBVIOUS
  <2>2. PICK there : there = DOMAIN files
    OBVIOUS
  <2>3. Progress(j, there, broken)
    BY <1>5, <2>2
  <2> HIDE DEF broken
  <2>4. PICK v, at, parsed, todo, a :
           /\ v = j.version /\ at = j.at /\ parsed = j.parsed
           /\ todo = j.todo /\ a = j.artifacts
    OBVIOUS
  <2>5. /\ todo # << >> =>
              \E front \in Seq(Evidence(v, at)) :
                  /\ todo = front \o <<ManifestPath(v)>>
                  /\ DOMAIN a \cup ToSet(front) = Evidence(v, at)
        /\ DOMAIN a \subseteq Evidence(v, at) \cup {ManifestPath(v)}
        /\ \A x \in DOMAIN a \ {ManifestPath(v)} : x \in there /\ Holds(x, a[x], broken)
    BY <2>3, <2>4 DEF Progress
  <2>6. /\ v \in Versions /\ at \in 1..fetches /\ parsed \in BOOLEAN
        /\ todo \in Seq(Paths) /\ todo # << >>
    BY <1>2, <1>5, <2>4
  <2>7. Busy(JobWith(v, at, parsed, yes, todo, a), there, broken, fetches)
    BY <1>4, <2>1, <2>5, <2>6, BusyWith
  <2> QED BY <2>1, <2>2, <2>4, <2>7
<1>7. UNCHANGED <<files, unflushed, fetches, faults>>
  BY DEF FindAbsent
<1> HIDE DEF k
<1> QED BY <1>3, <1>6, <1>7, StayInv

LEMMA ReplaceInv ==
    ASSUME LakeInv, NEW p \in Ingesters, Replace(p)
    PROVE  LakeInv'
<1> DEFINE broken == outages > 0
<1>1. PICK path : path = Head(job[p].todo)
  OBVIOUS
<1>2. PICK j : j = job[p]
  OBVIOUS
<1>3. PICK payload :
         payload = IF path.zone = "manifests"
                     THEN Manifest(path.of, j.at, j.artifacts) ELSE Data(path)
  OBVIOUS
<1>4. /\ Writing(p) /\ Wrote(p, payload) /\ UNCHANGED <<fetches, faults>>
      /\ files' = Put(files, path, payload) /\ unflushed' = unflushed \cup {path}
  BY <1>1, <1>2, <1>3 DEF Replace
<1>5. Busy(j, DOMAIN files, broken, fetches) /\ j.todo # << >>
  BY <1>2, <1>4 DEF LakeInv, Writing
<1>6. broken \in BOOLEAN /\ fetches \in Nat
  BY DEF LakeInv
<1> DEFINE there == DOMAIN files
           more == DOMAIN files \cup {path}
<1>7. Sound(path, payload, more, broken)
  <2>1. /\ path \in Paths /\ path.of = j.version
        /\ \/ path = ManifestPath(j.version) /\ DOMAIN j.artifacts = Evidence(j.version, j.at)
           \/ path \in Evidence(j.version, j.at)
    <3> HIDE DEF broken
    <3> QED BY <1>1, <1>2, <1>5, <1>6, HeadOf
  <2>2. j.version \in Versions /\ j.at \in Nat /\ Progress(j, there, broken)
    BY <1>5 DEF Busy
  <2>3. \A x \in Evidence(j.version, j.at) : x.zone # "manifests"
    BY <2>2, EvidencePaths
  <2>a. IsParquet(path) => path.part \in Months(path.of)
    BY <2>1, <2>2, EvidencePaths
  <2>4. CASE path.zone = "manifests"
    <3>1. path = ManifestPath(path.of) /\ DOMAIN j.artifacts = Evidence(path.of, j.at)
      BY <2>1, <2>3, <2>4
    <3>2. payload = [status |-> Status(path.of), at |-> j.at, artifacts |-> j.artifacts]
      BY <1>3, <2>4 DEF Manifest
    <3>3. payload.status = Status(path.of) /\ payload.artifacts = j.artifacts
      BY <3>2
    <3>4. \A x \in DOMAIN j.artifacts : x \in more /\ Holds(x, j.artifacts[x], broken)
      <4>1. \A x \in DOMAIN j.artifacts : x # ManifestPath(j.version)
        BY <2>1, <2>3, <3>1 DEF ManifestPath, Path
      <4> QED BY <2>2, <4>1 DEF Progress
    <3>5. Certificate(path.of, payload, more, broken)
      <4> HIDE DEF broken, more
      <4> QED BY <2>2, <3>1, <3>3, <3>4 DEF Certificate
    <3> QED BY <2>1, <2>a, <2>4, <3>1, <3>5 DEF Sound
  <2>5. CASE path.zone # "manifests"
    BY <1>3, <2>1, <2>a, <2>5 DEF Sound, Holds
  <2> QED BY <2>4, <2>5
<1>8. \A x \in DOMAIN files : Sound(x, files[x], DOMAIN files, broken)
  BY DEF LakeInv
<1>9. /\ DOMAIN files' = more
      /\ \A x \in DOMAIN files' : Sound(x, files'[x], DOMAIN files', broken)
  <2> HIDE DEF broken
  <2> QED BY <1>4, <1>6, <1>7, <1>8, PutSound
<1>10. /\ path \in DOMAIN files' /\ DOMAIN files \subseteq DOMAIN files'
       /\ unflushed' \subseteq DOMAIN files'
       /\ Sound(path, payload, DOMAIN files', broken)
  BY <1>4, <1>7, <1>9 DEF LakeInv
<1> HIDE DEF more
<1> QED BY <1>1, <1>4, <1>9, <1>10, WroteInv

LEMMA IngestInv ==
    ASSUME LakeInv, NEW p \in Ingesters, Ingest(p)
    PROVE  LakeInv'
<1>1. CASE AcceptDownload(p)
  BY <1>1, AcceptInv
<1>2. CASE RefuseDownload(p)
  <2>1. kills' \in Nat
    BY <1>2 DEF RefuseDownload, LakeInv
  <2>2. job' = [job EXCEPT ![p] = None] /\ UNCHANGED <<files, unflushed, fetches, outages>>
    BY <1>2 DEF RefuseDownload
  <2> QED BY <2>1, <2>2, LeaveInv
<1>3. CASE KeepExisting(p)
  BY <1>3, KeepInv
<1>4. CASE FindAbsent(p)
  BY <1>4, FindAbsentInv
<1>5. CASE Replace(p)
  BY <1>5, ReplaceInv
<1>6. CASE Return(p)
  <2>1. kills' \in Nat
    BY <1>6 DEF Return, LakeInv, faults
  <2>2. job' = [job EXCEPT ![p] = None] /\ UNCHANGED <<files, unflushed, fetches, outages>>
    BY <1>6 DEF Return, faults
  <2> QED BY <2>1, <2>2, LeaveInv
<1> QED BY <1>1, <1>2, <1>3, <1>4, <1>5, <1>6 DEF Ingest

LEMMA KillInv ==
    ASSUME LakeInv, NEW p \in Ingesters, Kill(p)
    PROVE  LakeInv'
<1>1. kills' \in Nat
  BY DEF Kill, LakeInv
<1>2. job' = [job EXCEPT ![p] = None] /\ UNCHANGED <<files, unflushed, fetches, outages>>
  BY DEF Kill
<1> QED BY <1>1, <1>2, LeaveInv

LEMMA PowerFailureInv ==
    ASSUME LakeInv, NEW lost, NEW torn, PowerFailure(lost, torn)
    PROVE  LakeInv'
<1>1. /\ fetches' = fetches /\ kills' = kills /\ outages' = outages + 1
      /\ unflushed' = {} /\ job' = [p \in Ingesters |-> None]
  BY DEF PowerFailure
<1>2. fetches' \in Nat /\ kills' \in Nat /\ outages' \in Nat /\ outages' > 0
  BY <1>1 DEF LakeInv
<1>3. ASSUME NEW path \in DOMAIN files'
      PROVE  Sound(path, files'[path], DOMAIN files', outages' > 0)
  <2> DEFINE broken == outages > 0
  <2>1. path \in DOMAIN files /\ files'[path] = IF path \in torn THEN Torn ELSE files[path]
    BY <1>3 DEF PowerFailure
  <2>2. path \in torn => IsParquet(path)
    BY DEF PowerFailure
  <2>3. Sound(path, files[path], DOMAIN files, broken) /\ broken \in BOOLEAN
    BY <2>1 DEF LakeInv
  <2>4. PICK contents : contents = files[path]
    OBVIOUS
  <2>5. PICK there, left : there = DOMAIN files /\ left = DOMAIN files'
    OBVIOUS
  <2> HIDE DEF broken
  <2>6. Sound(path, contents, there, broken)
    BY <2>3, <2>4, <2>5
  <2>7. Sound(path, contents, left, TRUE) /\ (IsParquet(path) => Sound(path, Torn, left, TRUE))
    BY <2>3, <2>6, SoundOnceBroken
  <2>8. Sound(path, files'[path], left, TRUE)
    BY <2>1, <2>2, <2>4, <2>7
  <2>9. (outages' > 0) = TRUE
    BY <1>2
  <2> QED BY <2>5, <2>8, <2>9
<1>4. /\ job' = [p \in Ingesters |-> job'[p]]
      /\ \A p \in Ingesters : job'[p] = None
  BY <1>1
<1> QED BY <1>1, <1>2, <1>3, <1>4 DEF LakeInv

LEMMA IngestedSound ==
    ASSUME NEW vs \in SUBSET Versions, NEW path \in DOMAIN Ingested(vs)
    PROVE  Sound(path, Ingested(vs)[path], DOMAIN Ingested(vs), FALSE)
<1> DEFINE there == UNION {ToSet(Plan(v, 0)) : v \in vs}
           evidence(v) == ToSet(Plan(v, 0)) \ {ManifestPath(v)}
<1>1. /\ DOMAIN Ingested(vs) = there
      /\ Ingested(vs)[path] =
            IF path.zone = "manifests"
              THEN Manifest(path.of, 0, [x \in evidence(path.of) |-> Data(x)])
              ELSE Data(path)
  BY DEF Ingested
<1>2. ASSUME NEW v \in vs
      PROVE  ToSet(Plan(v, 0)) = Evidence(v, 0) \cup {ManifestPath(v)}
  <2> DEFINE m == ManifestPath(v)
  <2>1. PICK front \in Seq(Evidence(v, 0)) :
           Plan(v, 0) = front \o <<m>> /\ ToSet(front) = Evidence(v, 0)
    BY PlanOf
  <2> DEFINE F == Evidence(v, 0) \cup {m}
  <2>2. front \in Seq(F)
    BY SeqMonotonic
  <2>3. PICK end : end = <<m>>
    OBVIOUS
  <2>4. end \in Seq(F) /\ ToSet(end) = {m}
    BY <2>3, SingleSet, SeqMonotonic
  <2> HIDE DEF F, m
  <2>5. ToSet(front \o end) = ToSet(front) \cup ToSet(end)
    BY <2>2, <2>4, ConcatSet
  <2> QED BY <2>1, <2>3, <2>4, <2>5 DEF m
<1>3. PICK v \in vs : path \in ToSet(Plan(v, 0))
  BY <1>1
<1>4. /\ \A x \in Evidence(v, 0) : x \in Paths /\ x.of = v /\ x.zone # "manifests"
      /\ ManifestPath(v) \in Paths
      /\ ManifestPath(v).zone = "manifests" /\ ManifestPath(v).of = v
  BY EvidencePaths DEF ManifestPath, Path
<1>a. \A x \in Evidence(v, 0) : IsParquet(x) => x.part \in Months(v)
  BY EvidencePaths
<1>b. ~IsParquet(ManifestPath(v))
  BY EvidencePaths
<1>5. CASE path.zone = "manifests"
  <2>1. path = ManifestPath(v) /\ path.of = v
    BY <1>2, <1>3, <1>4, <1>5
  <2>2. evidence(v) = Evidence(v, 0)
    BY <1>2, <1>4
  <2> DEFINE artifacts == [x \in Evidence(v, 0) |-> Data(x)]
  <2>3. Ingested(vs)[path] = [status |-> Status(v), at |-> 0, artifacts |-> artifacts]
    BY <1>1, <1>5, <2>1, <2>2 DEF Manifest
  <2>4. PICK m : m = Ingested(vs)[path]
    OBVIOUS
  <2>5. m.status = Status(v) /\ m.artifacts = artifacts
    BY <2>3, <2>4
  <2>6. \A x \in Evidence(v, 0) : x \in there
    BY <1>2
  <2>7. Certificate(v, m, there, FALSE)
    <3>1. \A x \in Evidence(v, 0) : Holds(x, m.artifacts[x], FALSE)
      BY <2>5 DEF Holds
    <3>2. DOMAIN m.artifacts = Evidence(v, 0)
      BY <2>5
    <3> HIDE DEF there
    <3> QED BY <2>5, <2>6, <3>1, <3>2 DEF Certificate
  <2> QED BY <1>1, <1>4, <1>b, <1>5, <2>1, <2>4, <2>7 DEF Sound
<1>6. CASE path.zone # "manifests"
  <2>1. path \in Evidence(v, 0)
    BY <1>2, <1>3, <1>4, <1>6
  <2>2. path \in Paths /\ path.of = v /\ (IsParquet(path) => path.part \in Months(v))
    BY <1>4, <1>a, <2>1
  <2> QED BY <1>1, <1>6, <2>2 DEF Sound, Holds
<1> QED BY <1>5, <1>6

LEMMA LakeInitInv == LakeInit => LakeInv
<1> SUFFICES ASSUME LakeInit PROVE LakeInv
  OBVIOUS
<1>1. (outages > 0) = FALSE
  BY DEF LakeInit
<1>2. PICK vs \in Seedings : files = Ingested(vs)
  BY DEF LakeInit
<1>3. vs \in SUBSET Versions
  BY <1>2, LakeAssumption
<1>4. \A path \in DOMAIN Ingested(vs) :
         Sound(path, Ingested(vs)[path], DOMAIN Ingested(vs), FALSE)
  BY <1>3, IngestedSound
<1>5. \A path \in DOMAIN files : Sound(path, files[path], DOMAIN files, outages > 0)
  BY <1>1, <1>2, <1>4 DEF LakeInit
<1> QED BY <1>5 DEF LakeInit, LakeInv

LEMMA LakeUnchanged ==
    ASSUME LakeInv, UNCHANGED <<files, unflushed, job, fetches, outages>>, kills' \in Nat
    PROVE  LakeInv'
BY DEF LakeInv

LEMMA NextLakeInv == LakeInv /\ [Next]_vars => LakeInv'
<1> SUFFICES ASSUME LakeInv, [Next]_vars PROVE LakeInv'
  OBVIOUS
<1>1. CASE LakeStep
  <2>1. ASSUME NEW p \in Ingesters, NEW v \in Versions, Fetch(p, v) PROVE LakeInv'
    BY <2>1, FetchInv
  <2>2. ASSUME NEW p \in Ingesters, Ingest(p) PROVE LakeInv'
    BY <2>2, IngestInv
  <2>3. ASSUME NEW p \in Ingesters, Kill(p) PROVE LakeInv'
    BY <2>3, KillInv
  <2> QED BY <1>1, <2>1, <2>2, <2>3 DEF LakeStep
<1>2. CASE UNCHANGED lakeVars
  BY <1>2, LakeUnchanged DEF lakeVars, faults, LakeInv
<1>3. ASSUME NEW damaged \in Damage, NEW torn \in SUBSET damaged,
             PowerFailure(damaged \ torn, torn)
      PROVE  LakeInv'
  BY <1>3, PowerFailureInv
<1>4. CASE KillMatrix \/ RaiseInSuite
  BY <1>4, LakeUnchanged DEF KillMatrix, RaiseInSuite, LakeInv
<1>5. MatrixStep => UNCHANGED lakeVars \/ RaiseInSuite
  BY DEF MatrixStep, Load, Resolve, Block, RaiseOnTorn, RunExperiment, FinishCell,
         WriteGate, Report, RefuseGate, Abort
<1>6. \A v : Start(v) => UNCHANGED lakeVars
  BY DEF Start
<1>7. vars' = vars => UNCHANGED lakeVars
  BY DEF vars
<1> QED BY <1>1, <1>2, <1>3, <1>4, <1>5, <1>6, <1>7 DEF Next

THEOREM LakeInvariant == Spec => []LakeInv
<1>1. Init => LakeInv
  BY LakeInitInv DEF Init
<1> QED BY <1>1, NextLakeInv, PTL DEF Spec

(***************************************************************************)
(* Whatever the interleaving of the ingesters and wherever they die, a     *)
(* manifest names only files that are there with the digest it gives, as   *)
(* long as the power does not fail.                                        *)
(***************************************************************************)
LEMMA LakeCertifies == LakeInv => ManifestCertifies
<1> SUFFICES ASSUME LakeInv, outages = 0,
                    NEW path \in DOMAIN files, path.zone = "manifests"
             PROVE  Certified(path.of)
  BY DEF ManifestCertifies
<1>1. ~(outages > 0)
  OBVIOUS
<1>2. PICK v : v = path.of
  OBVIOUS
<1>3. /\ path \in Paths /\ path = ManifestPath(v)
      /\ Certificate(v, files[path], DOMAIN files, outages > 0)
  BY <1>2 DEF LakeInv, Sound
<1>4. PICK artifacts : artifacts = files[path].artifacts
  OBVIOUS
<1>5. PICK at \in Nat : DOMAIN artifacts = Evidence(v, at)
  BY <1>3, <1>4 DEF Certificate
<1>6. v \in Versions
  BY <1>2, <1>3 DEF Paths
<1>7. ASSUME NEW x \in DOMAIN artifacts
      PROVE  x \in DOMAIN files /\ files[x] = artifacts[x]
  <2>1. x \in DOMAIN files /\ artifacts[x] = Data(x)
    BY <1>1, <1>3, <1>4 DEF Certificate, Holds
  <2>2. x.zone # "manifests"
    BY <1>5, <1>6, EvidencePaths
  <2>3. Sound(x, files[x], DOMAIN files, outages > 0)
    BY <2>1 DEF LakeInv
  <2> QED BY <1>1, <2>1, <2>2, <2>3 DEF Sound, Holds
<1>8. ASSUME IsValid(v) PROVE CuratedArtifacts(v) = Parts("curated", v)
  <2>1. CuratedArtifacts(v) = {x \in Evidence(v, at) : x.zone = "curated"}
    BY <1>3, <1>4, <1>5 DEF CuratedArtifacts
  <2> QED BY <1>8, <2>1 DEF Evidence, Parts, Path
<1> QED BY <1>2, <1>3, <1>4, <1>7, <1>8 DEF Certified

THEOREM ManifestsCertify == Spec => []ManifestCertifies
BY LakeInvariant, LakeCertifies, PTL
=============================================================================
