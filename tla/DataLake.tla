------------------------------ MODULE DataLake ------------------------------
(***************************************************************************)
(* DataIngestionService over DataLake (data/pipeline.py, data/storage.py): *)
(* several processes ingest windows of market data into one directory of   *)
(* write-once files, and CuratedDataLoader (data/loader.py) reads it.      *)
(*                                                                         *)
(* A write is two steps, the test that the file is absent and the rename   *)
(* over its name, and a process may die before any step.  Parquet files    *)
(* are renamed without fsync and no directory is ever synced: a power      *)
(* failure may lose any recent file and tear a recent Parquet file.  A     *)
(* temporary file has a hidden name, which no reader looks for.            *)
(*                                                                         *)
(* A version is the digest of a request and of the rows downloaded for it, *)
(* and is modelled as what it is the digest of: RequestOf and RowsOf tell  *)
(* versions apart, rows by the month they are in.  The digest of a file is *)
(* what the file holds.                                                    *)
(***************************************************************************)
EXTENDS Naturals, Sequences, FiniteSets, SequencesExt

CONSTANTS
    Ingesters,    \* processes of `atl data`
    Requests,     \* a data type with symbol, timeframe and window
    Snapshots,    \* the requests for instruments, which nothing validates
    MonthsOf,     \* [Requests -> set of months, one Parquet part each]
    MonthRows,    \* what the rows of a month may be
    Flawed,       \* the rows the validator refuses, gaps included
    Versions,
    RequestOf,    \* [Versions -> Requests]
    RowsOf,       \* [Versions -> [the months with rows -> MonthRows]]
    Offered,      \* bound: the versions the venue may serve, download by download
    Seedings,     \* what may have been ingested before the run starts
    MaxFaults,    \* bound: commands that raise or die, and power failures
    MaxDamage,    \* bound: files one power failure loses or tears
    Torn,         \* what is left of a Parquet file that was not flushed
    None

Months(v) == DOMAIN RowsOf[v]

ASSUME LakeAssumption ==
    /\ Snapshots \subseteq Requests
    /\ Flawed \subseteq MonthRows
    /\ RequestOf \in [Versions -> Requests]
    /\ \A v \in Versions :
          /\ Months(v) \subseteq MonthsOf[RequestOf[v]]
          /\ RequestOf[v] \in Snapshots => Months(v) = MonthsOf[RequestOf[v]]
          /\ RowsOf[v] \in [Months(v) -> MonthRows]
          /\ \A w \in Versions \ {v} : RequestOf[w] # RequestOf[v] \/ RowsOf[w] # RowsOf[v]
    /\ \A k \in Requests : MonthsOf[k] \subseteq Nat /\ IsFiniteSet(MonthsOf[k])
    /\ Offered \in Seq(SUBSET Versions)
    /\ Seedings \subseteq SUBSET Versions
    /\ Torn \notin MonthRows \cup Versions
    /\ None \notin Versions

VARIABLES
    files,      \* the directory: what each existing file holds
    unflushed,  \* files whose bytes or name may not be on the disk yet
    job,        \* what each ingester is doing, or None
    fetches,    \* downloads so far; the n-th is retrieved at time n
    kills,      \* commands that raised or died
    outages

faults == <<kills, outages>>
lakeVars == <<files, unflushed, job, fetches, faults>>

ParquetZones == {"normalized", "curated", "quarantine"}
Zones == ParquetZones \cup {"raw", "reports", "manifests"}

\* The function f, with y at x.
Put(f, x, y) == [z \in DOMAIN f \cup {x} |-> IF z = x THEN y ELSE f[z]]

\* part: the month of a Parquet file, the time of a raw page.
Path(zone, v, part) == [zone |-> zone, of |-> v, part |-> part]
IsParquet(path) == path.zone \in ParquetZones
Parts(zone, v) == {Path(zone, v, m) : m \in Months(v)}
ManifestPath(v) == Path("manifests", v, 0)

\* ValidationReport.is_valid: no month of the window is missing or flawed.
IsValid(v) ==
    \/ RequestOf[v] \in Snapshots
    \/ /\ Months(v) = MonthsOf[RequestOf[v]]
       /\ \A m \in Months(v) : RowsOf[v][m] \notin Flawed

Status(v) == IF IsValid(v) THEN "CURATED" ELSE "QUARANTINED"

(***************************************************************************)
(* What ingest_candles, ingest_funding, ingest_mark_prices and             *)
(* ingest_instruments write, in order: the pages again, the normalized     *)
(* parts, the parts of the zone the report decides, and the manifest.      *)
(***************************************************************************)
InOrder(paths) ==
    CHOOSE s \in [1..Cardinality(paths) -> paths] :
        \A i, j \in DOMAIN s : i < j => s[i].part < s[j].part

\* Mutant of Plan: the manifest comes before the parts it certifies.
ManifestFirst(v, at) ==
    <<Path("raw", v, at)>> \o InOrder(Parts("normalized", v)) \o
    <<ManifestPath(v)>> \o InOrder(Parts("curated", v))

Plan(v, at) ==
    <<Path("raw", v, at)>>
    \o (IF RequestOf[v] \in Snapshots THEN << >> ELSE InOrder(Parts("normalized", v)))
    \o (IF IsValid(v) THEN InOrder(Parts("curated", v))
                      ELSE Append(InOrder(Parts("quarantine", v)), Path("reports", v, 0)))
    \o <<ManifestPath(v)>>

\* DatasetManifest: the artifacts are the files the ingestion wrote or found,
\* with the digest of what each held.
Manifest(v, at, artifacts) ==
    [status |-> Status(v), at |-> at, artifacts |-> artifacts]

Data(path) == IF IsParquet(path) THEN RowsOf[path.of][path.part] ELSE path.of

\* A lake in which each of vs was ingested without a fault, at time 0.
Ingested(vs) ==
    LET evidence(v) == ToSet(Plan(v, 0)) \ {ManifestPath(v)}
    IN  [path \in UNION {ToSet(Plan(v, 0)) : v \in vs} |->
            IF path.zone = "manifests"
              THEN Manifest(path.of, 0, [x \in evidence(path.of) |-> Data(x)])
              ELSE Data(path)]

LakeInit ==
    /\ files \in {Ingested(vs) : vs \in Seedings}
    /\ unflushed = {}
    /\ job = [p \in Ingesters |-> None]
    /\ fetches = 0
    /\ kills = 0
    /\ outages = 0
-----------------------------------------------------------------------------
Writing(p) == job[p] # None /\ job[p].todo # << >>

\* The venue answers; the client's sink preserves the page before parsing it,
\* under a digest of its time of retrieval too, which no other download has.
Fetch(p, v) ==
    LET page == Path("raw", v, fetches + 1)
    IN  /\ job[p] = None
        /\ fetches < Len(Offered)
        /\ v \in Offered[fetches + 1]
        /\ fetches' = fetches + 1
        /\ files' = Put(files, page, Data(page))
        /\ unflushed' = unflushed \cup {page}
        /\ job' = [job EXCEPT ![p] =
              [version |-> v, at |-> fetches + 1, parsed |-> FALSE, absent |-> FALSE,
               todo |-> << >>, artifacts |-> << >>]]
        /\ UNCHANGED faults

\* BybitAPIError: the pages stay, the command ends.
RefuseDownload(p) ==
    /\ job[p] # None /\ job[p].todo = << >> /\ ~job[p].parsed
    /\ kills + outages < MaxFaults
    /\ kills' = kills + 1
    /\ job' = [job EXCEPT ![p] = None]
    /\ UNCHANGED <<files, unflushed, fetches, outages>>

AcceptDownload(p) ==
    /\ job[p] # None /\ job[p].todo = << >> /\ ~job[p].parsed
    /\ job' = [job EXCEPT ![p].parsed = TRUE, ![p].artifacts = << >>,
                          ![p].todo = Plan(job[p].version, job[p].at)]
    /\ UNCHANGED <<files, unflushed, fetches, faults>>

\* Mutant of Wrote: the absence of a file holds for the next one too.
WroteKeepsFlag(p, contents) ==
    LET path == Head(job[p].todo)
    IN  job' = [job EXCEPT ![p].todo = Tail(@), ![p].artifacts = Put(@, path, contents)]

\* The write is over: the artifact has the digest of what the file holds.
Wrote(p, contents) ==
    LET path == Head(job[p].todo)
    IN  job' = [job EXCEPT ![p].todo = Tail(@), ![p].absent = FALSE,
                           ![p].artifacts = Put(@, path, contents)]

\* _write_once and _write_parquet_once return when the target exists.
KeepExisting(p) ==
    /\ Writing(p) /\ ~job[p].absent
    /\ Head(job[p].todo) \in DOMAIN files
    /\ Wrote(p, files[Head(job[p].todo)])
    /\ UNCHANGED <<files, unflushed, fetches, faults>>

FindAbsent(p) ==
    /\ Writing(p) /\ ~job[p].absent
    /\ Head(job[p].todo) \notin DOMAIN files
    /\ job' = [job EXCEPT ![p].absent = TRUE]
    /\ UNCHANGED <<files, unflushed, fetches, faults>>

\* The rename replaces what another process may have put there meanwhile.
Replace(p) ==
    LET path == Head(job[p].todo)
        payload == IF path.zone = "manifests"
                     THEN Manifest(path.of, job[p].at, job[p].artifacts) ELSE Data(path)
    IN  /\ Writing(p) /\ job[p].absent
        /\ files' = Put(files, path, payload)
        /\ unflushed' = unflushed \cup {path}
        /\ Wrote(p, payload)
        /\ UNCHANGED <<fetches, faults>>

\* The IngestionResult is printed.
Return(p) ==
    /\ job[p] # None /\ job[p].todo = << >> /\ job[p].parsed
    /\ job' = [job EXCEPT ![p] = None]
    /\ UNCHANGED <<files, unflushed, fetches, faults>>

Kill(p) ==
    /\ job[p] # None
    /\ kills + outages < MaxFaults
    /\ kills' = kills + 1
    /\ job' = [job EXCEPT ![p] = None]
    /\ UNCHANGED <<files, unflushed, fetches, outages>>

\* Whatever the operating system has written back by itself is not damaged.
PowerFailure(lost, torn) ==
    /\ kills + outages < MaxFaults
    /\ outages' = outages + 1
    /\ lost \subseteq unflushed
    /\ torn \subseteq {path \in unflushed : IsParquet(path)}
    /\ files' = [path \in DOMAIN files \ lost |->
                    IF path \in torn THEN Torn ELSE files[path]]
    /\ unflushed' = {}
    /\ job' = [p \in Ingesters |-> None]
    /\ UNCHANGED <<fetches, kills>>

Damage == UNION {kSubset(n, unflushed) : n \in 0..MaxDamage}

Ingest(p) ==
    \/ AcceptDownload(p) \/ RefuseDownload(p)
    \/ KeepExisting(p) \/ FindAbsent(p) \/ Replace(p)
    \/ Return(p)
-----------------------------------------------------------------------------
(***************************************************************************)
(* CuratedDataLoader.                                                      *)
(***************************************************************************)
Certificates == {path \in DOMAIN files : /\ path.zone = "manifests"
                                         /\ files[path].status = "CURATED"}

\* The versions resolve_unique counts.
Matches(k) == {path.of : path \in {x \in Certificates : RequestOf[x.of] = k}}

CuratedArtifacts(v) ==
    {path \in DOMAIN files[ManifestPath(v)].artifacts : path.zone = "curated"}

\* Mutant of Intact: a file that is not there is passed over.
IntactIfThere(v) ==
    /\ ManifestPath(v) \in Certificates
    /\ \E path \in CuratedArtifacts(v) : path \in DOMAIN files
    /\ \A path \in CuratedArtifacts(v) \cap DOMAIN files :
          files[path] = files[ManifestPath(v)].artifacts[path]

\* Each file _rows reads exists and has the digest of the manifest.
Intact(v) ==
    /\ ManifestPath(v) \in Certificates
    /\ CuratedArtifacts(v) # {}
    /\ \A path \in CuratedArtifacts(v) :
          path \in DOMAIN files /\ files[path] = files[ManifestPath(v)].artifacts[path]

Held(v) == CuratedArtifacts(v) \cap DOMAIN files

\* pyarrow reads the files: a torn one has no footer.
Parses(v) == \A path \in Held(v) : files[path] # Torn

Rows(v) == [m \in {path.part : path \in Held(v)} |-> files[Path("curated", v, m)]]
=============================================================================
