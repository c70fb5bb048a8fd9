--------------------------- MODULE LakeProperties ---------------------------
(***************************************************************************)
(* What ingestion, the lake and the validation matrix must satisfy.        *)
(***************************************************************************)
EXTENDS ValidationMatrix

Paths == [zone : Zones, of : Versions, part : Nat]

(***************************************************************************)
(* Every file is under a name of its own kind and holds what belongs       *)
(* there, or is what an outage left of it; only files may be unflushed;    *)
(* the locals of the commands name versions, and a running command is      *)
(* somewhere in its script.                                                *)
(***************************************************************************)
TypeOK ==
    /\ DOMAIN files \subseteq Paths
    /\ \A path \in DOMAIN files :
          IF path.zone = "manifests" THEN files[path].status \in {"CURATED", "QUARANTINED"}
          ELSE IF IsParquet(path) THEN files[path] \in MonthRows \cup {Torn}
          ELSE files[path] = path.of
    /\ unflushed \subseteq DOMAIN files
    /\ \A p \in Ingesters : job[p] # None =>
          /\ job[p].version \in Versions
          /\ job[p].at \in 1..fetches
          /\ job[p].todo \in Seq(Paths)
          /\ job[p].absent => job[p].todo # << >>
          /\ DOMAIN job[p].artifacts \subseteq Paths
    /\ position \in 0..Len(Script)
    /\ \A k \in Requests :
          /\ resolved[k] # None => resolved[k] \in Versions /\ RequestOf[resolved[k]] = k
          /\ loaded[k] # None => DOMAIN loaded[k] \subseteq MonthsOf[k]
    /\ recorded \in 0..SuiteSize
    /\ \A e \in registry : e.run \in 1..runs /\ e.cell \in Cells

(***************************************************************************)
(* Without a power failure a manifest only ever names files that are there *)
(* with the digest it gives, and a curated one names every month of its    *)
(* version: although ingesters race for every file, die between any two    *)
(* writes, and a rerun takes the files it finds (the manifest is written   *)
(* last, DATA.md:120-125).                                                 *)
(***************************************************************************)
Certified(v) ==
    LET artifacts == files[ManifestPath(v)].artifacts
    IN  /\ \A path \in DOMAIN artifacts :
              path \in DOMAIN files /\ files[path] = artifacts[path]
        /\ IsValid(v) => CuratedArtifacts(v) = Parts("curated", v)

ManifestCertifies ==
    outages = 0 => \A path \in DOMAIN files :
                      path.zone = "manifests" => Certified(path.of)

(***************************************************************************)
(* What the loader returns is the whole validated content of the version   *)
(* that was resolved, also after processes died or the power failed        *)
(* between any two writes and files were lost or torn: CuratedDataLoader   *)
(* fails closed ("Fail-closed reads", loader.py:1).                        *)
(***************************************************************************)
LoadedIsValidated ==
    \A k \in Requests : loaded[k] # None =>
        LET v == IF k \in Snapshots THEN instruments ELSE resolved[k]
        IN  IsValid(v) /\ loaded[k] = RowsOf[v]

(***************************************************************************)
(* The experiments of a cell are all about one version of its window,      *)
(* whatever the venue revises and however the ingesters race: a second     *)
(* curated version makes resolve_unique refuse the window.  (A power       *)
(* failure may take the first version away before the second comes.)       *)
(***************************************************************************)
OneVersionPerWindow ==
    outages = 0 => \A e, f \in registry :
        e.cell = f.cell /\ e.data.instruments = f.data.instruments
            => e.data = f.data

(***************************************************************************)
(* Behind the gate document stands a complete matrix: for each cell the    *)
(* full suite of one run, recorded on the data the cell names.             *)
(***************************************************************************)
GateBacked ==
    gate # None =>
        /\ Complete(gate.cells)
        /\ \E r \in 1..runs : \A i \in DOMAIN gate.cells :
              SuiteSize = Cardinality({e \in registry :
                 /\ e.run = r
                 /\ e.cell = gate.cells[i].cell
                 /\ e.data = gate.cells[i].data})

(***************************************************************************)
(* A rerun reproduces the gate document: a run that reaches the gate with  *)
(* the snapshot an earlier run wrote it with has computed the same bytes,  *)
(* although the venue revised the data, ingesters raced, runs died half    *)
(* way, and the earlier one perhaps between writing and reporting.  So     *)
(* write_once accepts them and the run reports COMPLETE; FileExistsError   *)
(* is left to another snapshot, and to a version a power failure took.     *)
(***************************************************************************)
RerunReproduces ==
    /\ outages = 0
    /\ Doing("gate")
    /\ gate # None
    /\ \A i \in DOMAIN gate.cells : gate.cells[i].data.instruments = instruments
    => gate = Document
=============================================================================
