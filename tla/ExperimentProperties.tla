------------------------ MODULE ExperimentProperties ------------------------
(***************************************************************************)
(* What the experiment store promises (docs/ANALYTICS.md, "Evidence flow"  *)
(* and "Reproducibility envelope").                                        *)
(***************************************************************************)
EXTENDS ExperimentStore

Rows == DOMAIN registry

Registry == INSTANCE ExperimentRegistry WITH
    rows <- [i \in Rows |-> registry[i].status],
    evidence <- {i \in Ids : published[i] \notin {None, Leftover(i)}}

Labels == {"idle"} \cup Unreserved \cup Owning

RowTypes == [status : {"RESERVED", "COMPLETE", "FAILED"},
             experiment : Experiments, digest : Bundles \cup {None}]

\* The types of the variables of record, its registry and its files.
TypeOK ==
    /\ registry \in Seq(RowTypes)
    /\ Len(registry) <= MaxRecords
    /\ documents \in [Runs -> Documents \cup {None}]
    /\ temporary \subseteq Rows
    /\ published \in [Ids -> Bundles \cup {None}]
    /\ pc \in [Recorders -> Labels]
    /\ recording \in [Recorders -> Experiments \cup {None}]
    /\ seen \in [Recorders -> Documents \cup {None}]
    /\ reserved \in [Recorders -> Rows \cup {None}]
    /\ digest \in [Recorders -> Bundles \cup {None}]
    /\ faults \in 0..MaxFaults
    /\ lost \subseteq Rows

(***************************************************************************)
(* A completed row has its bundle in place: the one of this very           *)
(* experiment, with the hash the row holds.                                *)
(***************************************************************************)
CompleteIsCertified ==
    \A i \in Rows : registry[i].status = "COMPLETE" =>
        /\ published[i] # None
        /\ published[i].id = i
        /\ published[i].experiment = registry[i].experiment
        /\ registry[i].digest = published[i]

(***************************************************************************)
(* The manifest of a completed experiment certifies the backtest document  *)
(* of that experiment, and the file of that run still has those contents.  *)
(* It needs that all recorders compute the same document for a run.        *)
(***************************************************************************)
EvidenceMatches ==
    \A i \in Rows : registry[i].status = "COMPLETE" =>
        LET e == registry[i].experiment
        IN  published[i].document = e.document /\ documents[e.run] = e.document

(***************************************************************************)
(* A row still RESERVED belongs to a running recorder, or was lost by one  *)
(* that died or raised outside the reach of its handler.                   *)
(***************************************************************************)
ReservationsAccounted ==
    \A i \in Rows : registry[i].status = "RESERVED" =>
        i \in lost \/ \E r \in Recorders : pc[r] \in Owning /\ reserved[r] = i

\* A row that is completed or failed has no temporary directory left.
NoResidue == \A i \in temporary : registry[i].status = "RESERVED"

(***************************************************************************)
(* Every reservation is resolved, whatever the other recorders do, unless  *)
(* it is lost.                                                             *)
(***************************************************************************)
ReservationResolved ==
    \A i \in Ids :
        (i \in Rows) ~> (i \in lost \/ (i \in Rows /\ registry[i].status # "RESERVED"))

\* The store is an append-only registry of rows with evidence.
ImplementsRegistry == Registry!Spec

(***************************************************************************)
(* "Backtest JSON uses write-once semantics and cannot be silently         *)
(* replaced" (docs/ANALYTICS.md:53).                                       *)
(***************************************************************************)
BacktestNeverReplaced ==
    [][\A x \in Runs : documents[x] # None => documents'[x] = documents[x]]_vars
=============================================================================
