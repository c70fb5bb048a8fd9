--------------------------- MODULE ExperimentStore --------------------------
(***************************************************************************)
(* ExperimentStore.record (experiments/store.py) run by several processes  *)
(* on one artifact root: the write-once backtest document, the reservation *)
(* in SQLite, the bundle written beside its target and renamed into place, *)
(* the completion of the row, and the handler that cleans up and fails it. *)
(*                                                                         *)
(* A step is a file system or SQLite operation; each may fail, and a       *)
(* process may die before any of them.  A transaction of SQLite is atomic  *)
(* and durable, a rename is atomic.  A hash is modelled by what it is the  *)
(* hash of.  The n-th row of the registry is experiment EXP-<n>.  The root *)
(* may hold the files of earlier sessions: documents, and directories left *)
(* from a registry that was lost.                                          *)
(***************************************************************************)
EXTENDS Naturals, Sequences, FiniteSets

CONSTANTS
    Recorders,      \* processes that record experiments
    Runs,           \* backtest run ids
    Documents,      \* contents of a backtest document
    Experiments,    \* what may be recorded: [name, run, document]
    MaxRecords,     \* bound: rows of the registry
    MaxFaults,      \* bound: failing operations and dying processes
    None

Ids == 1..MaxRecords

\* What a directory EXP-<id> holds, or is the hash of.
Bundles == [id : Ids, experiment : Experiments \cup {None},
            document : Documents \cup {None}]

ASSUME StoreAssumption ==
    /\ \A e \in Experiments : e.run \in Runs /\ e.document \in Documents
    /\ MaxRecords \in Nat
    /\ MaxFaults \in Nat
    /\ None \notin Documents \cup Experiments \cup Bundles \cup Nat

VARIABLES
    registry,     \* rows of the table experiments
    documents,    \* backtests/<run>.json, or None
    temporary,    \* experiments whose temporary directory exists
    published,    \* bundle in experiments/EXP-<n>, or None
    pc,           \* where each process is in record
    recording,    \* the experiment it records
    seen,         \* backtest_artifact.sha256
    reserved,     \* experiment_id
    digest,       \* manifest_hash
    faults,       \* failing operations and dying processes so far
    lost          \* history: rows whose process died, or raised outside the
                  \* reach of its handler, before resolving them

localVars == <<pc, recording, seen, reserved, digest>>
fileVars == <<documents, temporary, published>>
vars == <<registry, fileVars, localVars, faults, lost>>

\* A directory EXP-<i> of a registry that was lost.
Leftover(i) == [id |-> i, experiment |-> None, document |-> None]

Init ==
    /\ registry = << >>
    /\ documents \in [Runs -> Documents \cup {None}]
    /\ temporary = {}
    /\ \E left \in SUBSET Ids :
          published = [i \in Ids |-> IF i \in left THEN Leftover(i) ELSE None]
    /\ pc = [r \in Recorders |-> "idle"]
    /\ recording = [r \in Recorders |-> None]
    /\ seen = [r \in Recorders |-> None]
    /\ reserved = [r \in Recorders |-> None]
    /\ digest = [r \in Recorders |-> None]
    /\ faults = 0
    /\ lost = {}
-----------------------------------------------------------------------------
At(r, label) == pc[r] = label

GoTo(r, label) == pc' = [pc EXCEPT ![r] = label]

\* record returns or raises: its locals are gone.
Leave(r) ==
    /\ GoTo(r, "idle")
    /\ recording' = [recording EXCEPT ![r] = None]
    /\ seen' = [seen EXCEPT ![r] = None]
    /\ reserved' = [reserved EXCEPT ![r] = None]
    /\ digest' = [digest EXCEPT ![r] = None]

Fault == faults < MaxFaults /\ faults' = faults + 1

\* Steps of record before the row exists, and steps inside its try.
Unreserved == {"document", "replace", "hash", "reserve"}
Guarded == {"write", "publish", "digest", "complete", "readback"}
Handling == {"cleanup", "fail"}
Owning == {"mkdtemp"} \cup Guarded \cup Handling

(***************************************************************************)
(* _validate accepts the evidence; what it refuses leaves no trace.        *)
(***************************************************************************)
Begin(r, e) ==
    /\ At(r, "idle")
    /\ Len(registry) + Cardinality({q \in Recorders : pc[q] \in Unreserved}) < MaxRecords
    /\ recording' = [recording EXCEPT ![r] = e]
    /\ GoTo(r, "document")
    /\ UNCHANGED <<registry, fileVars, seen, reserved, digest, faults, lost>>

(***************************************************************************)
(* BacktestArtifactStore.write through write_once: look, then write a      *)
(* temporary file, sync it and rename it; then hash what is there.         *)
(***************************************************************************)
\* Mutant of LookForDocument: any document that is there will do.
TakeAnyDocument(r) ==
    /\ At(r, "document")
    /\ GoTo(r, IF documents[recording[r].run] = None THEN "replace" ELSE "hash")
    /\ UNCHANGED <<registry, fileVars, recording, seen, reserved, digest, faults, lost>>

LookForDocument(r) ==
    LET e == recording[r]
    IN  /\ At(r, "document")
        /\ \/ documents[e.run] = None /\ GoTo(r, "replace")
           \/ documents[e.run] = e.document /\ GoTo(r, "hash")
        /\ UNCHANGED <<registry, fileVars, recording, seen, reserved, digest,
                       faults, lost>>

\* "immutable artifact differs"
RefuseDocument(r) ==
    /\ At(r, "document")
    /\ documents[recording[r].run] \notin {None, recording[r].document}
    /\ Leave(r)
    /\ UNCHANGED <<registry, fileVars, faults, lost>>

ReplaceDocument(r) ==
    /\ At(r, "replace")
    /\ documents' = [documents EXCEPT ![recording[r].run] = recording[r].document]
    /\ GoTo(r, "hash")
    /\ UNCHANGED <<registry, temporary, published, recording, seen, reserved,
                   digest, faults, lost>>

HashDocument(r) ==
    /\ At(r, "hash")
    /\ seen' = [seen EXCEPT ![r] = documents[recording[r].run]]
    /\ GoTo(r, "reserve")
    /\ UNCHANGED <<registry, fileVars, recording, reserved, digest, faults, lost>>

(***************************************************************************)
(* _reserve: one transaction.  AUTOINCREMENT never reuses a row id.        *)
(***************************************************************************)
\* Mutant of Reserve: the id is read before the insertion.
ReserveReadsOldId(r) ==
    /\ At(r, "reserve")
    /\ Len(registry) < MaxRecords
    /\ registry' = Append(registry,
          [status |-> "RESERVED", experiment |-> recording[r], digest |-> None])
    /\ reserved' = [reserved EXCEPT ![r] = Len(registry)]
    /\ GoTo(r, "mkdtemp")
    /\ UNCHANGED <<fileVars, recording, seen, digest, faults, lost>>

Reserve(r) ==
    /\ At(r, "reserve")
    /\ Len(registry) < MaxRecords
    /\ registry' = Append(registry,
          [status |-> "RESERVED", experiment |-> recording[r], digest |-> None])
    /\ reserved' = [reserved EXCEPT ![r] = Len(registry) + 1]
    /\ GoTo(r, "mkdtemp")
    /\ UNCHANGED <<fileVars, recording, seen, digest, faults, lost>>

\* tempfile.mkdtemp, outside the try
MakeTemporary(r) ==
    /\ At(r, "mkdtemp")
    /\ temporary' = temporary \cup {reserved[r]}
    /\ GoTo(r, "write")
    /\ UNCHANGED <<registry, documents, published, recording, seen, reserved,
                   digest, faults, lost>>

\* _write_bundle; the bundle is in the temporary directory only.
WriteBundle(r) ==
    /\ At(r, "write")
    /\ GoTo(r, "publish")
    /\ UNCHANGED <<registry, fileVars, recording, seen, reserved, digest, faults,
                   lost>>

Bundle(r) == [id |-> reserved[r], experiment |-> recording[r], document |-> seen[r]]

(***************************************************************************)
(* target.exists() and os.replace; a target that exists is an error.       *)
(***************************************************************************)
Publish(r) ==
    /\ At(r, "publish")
    /\ published[reserved[r]] = None
    /\ published' = [published EXCEPT ![reserved[r]] = Bundle(r)]
    /\ temporary' = temporary \ {reserved[r]}
    /\ GoTo(r, "digest")
    /\ UNCHANGED <<registry, documents, recording, seen, reserved, digest, faults,
                   lost>>

\* Mutant of TargetExists: a target that is there counts as published.
TargetTaken(r) ==
    /\ At(r, "publish")
    /\ published[reserved[r]] # None
    /\ GoTo(r, "digest")
    /\ UNCHANGED <<registry, fileVars, recording, seen, reserved, digest, faults, lost>>

TargetExists(r) ==
    /\ At(r, "publish")
    /\ published[reserved[r]] # None
    /\ GoTo(r, "cleanup")
    /\ UNCHANGED <<registry, fileVars, recording, seen, reserved, digest, faults,
                   lost>>

HashManifest(r) ==
    /\ At(r, "digest")
    /\ digest' = [digest EXCEPT ![r] = published[reserved[r]]]
    /\ GoTo(r, "complete")
    /\ UNCHANGED <<registry, fileVars, recording, seen, reserved, faults, lost>>

(***************************************************************************)
(* _complete, then get reads the row back and record returns it.           *)
(***************************************************************************)
Complete(r) ==
    /\ At(r, "complete")
    /\ registry' = [registry EXCEPT ![reserved[r]] =
          IF @.status = "RESERVED"
          THEN [@ EXCEPT !.status = "COMPLETE", !.digest = digest[r]]
          ELSE @]
    /\ GoTo(r, "readback")
    /\ UNCHANGED <<fileVars, recording, seen, reserved, digest, faults, lost>>

ReadBack(r) ==
    /\ At(r, "readback")
    /\ Leave(r)
    /\ UNCHANGED <<registry, fileVars, faults, lost>>

(***************************************************************************)
(* The handler: rmtree of the temporary directory if it is still there,    *)
(* _fail, and the exception goes on.                                       *)
(***************************************************************************)
\* Mutant of Cleanup: _fail is forgotten.
RaiseWithoutFail(r) ==
    /\ At(r, "cleanup")
    /\ temporary' = temporary \ {reserved[r]}
    /\ Leave(r)
    /\ UNCHANGED <<registry, documents, published, faults, lost>>

\* Mutant of Cleanup: the target is removed, not the temporary directory.
RemoveTarget(r) ==
    /\ At(r, "cleanup")
    /\ published' = [published EXCEPT ![reserved[r]] = None]
    /\ GoTo(r, "fail")
    /\ UNCHANGED <<registry, documents, temporary, recording, seen, reserved,
                   digest, faults, lost>>

\* Mutant of Cleanup: the temporary directory stays.
CleanupKeepsTemporary(r) ==
    /\ At(r, "cleanup")
    /\ GoTo(r, "fail")
    /\ UNCHANGED <<registry, fileVars, recording, seen, reserved, digest, faults, lost>>

Cleanup(r) ==
    /\ At(r, "cleanup")
    /\ temporary' = temporary \ {reserved[r]}
    /\ GoTo(r, "fail")
    /\ UNCHANGED <<registry, documents, published, recording, seen, reserved,
                   digest, faults, lost>>

MarkFailed(r) ==
    /\ At(r, "fail")
    /\ registry' = [registry EXCEPT ![reserved[r]].status = "FAILED"]
    /\ Leave(r)
    /\ UNCHANGED <<fileVars, faults, lost>>
-----------------------------------------------------------------------------
(***************************************************************************)
(* What goes wrong.  Before the row exists, record only raises; inside the *)
(* try the handler runs; mkdtemp and the handler itself are outside it.    *)
(***************************************************************************)
RaiseUnreserved(r) ==
    /\ pc[r] \in Unreserved
    /\ Fault
    /\ Leave(r)
    /\ UNCHANGED <<registry, fileVars, lost>>

\* Mutant of RaiseGuarded: an exception the handler does not name.
RaiseUncaught(r) ==
    /\ pc[r] \in Guarded
    /\ Fault
    /\ Leave(r)
    /\ UNCHANGED <<registry, fileVars, lost>>

RaiseGuarded(r) ==
    /\ pc[r] \in Guarded
    /\ Fault
    /\ GoTo(r, "cleanup")
    /\ UNCHANGED <<registry, fileVars, recording, seen, reserved, digest, lost>>

RaiseUnguarded(r) ==
    /\ pc[r] \in {"mkdtemp"} \cup Handling
    /\ Fault
    /\ lost' = lost \cup {reserved[r]}
    /\ Leave(r)
    /\ UNCHANGED <<registry, fileVars>>

\* The process dies between two steps; another one takes its place.
Crash(r) ==
    /\ pc[r] # "idle"
    /\ Fault
    /\ lost' = lost \cup ({reserved[r]} \ {None})
    /\ Leave(r)
    /\ UNCHANGED <<registry, fileVars>>
-----------------------------------------------------------------------------
\* The bound on rows is reached and nothing is being recorded.
Full ==
    /\ Len(registry) = MaxRecords
    /\ \A r \in Recorders : pc[r] = "idle"
    /\ UNCHANGED vars

\* What a recorder does when nothing fails.
Proceed(r) ==
    \/ LookForDocument(r) \/ RefuseDocument(r) \/ ReplaceDocument(r) \/ HashDocument(r)
    \/ Reserve(r) \/ MakeTemporary(r) \/ WriteBundle(r)
    \/ Publish(r) \/ TargetExists(r) \/ HashManifest(r)
    \/ Complete(r) \/ ReadBack(r)
    \/ Cleanup(r) \/ MarkFailed(r)

GoWrong(r) == RaiseUnreserved(r) \/ RaiseGuarded(r) \/ RaiseUnguarded(r) \/ Crash(r)

Next ==
    \/ \E r \in Recorders :
          \/ \E e \in Experiments : Begin(r, e)
          \/ Proceed(r)
          \/ GoWrong(r)
    \/ Full

Spec ==
    /\ Init /\ [][Next]_vars
    /\ \A r \in Recorders : WF_vars(Proceed(r))
=============================================================================
