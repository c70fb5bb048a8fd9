-------------------------- MODULE ExperimentProofs --------------------------
(***************************************************************************)
(* The experiment store, for any number of recorders, rows and faults: the *)
(* types, the certificate of a completed row, the account of reservations, *)
(* and that the store implements the registry.                             *)
(***************************************************************************)
EXTENDS ExperimentProperties, SequenceTheorems, TLAPS

\* A recorder past its reservation owns that row, which is still RESERVED
\* until it is completed, and nobody else owns it.
Ownership ==
    /\ \A r \in Recorders : pc[r] # "idle" => recording[r] \in Experiments
    /\ \A r \in Recorders : pc[r] \in Owning =>
          /\ reserved[r] \in Rows
          /\ registry[reserved[r]].experiment = recording[r]
          /\ registry[reserved[r]].status # "FAILED"
          /\ pc[r] \notin {"cleanup", "fail", "readback"} =>
                registry[reserved[r]].status = "RESERVED"
          /\ pc[r] = "readback" => registry[reserved[r]].status = "COMPLETE"
    /\ \A q, r \in Recorders :
          pc[q] \in Owning /\ pc[r] \in Owning /\ reserved[q] = reserved[r] => q = r

\* Between the rename and the completion the target is the recorder's bundle.
Progress ==
    \A r \in Recorders :
        /\ pc[r] \in {"digest", "complete"} =>
              /\ published[reserved[r]] = Bundle(r)
        /\ pc[r] = "complete" => digest[r] = published[reserved[r]]

\* A temporary directory is gone once its recorder is past it.
Moved ==
    \A r \in Recorders :
        pc[r] \in {"digest", "complete", "readback", "fail"} => reserved[r] \notin temporary

Local == Ownership /\ Progress /\ Moved
Shared == CompleteIsCertified /\ ReservationsAccounted /\ NoResidue
IndInv == TypeOK /\ Local /\ Shared

\* A step that leaves rows and files alone, and no reservation without owner.
LEMMA QuietStep ==
    ASSUME TypeOK, Shared,
           UNCHANGED <<registry, published, temporary>>,
           lost \subseteq lost',
           \A q \in Recorders : pc[q] \in Owning =>
              \/ pc'[q] \in Owning /\ reserved'[q] = reserved[q]
              \/ reserved[q] \in lost'
              \/ registry[reserved[q]].status # "RESERVED"
    PROVE  Shared'
<1>1. CompleteIsCertified' /\ NoResidue'
  BY DEF Shared, CompleteIsCertified, NoResidue, Rows
<1>2. ReservationsAccounted'
  BY DEF Shared, ReservationsAccounted, Rows
<1> QED BY <1>1, <1>2 DEF Shared

LEMMA InitHolds == Init => IndInv
<1> SUFFICES ASSUME Init PROVE IndInv
  OBVIOUS
<1>1. TypeOK
  BY StoreAssumption DEF Init, TypeOK, Ids, Leftover, Bundles, Rows, Labels, RowTypes
<1>2. Local
  BY DEF Init, Local, Ownership, Progress, Moved, Owning, Guarded, Handling
<1>3. Shared
  BY DEF Init, Shared, CompleteIsCertified, ReservationsAccounted, NoResidue, Rows
<1> QED BY <1>1, <1>2, <1>3 DEF IndInv

LEMMA BeginKeeps ==
    ASSUME IndInv, NEW r \in Recorders, NEW e \in Experiments, Begin(r, e)
    PROVE  IndInv'
<1> USE StoreAssumption DEF IndInv, Begin, At, GoTo, fileVars, Fault, Rows, Ids, Unreserved, Guarded, Handling, Owning, Labels
<1>1. TypeOK'
  BY DEF TypeOK, RowTypes, Bundles
<1>2. Local'
  BY DEF Local, Ownership, Progress, Moved, TypeOK, RowTypes, Bundle, Bundles
<1>3. Shared'
  BY QuietStep DEF TypeOK, Local, Ownership
<1> QED BY <1>1, <1>2, <1>3

LEMMA LookForDocumentKeeps ==
    ASSUME IndInv, NEW r \in Recorders, LookForDocument(r)
    PROVE  IndInv'
<1> USE StoreAssumption DEF IndInv, LookForDocument, At, GoTo, fileVars, Fault, Rows, Ids, Unreserved, Guarded, Handling, Owning, Labels
<1>1. TypeOK'
  BY DEF TypeOK, RowTypes, Bundles
<1>a. pc[r] = "document" /\ pc' \in {[pc EXCEPT ![r] = "replace"], [pc EXCEPT ![r] = "hash"]}
  OBVIOUS
<1>b. UNCHANGED <<registry, published, temporary, recording, reserved, seen, digest>>
  OBVIOUS
<1>2. Local'
  BY <1>a, <1>b DEF Local, Ownership, Progress, Moved, TypeOK, Bundle
<1>3. Shared'
  BY QuietStep DEF TypeOK, Local, Ownership
<1> QED BY <1>1, <1>2, <1>3

LEMMA RefuseDocumentKeeps ==
    ASSUME IndInv, NEW r \in Recorders, RefuseDocument(r)
    PROVE  IndInv'
<1> USE StoreAssumption DEF IndInv, RefuseDocument, Leave, At, GoTo, fileVars, Fault, Rows, Ids, Unreserved, Guarded, Handling, Owning, Labels
<1>1. TypeOK'
  BY DEF TypeOK, RowTypes, Bundles
<1>2. Local'
  BY DEF Local, Ownership, Progress, Moved, TypeOK, RowTypes, Bundle, Bundles
<1>3. Shared'
  BY QuietStep DEF TypeOK, Local, Ownership
<1> QED BY <1>1, <1>2, <1>3

LEMMA ReplaceDocumentKeeps ==
    ASSUME IndInv, NEW r \in Recorders, ReplaceDocument(r)
    PROVE  IndInv'
<1> USE StoreAssumption DEF IndInv, ReplaceDocument, At, GoTo, fileVars, Fault, Rows, Ids, Unreserved, Guarded, Handling, Owning, Labels
<1>a. recording[r] \in Experiments
  BY DEF Local, Ownership
<1>1. TypeOK'
  BY <1>a DEF TypeOK
<1>2. Local'
  BY DEF Local, Ownership, Progress, Moved, TypeOK, RowTypes, Bundle, Bundles
<1>3. Shared'
  BY QuietStep DEF TypeOK, Local, Ownership
<1> QED BY <1>1, <1>2, <1>3

LEMMA HashDocumentKeeps ==
    ASSUME IndInv, NEW r \in Recorders, HashDocument(r)
    PROVE  IndInv'
<1> USE StoreAssumption DEF IndInv, HashDocument, At, GoTo, fileVars, Fault, Rows, Ids, Unreserved, Guarded, Handling, Owning, Labels
<1>a. recording[r] \in Experiments
  BY DEF Local, Ownership
<1>1. TypeOK'
  BY <1>a DEF TypeOK
<1>2. Local'
  BY DEF Local, Ownership, Progress, Moved, TypeOK, RowTypes, Bundle, Bundles
<1>3. Shared'
  BY QuietStep DEF TypeOK, Local, Ownership
<1> QED BY <1>1, <1>2, <1>3

LEMMA ReserveKeeps ==
    ASSUME IndInv, NEW r \in Recorders, Reserve(r)
    PROVE  IndInv'
<1> USE StoreAssumption DEF IndInv, Reserve, At, GoTo, fileVars, Fault, Rows, Ids, Unreserved, Guarded, Handling, Owning, Labels
<1>a. recording[r] \in Experiments
  BY DEF Local, Ownership
<1> DEFINE row == [status |-> "RESERVED", experiment |-> recording[r], digest |-> None]
<1>b. row \in RowTypes
  BY <1>a DEF RowTypes
<1>c. /\ registry' = Append(registry, row)
      /\ registry' \in Seq(RowTypes)
      /\ Len(registry') = Len(registry) + 1
      /\ DOMAIN registry' = DOMAIN registry \cup {Len(registry) + 1}
      /\ \A i \in DOMAIN registry : registry'[i] = registry[i]
      /\ registry'[Len(registry) + 1] = row
  BY <1>b, AppendProperties DEF TypeOK
<1> HIDE DEF row
<1>d. reserved' = [reserved EXCEPT ![r] = Len(registry) + 1]
  OBVIOUS
<1>1. TypeOK'
  BY <1>c, <1>d DEF TypeOK
<1>2. Local'
  BY DEF Local, Ownership, Progress, Moved, TypeOK, RowTypes, Bundle, Bundles
<1>3. Shared'
  <2>1. CompleteIsCertified' /\ NoResidue'
    BY <1>c DEF Shared, CompleteIsCertified, NoResidue, TypeOK, row
  <2>2. /\ pc'[r] = "mkdtemp" /\ reserved'[r] = Len(registry) + 1
        /\ \A q \in Recorders : pc[q] \in Owning => pc'[q] = pc[q] /\ reserved'[q] = reserved[q]
    BY DEF TypeOK
  <2>3. ReservationsAccounted'
    BY <1>c, <2>2 DEF Shared, ReservationsAccounted
  <2> QED BY <2>1, <2>3 DEF Shared
<1> QED BY <1>1, <1>2, <1>3

LEMMA MakeTemporaryKeeps ==
    ASSUME IndInv, NEW r \in Recorders, MakeTemporary(r)
    PROVE  IndInv'
<1> USE StoreAssumption DEF IndInv, MakeTemporary, At, GoTo, fileVars, Fault, Rows, Ids, Unreserved, Guarded, Handling, Owning, Labels
<1>a. reserved[r] \in Rows
  BY DEF Local, Ownership
<1>1. TypeOK'
  BY <1>a DEF TypeOK
<1>2. Local'
  BY DEF Local, Ownership, Progress, Moved, TypeOK, RowTypes, Bundle, Bundles
<1>3. Shared'
  BY DEF Shared, CompleteIsCertified, ReservationsAccounted, NoResidue, Local, Ownership, Progress, Moved, TypeOK, RowTypes
<1> QED BY <1>1, <1>2, <1>3

LEMMA WriteBundleKeeps ==
    ASSUME IndInv, NEW r \in Recorders, WriteBundle(r)
    PROVE  IndInv'
<1> USE StoreAssumption DEF IndInv, WriteBundle, At, GoTo, fileVars, Fault, Rows, Ids, Unreserved, Guarded, Handling, Owning, Labels
<1>1. TypeOK'
  BY DEF TypeOK, RowTypes, Bundles
<1>2. Local'
  BY DEF Local, Ownership, Progress, Moved, TypeOK, RowTypes, Bundle, Bundles
<1>3. Shared'
  BY QuietStep DEF TypeOK, Local, Ownership
<1> QED BY <1>1, <1>2, <1>3

LEMMA PublishKeeps ==
    ASSUME IndInv, NEW r \in Recorders, Publish(r)
    PROVE  IndInv'
<1> USE StoreAssumption DEF IndInv, Publish, At, GoTo, fileVars, Fault, Rows, Ids, Unreserved, Guarded, Handling, Owning, Labels
<1>a. reserved[r] \in Rows
  BY DEF Local, Ownership
<1>b. reserved[r] \in Ids /\ Bundle(r) \in Bundles
  BY <1>a DEF Bundle, Bundles, TypeOK
<1>1. TypeOK'
  BY <1>a, <1>b DEF TypeOK
<1>2. Local'
  BY DEF Local, Ownership, Progress, Moved, TypeOK, RowTypes, Bundle, Bundles
<1>3. Shared'
  BY DEF Shared, CompleteIsCertified, ReservationsAccounted, NoResidue, Local, Ownership, Progress, Moved, TypeOK, RowTypes
<1> QED BY <1>1, <1>2, <1>3

LEMMA TargetExistsKeeps ==
    ASSUME IndInv, NEW r \in Recorders, TargetExists(r)
    PROVE  IndInv'
<1> USE StoreAssumption DEF IndInv, TargetExists, At, GoTo, fileVars, Fault, Rows, Ids, Unreserved, Guarded, Handling, Owning, Labels
<1>1. TypeOK'
  BY DEF TypeOK, RowTypes, Bundles
<1>2. Local'
  BY DEF Local, Ownership, Progress, Moved, TypeOK, RowTypes, Bundle, Bundles
<1>3. Shared'
  BY QuietStep DEF TypeOK, Local, Ownership
<1> QED BY <1>1, <1>2, <1>3

LEMMA HashManifestKeeps ==
    ASSUME IndInv, NEW r \in Recorders, HashManifest(r)
    PROVE  IndInv'
<1> USE StoreAssumption DEF IndInv, HashManifest, At, GoTo, fileVars, Fault, Rows, Ids, Unreserved, Guarded, Handling, Owning, Labels
<1>a. reserved[r] \in Rows
  BY DEF Local, Ownership
<1>b. published[reserved[r]] \in Bundles \cup {None}
  BY <1>a DEF TypeOK
<1>1. TypeOK'
  BY <1>b DEF TypeOK
<1>2. Local'
  BY DEF Local, Ownership, Progress, Moved, TypeOK, RowTypes, Bundle, Bundles
<1>3. Shared'
  BY QuietStep DEF TypeOK, Local, Ownership
<1> QED BY <1>1, <1>2, <1>3

LEMMA CompleteKeeps ==
    ASSUME IndInv, NEW r \in Recorders, Complete(r)
    PROVE  IndInv'
<1> USE StoreAssumption DEF IndInv, Complete, At, GoTo, fileVars, Fault, Rows, Ids, Unreserved, Guarded, Handling, Owning, Labels
<1>a. reserved[r] \in Rows
  BY DEF Local, Ownership
<1> DEFINE row == [registry[reserved[r]] EXCEPT !.status = "COMPLETE", !.digest = digest[r]]
<1>e. registry[reserved[r]] \in RowTypes
  BY <1>a, ElementOfSeq DEF TypeOK
<1>b. row \in RowTypes
  BY <1>e DEF TypeOK, RowTypes
<1>c. registry' = [registry EXCEPT ![reserved[r]] = row]
  BY <1>a DEF Local, Ownership
<1> HIDE DEF row
<1>d. /\ registry' \in Seq(RowTypes)
      /\ Len(registry') = Len(registry)
      /\ DOMAIN registry' = DOMAIN registry
  BY <1>a, <1>b, <1>c, ExceptSeq DEF TypeOK
<1>1. TypeOK'
  BY <1>d DEF TypeOK
<1>2. Local'
  BY DEF Local, Ownership, Progress, Moved, TypeOK, RowTypes, Bundle, Bundles
<1>3. Shared'
  <2>1. /\ registry'[reserved[r]] = row
        /\ \A i \in Rows \ {reserved[r]} : registry'[i] = registry[i]
    BY <1>a, <1>c DEF TypeOK
  <2>2. /\ row.status = "COMPLETE"
        /\ row.digest = digest[r]
        /\ row.experiment = registry[reserved[r]].experiment
    BY <1>e DEF row, RowTypes
  <2>3. /\ published[reserved[r]] = digest[r]
        /\ published[reserved[r]] = Bundle(r)
        /\ registry[reserved[r]].experiment = recording[r]
        /\ reserved[r] \notin temporary
    BY DEF Local, Ownership, Progress, Moved
  <2>4. Bundle(r) # None
    BY <1>a DEF Bundle, Bundles, TypeOK
  <2>5. CompleteIsCertified'
    BY <1>d, <2>1, <2>2, <2>3, <2>4 DEF Shared, CompleteIsCertified, Bundle
  <2>6. NoResidue'
    BY <1>d, <2>1, <2>3 DEF Shared, NoResidue, TypeOK
  <2>7. ReservationsAccounted'
    BY <1>d, <2>1, <2>2 DEF Shared, ReservationsAccounted, TypeOK
  <2> QED BY <2>5, <2>6, <2>7 DEF Shared
<1> QED BY <1>1, <1>2, <1>3

LEMMA ReadBackKeeps ==
    ASSUME IndInv, NEW r \in Recorders, ReadBack(r)
    PROVE  IndInv'
<1> USE StoreAssumption DEF IndInv, ReadBack, Leave, At, GoTo, fileVars, Fault, Rows, Ids, Unreserved, Guarded, Handling, Owning, Labels
<1>1. TypeOK'
  BY DEF TypeOK, RowTypes, Bundles
<1>2. Local'
  BY DEF Local, Ownership, Progress, Moved, TypeOK, RowTypes, Bundle, Bundles
<1>3. Shared'
  BY QuietStep DEF TypeOK, Local, Ownership
<1> QED BY <1>1, <1>2, <1>3

LEMMA CleanupKeeps ==
    ASSUME IndInv, NEW r \in Recorders, Cleanup(r)
    PROVE  IndInv'
<1> USE StoreAssumption DEF IndInv, Cleanup, At, GoTo, fileVars, Fault, Rows, Ids, Unreserved, Guarded, Handling, Owning, Labels
<1>1. TypeOK'
  BY DEF TypeOK, RowTypes, Bundles
<1>2. Local'
  BY DEF Local, Ownership, Progress, Moved, TypeOK, RowTypes, Bundle, Bundles
<1>3. Shared'
  BY DEF Shared, CompleteIsCertified, ReservationsAccounted, NoResidue, Local, Ownership, Progress, Moved, TypeOK, RowTypes
<1> QED BY <1>1, <1>2, <1>3

LEMMA MarkFailedKeeps ==
    ASSUME IndInv, NEW r \in Recorders, MarkFailed(r)
    PROVE  IndInv'
<1> USE StoreAssumption DEF IndInv, MarkFailed, Leave, At, GoTo, fileVars, Fault, Rows, Ids, Unreserved, Guarded, Handling, Owning, Labels
<1>a. reserved[r] \in Rows
  BY DEF Local, Ownership
<1> DEFINE row == [registry[reserved[r]] EXCEPT !.status = "FAILED"]
<1>e. registry[reserved[r]] \in RowTypes
  BY <1>a, ElementOfSeq DEF TypeOK
<1>b. row \in RowTypes
  BY <1>e DEF TypeOK, RowTypes
<1>c. registry' = [registry EXCEPT ![reserved[r]] = row]
  BY <1>a
<1> HIDE DEF row
<1>d. /\ registry' \in Seq(RowTypes)
      /\ Len(registry') = Len(registry)
      /\ DOMAIN registry' = DOMAIN registry
  <2>1. registry \in Seq(RowTypes) /\ reserved[r] \in DOMAIN registry
    BY <1>a DEF TypeOK
  <2> HIDE DEF Rows
  <2> QED BY <2>1, <1>b, <1>c, ExceptSeq
<1>1. TypeOK'
  BY <1>d DEF TypeOK
<1>2. Local'
  BY DEF Local, Ownership, Progress, Moved, TypeOK, RowTypes, Bundle, Bundles
<1>3. Shared'
  BY DEF Shared, CompleteIsCertified, ReservationsAccounted, NoResidue, Local, Ownership, Progress, Moved, TypeOK, RowTypes
<1> QED BY <1>1, <1>2, <1>3

LEMMA RaiseUnreservedKeeps ==
    ASSUME IndInv, NEW r \in Recorders, RaiseUnreserved(r)
    PROVE  IndInv'
<1> USE StoreAssumption DEF IndInv, RaiseUnreserved, Leave, At, GoTo, fileVars, Fault, Rows, Ids, Unreserved, Guarded, Handling, Owning, Labels
<1>1. TypeOK'
  BY DEF TypeOK, RowTypes, Bundles
<1>2. Local'
  BY DEF Local, Ownership, Progress, Moved, TypeOK, RowTypes, Bundle, Bundles
<1>3. Shared'
  BY QuietStep DEF TypeOK, Local, Ownership
<1> QED BY <1>1, <1>2, <1>3

LEMMA RaiseGuardedKeeps ==
    ASSUME IndInv, NEW r \in Recorders, RaiseGuarded(r)
    PROVE  IndInv'
<1> USE StoreAssumption DEF IndInv, RaiseGuarded, At, GoTo, fileVars, Fault, Rows, Ids, Unreserved, Guarded, Handling, Owning, Labels
<1>1. TypeOK'
  BY DEF TypeOK, RowTypes, Bundles
<1>2. Local'
  BY DEF Local, Ownership, Progress, Moved, TypeOK, RowTypes, Bundle, Bundles
<1>3. Shared'
  BY QuietStep DEF TypeOK, Local, Ownership
<1> QED BY <1>1, <1>2, <1>3

LEMMA RaiseUnguardedKeeps ==
    ASSUME IndInv, NEW r \in Recorders, RaiseUnguarded(r)
    PROVE  IndInv'
<1> USE StoreAssumption DEF IndInv, RaiseUnguarded, Leave, At, GoTo, fileVars, Fault, Rows, Ids, Unreserved, Guarded, Handling, Owning, Labels
<1>a. reserved[r] \in Rows
  BY DEF Local, Ownership
<1>1. TypeOK'
  BY <1>a DEF TypeOK
<1>2. Local'
  BY DEF Local, Ownership, Progress, Moved, TypeOK, RowTypes, Bundle, Bundles
<1>3. Shared'
  BY QuietStep DEF TypeOK, Local, Ownership
<1> QED BY <1>1, <1>2, <1>3

LEMMA CrashKeeps ==
    ASSUME IndInv, NEW r \in Recorders, Crash(r)
    PROVE  IndInv'
<1> USE StoreAssumption DEF IndInv, Crash, Leave, At, GoTo, fileVars, Fault, Rows, Ids, Unreserved, Guarded, Handling, Owning, Labels
<1>1. TypeOK'
  BY DEF TypeOK, RowTypes, Bundles
<1>2. Local'
  BY DEF Local, Ownership, Progress, Moved, TypeOK, RowTypes, Bundle, Bundles
<1>3. Shared'
  BY QuietStep DEF TypeOK, Local, Ownership
<1> QED BY <1>1, <1>2, <1>3

LEMMA ProceedKeeps ==
    ASSUME IndInv, NEW r \in Recorders, Proceed(r)
    PROVE  IndInv'
<1>1. CASE LookForDocument(r)
  BY <1>1, LookForDocumentKeeps
<1>2. CASE RefuseDocument(r)
  BY <1>2, RefuseDocumentKeeps
<1>3. CASE ReplaceDocument(r)
  BY <1>3, ReplaceDocumentKeeps
<1>4. CASE HashDocument(r)
  BY <1>4, HashDocumentKeeps
<1>5. CASE Reserve(r)
  BY <1>5, ReserveKeeps
<1>6. CASE MakeTemporary(r)
  BY <1>6, MakeTemporaryKeeps
<1>7. CASE WriteBundle(r)
  BY <1>7, WriteBundleKeeps
<1>8. CASE Publish(r)
  BY <1>8, PublishKeeps
<1>9. CASE TargetExists(r)
  BY <1>9, TargetExistsKeeps
<1>10. CASE HashManifest(r)
  BY <1>10, HashManifestKeeps
<1>11. CASE Complete(r)
  BY <1>11, CompleteKeeps
<1>12. CASE ReadBack(r)
  BY <1>12, ReadBackKeeps
<1>13. CASE Cleanup(r)
  BY <1>13, CleanupKeeps
<1>14. CASE MarkFailed(r)
  BY <1>14, MarkFailedKeeps
<1> QED BY <1>1, <1>2, <1>3, <1>4, <1>5, <1>6, <1>7, <1>8, <1>9, <1>10, <1>11, <1>12, <1>13, <1>14 DEF Proceed

LEMMA GoWrongKeeps ==
    ASSUME IndInv, NEW r \in Recorders, GoWrong(r)
    PROVE  IndInv'
BY RaiseUnreservedKeeps, RaiseGuardedKeeps, RaiseUnguardedKeeps, CrashKeeps DEF GoWrong

LEMMA StutterKeeps ==
    ASSUME IndInv, UNCHANGED vars
    PROVE  IndInv'
<1> USE DEF vars, fileVars, localVars, IndInv, Rows
<1>1. TypeOK'
  BY DEF TypeOK
<1>2. Local'
  BY DEF Local, Ownership, Progress, Moved, Bundle
<1>3. Shared'
  BY DEF Shared, CompleteIsCertified, ReservationsAccounted, NoResidue
<1> QED BY <1>1, <1>2, <1>3

\* The invariant holds in every reachable state of the store.
THEOREM Invariance == Spec => []IndInv
<1>1. Init => IndInv
  BY InitHolds
<1>2. IndInv /\ [Next]_vars => IndInv'
  <2> SUFFICES ASSUME IndInv, [Next]_vars PROVE IndInv'
    OBVIOUS
  <2>1. ASSUME NEW r \in Recorders, NEW e \in Experiments, Begin(r, e) PROVE IndInv'
    BY <2>1, BeginKeeps
  <2>2. ASSUME NEW r \in Recorders, Proceed(r) PROVE IndInv'
    BY <2>2, ProceedKeeps
  <2>3. ASSUME NEW r \in Recorders, GoWrong(r) PROVE IndInv'
    BY <2>3, GoWrongKeeps
  <2>4. CASE Full \/ UNCHANGED vars
    BY <2>4, StutterKeeps DEF Full
  <2> QED BY <2>1, <2>2, <2>3, <2>4 DEF Next
<1> QED BY <1>1, <1>2, PTL DEF Spec

\* The variables of record, the registry and the files keep their types.
THEOREM TypeCorrect == Spec => []TypeOK
<1>1. IndInv => TypeOK
  BY DEF IndInv
<1> QED BY <1>1, Invariance, PTL

\* A COMPLETE row has its own bundle in place, with the hash it holds,
\* whatever fails and however many recorders run.
THEOREM Certified == Spec => []CompleteIsCertified
<1>1. IndInv => CompleteIsCertified
  BY DEF IndInv, Shared
<1> QED BY <1>1, Invariance, PTL

\* A RESERVED row has a running owner or was lost outside the handler.
THEOREM Accounted == Spec => []ReservationsAccounted
<1>1. IndInv => ReservationsAccounted
  BY DEF IndInv, Shared
<1> QED BY <1>1, Invariance, PTL

\* The handler and the rename leave no temporary directory of a resolved row.
THEOREM Clean == Spec => []NoResidue
<1>1. IndInv => NoResidue
  BY DEF IndInv, Shared
<1> QED BY <1>1, Invariance, PTL

-----------------------------------------------------------------------------
(***************************************************************************)
(* The store implements the registry: reservation, rename, completion and  *)
(* failure are its steps, everything else stutters.                        *)
(***************************************************************************)
Statuses == [i \in Rows |-> registry[i].status]
Evidence == {i \in Ids : published[i] \notin {None, Leftover(i)}}
Abstract == <<Statuses, Evidence>>

LEMMA RowsAreIds ==
    ASSUME TypeOK
    PROVE  Rows \subseteq Ids
<1>1. Rows = 1..Len(registry) /\ Len(registry) \in Nat /\ Len(registry) <= MaxRecords
  BY DEF TypeOK, Rows
<1> QED BY <1>1, StoreAssumption DEF Ids

LEMMA InitMaps == Init => Registry!Init
BY DEF Init, Registry!Init, Rows

LEMMA QuietMaps ==
    ASSUME UNCHANGED <<registry, published>>
    PROVE  UNCHANGED Abstract
BY DEF Abstract, Statuses, Evidence, Rows

LEMMA ReserveMaps ==
    ASSUME IndInv, NEW r \in Recorders, Reserve(r)
    PROVE  Registry!Reserve
<1> DEFINE row == [status |-> "RESERVED", experiment |-> recording[r], digest |-> None]
<1>1. recording[r] \in Experiments
  BY DEF IndInv, Local, Ownership, Reserve, At
<1>2. row \in RowTypes
  BY <1>1 DEF RowTypes
<1>3. registry \in Seq(RowTypes) /\ registry' = Append(registry, row)
  BY DEF IndInv, TypeOK, Reserve
<1>4. row.status = "RESERVED"
  OBVIOUS
<1> HIDE DEF row
<1>5. /\ Rows = 1..Len(registry)
      /\ Rows' = 1..(Len(registry) + 1)
      /\ \A i \in Rows : registry'[i] = registry[i]
      /\ registry'[Len(registry) + 1] = row
      /\ Len(registry) \in Nat
  BY <1>2, <1>3, AppendProperties DEF Rows
<1>6. Statuses \in Seq({"RESERVED", "COMPLETE", "FAILED"}) /\ Len(Statuses) = Len(registry)
  <2>1. \A i \in 1..Len(registry) : registry[i].status \in {"RESERVED", "COMPLETE", "FAILED"}
    <3>1. \A i \in 1..Len(registry) : registry[i] \in RowTypes
      BY <1>3, ElementOfSeq
    <3> QED BY <3>1 DEF RowTypes
  <2> QED BY <1>5, <2>1 DEF Statuses
<1> DEFINE longer == Append(Statuses, "RESERVED")
<1>7. /\ longer \in Seq({"RESERVED", "COMPLETE", "FAILED"})
      /\ Len(longer) = Len(registry) + 1
      /\ \A i \in 1..Len(registry) : longer[i] = Statuses[i]
      /\ longer[Len(registry) + 1] = "RESERVED"
  BY <1>6, AppendProperties
<1>8. Statuses' = longer
  <2>1. \A i \in 1..(Len(registry) + 1) : longer[i] = Statuses'[i]
    BY <1>4, <1>5, <1>7 DEF Statuses
  <2>2. longer = [i \in 1..(Len(registry) + 1) |-> longer[i]]
    <3> HIDE DEF longer
    <3> QED BY <1>7
  <2>3. Statuses' = [i \in 1..(Len(registry) + 1) |-> Statuses'[i]]
    BY <1>5 DEF Statuses
  <2> HIDE DEF longer
  <2> QED BY <2>1, <2>2, <2>3
<1>9. UNCHANGED Evidence
  BY DEF Reserve, fileVars, Evidence
<1> QED BY <1>8, <1>9 DEF Registry!Reserve, Statuses, Evidence

LEMMA PublishMaps ==
    ASSUME IndInv, NEW r \in Recorders, Publish(r)
    PROVE  Registry!Next
<1> DEFINE i == reserved[r]
<1>1. /\ i \in Rows /\ i \in Ids
      /\ registry[i].status = "RESERVED"
      /\ recording[r] \in Experiments
      /\ published[i] = None
  <2>1. i \in Rows
    BY DEF IndInv, Local, Ownership, Publish, At, Owning, Guarded
  <2>2. i \in Ids
    BY <2>1, RowsAreIds DEF IndInv
  <2> QED BY <2>1, <2>2 DEF IndInv, Local, Ownership, Publish, At, Owning, Guarded
<1>2. Bundle(r) \notin {None, Leftover(i)}
  <2>1. Bundle(r) \in Bundles
    BY <1>1 DEF Bundle, Bundles, IndInv, TypeOK
  <2>2. Bundle(r).experiment # None /\ Leftover(i).experiment = None
    BY <1>1, StoreAssumption DEF Bundle, Leftover
  <2> QED BY <2>1, <2>2, StoreAssumption
<1>3. published' = [published EXCEPT ![i] = Bundle(r)] /\ UNCHANGED registry
  BY DEF Publish
<1>4. Evidence' = Evidence \cup {i}
  BY <1>1, <1>2, <1>3 DEF Evidence, IndInv, TypeOK, Leftover
<1>5. i \in DOMAIN Statuses /\ Statuses[i] = "RESERVED" /\ i \notin Evidence /\ UNCHANGED Statuses
  BY <1>1, <1>3 DEF Statuses, Evidence, Rows
<1> QED BY <1>4, <1>5 DEF Registry!Next, Registry!Publish, Statuses, Evidence

LEMMA CompleteMaps ==
    ASSUME IndInv, NEW r \in Recorders, Complete(r)
    PROVE  Registry!Next
<1> DEFINE i == reserved[r]
           row == [registry[i] EXCEPT !.status = "COMPLETE", !.digest = digest[r]]
<1>1. /\ i \in Rows /\ i \in Ids
      /\ registry[i].status = "RESERVED"
      /\ recording[r] \in Experiments
      /\ published[i] = Bundle(r)
  <2>1. i \in Rows
    BY DEF IndInv, Local, Ownership, Complete, At, Owning, Guarded
  <2>2. i \in Ids
    BY <2>1, RowsAreIds DEF IndInv
  <2> QED BY <2>1, <2>2 DEF IndInv, Local, Ownership, Progress, Complete, At, Owning, Guarded
<1>2. Bundle(r) \notin {None, Leftover(i)}
  <2>1. Bundle(r) \in Bundles
    BY <1>1 DEF Bundle, Bundles, IndInv, TypeOK
  <2>2. Bundle(r).experiment # None /\ Leftover(i).experiment = None
    BY <1>1, StoreAssumption DEF Bundle, Leftover
  <2> QED BY <2>1, <2>2, StoreAssumption
<1>3. registry' = [registry EXCEPT ![i] = row] /\ UNCHANGED published
  BY <1>1 DEF Complete, fileVars
<1>4. row.status = "COMPLETE"
  BY <1>1, ElementOfSeq DEF IndInv, TypeOK, RowTypes, Rows
<1> HIDE DEF row
<1>5. i \in Evidence /\ UNCHANGED Evidence
  BY <1>1, <1>2, <1>3 DEF Evidence
<1>6. i \in DOMAIN Statuses /\ Statuses[i] = "RESERVED"
  BY <1>1 DEF Statuses
<1>7. Statuses' = [Statuses EXCEPT ![i] = "COMPLETE"]
  BY <1>1, <1>3, <1>4 DEF Statuses, Rows, IndInv, TypeOK
<1> QED BY <1>5, <1>6, <1>7 DEF Registry!Next, Registry!Complete, Statuses, Evidence

LEMMA MarkFailedMaps ==
    ASSUME IndInv, NEW r \in Recorders, MarkFailed(r)
    PROVE  Registry!Next
<1> DEFINE i == reserved[r]
           row == [registry[i] EXCEPT !.status = "FAILED"]
<1>1. i \in Rows /\ registry[i] \in RowTypes /\ registry[i].status # "FAILED"
  BY ElementOfSeq DEF IndInv, TypeOK, Local, Ownership, MarkFailed, At, Owning, Handling, Rows
<1>2. registry' = [registry EXCEPT ![i] = row] /\ UNCHANGED published
  BY DEF MarkFailed, fileVars
<1>3. row.status = "FAILED"
  BY <1>1 DEF RowTypes
<1> HIDE DEF row
<1>4. i \in DOMAIN Statuses /\ Statuses[i] \in {"RESERVED", "COMPLETE"}
  BY <1>1 DEF Statuses, RowTypes
<1>5. Statuses' = [Statuses EXCEPT ![i] = "FAILED"] /\ UNCHANGED Evidence
  BY <1>1, <1>2, <1>3 DEF Statuses, Evidence, Rows, IndInv, TypeOK
<1> QED BY <1>4, <1>5 DEF Registry!Next, Registry!Fail, Statuses, Evidence

LEMMA ProceedMaps ==
    ASSUME IndInv, NEW r \in Recorders, Proceed(r)
    PROVE  Registry!Next \/ UNCHANGED Abstract
<1>1. CASE Reserve(r)
  BY <1>1, ReserveMaps DEF Registry!Next
<1>2. CASE Publish(r)
  BY <1>2, PublishMaps
<1>3. CASE Complete(r)
  BY <1>3, CompleteMaps
<1>4. CASE MarkFailed(r)
  BY <1>4, MarkFailedMaps
<1>5. CASE ~(Reserve(r) \/ Publish(r) \/ Complete(r) \/ MarkFailed(r))
  <2>1. UNCHANGED <<registry, published>>
    BY <1>5 DEF Proceed, LookForDocument, RefuseDocument, ReplaceDocument, HashDocument, MakeTemporary, WriteBundle, TargetExists, HashManifest, ReadBack, Cleanup, fileVars
  <2> QED BY <2>1, QuietMaps
<1> QED BY <1>1, <1>2, <1>3, <1>4, <1>5

\* The store, whatever fails, is an append-only registry whose rows are
\* completed only over evidence and whose evidence never goes away.
THEOREM Refinement == Spec => ImplementsRegistry
<1>1. Init => Registry!Init
  BY InitMaps
<1>2. IndInv /\ [Next]_vars => [Registry!Next]_Abstract
  <2> SUFFICES ASSUME IndInv, [Next]_vars PROVE Registry!Next \/ UNCHANGED Abstract
    OBVIOUS
  <2>1. ASSUME NEW r \in Recorders, Proceed(r) PROVE Registry!Next \/ UNCHANGED Abstract
    BY <2>1, ProceedMaps
  <2>2. CASE \/ Full \/ UNCHANGED vars
             \/ \E r \in Recorders : GoWrong(r) \/ \E e \in Experiments : Begin(r, e)
    <3>1. UNCHANGED <<registry, published>>
      BY <2>2 DEF Full, vars, fileVars, GoWrong, RaiseUnreserved, RaiseGuarded,
                  RaiseUnguarded, Crash, Begin
    <3> QED BY <3>1, QuietMaps
  <2> QED BY <2>1, <2>2 DEF Next
<1>3. [Registry!Next]_Abstract <=> [Registry!Next]_<<Statuses, Evidence>>
  BY DEF Abstract
<1> QED BY <1>1, <1>2, <1>3, Invariance, PTL
     DEF Spec, ImplementsRegistry, Registry!Spec, Statuses, Evidence
-----------------------------------------------------------------------------
(***************************************************************************)
(* The backtest document behind a row.  Two experiments of one run that    *)
(* disagree on its document overwrite each other between the look and the  *)
(* rename, so what follows supposes they agree: one engine records a run.  *)
(***************************************************************************)
OneDocument == \A e, f \in Experiments : e.run = f.run => e.document = f.document

Holds(files, e) == files[e.run] = e.document

\* Past the write the document of the run is the recorder's own and stays;
\* before it, what is there is nothing or the same.
Backed ==
    \A r \in Recorders :
        /\ pc[r] = "replace" => \/ documents[recording[r].run] = None
                               \/ Holds(documents, recording[r])
        /\ pc[r] \in {"hash", "reserve"} \cup Owning => Holds(documents, recording[r])
        /\ pc[r] \in {"reserve"} \cup Owning => seen[r] = recording[r].document

BackedInv == IndInv /\ Backed /\ EvidenceMatches

\* No step takes a document away or replaces it by another.
LEMMA DocumentsKept ==
    ASSUME OneDocument, BackedInv, [Next]_vars
    PROVE  /\ \A e \in Experiments : Holds(documents, e) => Holds(documents', e)
           /\ \A x \in Runs : documents[x] # None => documents'[x] = documents[x]
           /\ \A e \in Experiments : documents[e.run] = None =>
                 documents'[e.run] = None \/ Holds(documents', e)
<1>1. CASE \E r \in Recorders : ReplaceDocument(r)
  <2>1. PICK r \in Recorders : ReplaceDocument(r)
    BY <1>1
  <2>2. PICK f \in Experiments : f = recording[r]
    BY <2>1 DEF BackedInv, IndInv, Local, Ownership, ReplaceDocument, At
  <2>3. /\ documents' = [documents EXCEPT ![f.run] = f.document]
        /\ documents[f.run] = None \/ Holds(documents, f)
    BY <2>1, <2>2 DEF ReplaceDocument, At, BackedInv, Backed
  <2>4. documents \in [Runs -> Documents \cup {None}] /\ f.run \in Runs
    BY <2>2, StoreAssumption DEF BackedInv, IndInv, TypeOK
  <2>5. documents'[f.run] = f.document /\ \A x \in Runs \ {f.run} : documents'[x] = documents[x]
    BY <2>3, <2>4
  <2>6. \A e \in Experiments : e.run \in Runs /\ (e.run = f.run => e.document = f.document)
    BY StoreAssumption DEF OneDocument
  <2> QED BY <2>3, <2>5, <2>6 DEF Holds
<1>2. CASE ~\E r \in Recorders : ReplaceDocument(r)
  <2>1. UNCHANGED documents
    BY <1>2 DEF Next, Proceed, GoWrong, Full, vars, fileVars, Begin, LookForDocument,
                RefuseDocument, HashDocument, Reserve, MakeTemporary, WriteBundle, Publish,
                TargetExists, HashManifest, Complete, ReadBack, Cleanup, MarkFailed,
                RaiseUnreserved, RaiseGuarded, RaiseUnguarded, Crash
  <2> QED BY <2>1 DEF Holds
<1> QED BY <1>1, <1>2

\* Where a recorder may come from, and what it keeps on the way.
RecorderStep(r) ==
    \/ pc'[r] \in {"idle", "document"}
    \/ /\ recording'[r] = recording[r]
       /\ \/ pc'[r] = pc[r] /\ seen'[r] = seen[r]
          \/ LookForDocument(r) \/ ReplaceDocument(r) \/ HashDocument(r)
          \/ /\ pc[r] \in {"reserve"} \cup Owning /\ pc'[r] \in Owning
             /\ seen'[r] = seen[r]

LEMMA RecorderMoves ==
    ASSUME IndInv, [Next]_vars, NEW r \in Recorders
    PROVE  RecorderStep(r)
<1> USE DEF RecorderStep, Owning, Guarded, Handling, Unreserved, At, GoTo
<1>0. /\ pc \in [Recorders -> Labels] /\ recording \in [Recorders -> Experiments \cup {None}]
      /\ seen \in [Recorders -> Documents \cup {None}]
  BY DEF IndInv, TypeOK
<1>1. ASSUME NEW q \in Recorders, NEW e \in Experiments, Begin(q, e) PROVE RecorderStep(r)
  BY <1>0, <1>1 DEF Begin
<1>2. ASSUME NEW q \in Recorders, LookForDocument(q) \/ ReplaceDocument(q) \/ HashDocument(q)
      PROVE  RecorderStep(r)
  BY <1>0, <1>2 DEF LookForDocument, ReplaceDocument, HashDocument
<1>3. ASSUME NEW q \in Recorders, RefuseDocument(q) \/ ReadBack(q) \/ MarkFailed(q)
      PROVE  RecorderStep(r)
  BY <1>0, <1>3 DEF RefuseDocument, ReadBack, MarkFailed, Leave
<1>4. ASSUME NEW q \in Recorders,
             \/ Reserve(q) \/ MakeTemporary(q) \/ WriteBundle(q) \/ Publish(q)
             \/ TargetExists(q) \/ HashManifest(q) \/ Complete(q) \/ Cleanup(q)
      PROVE  RecorderStep(r)
  BY <1>0, <1>4 DEF Reserve, MakeTemporary, WriteBundle, Publish, TargetExists,
                    HashManifest, Complete, Cleanup
<1>5. ASSUME NEW q \in Recorders, GoWrong(q) PROVE RecorderStep(r)
  BY <1>0, <1>5 DEF GoWrong, RaiseUnreserved, RaiseGuarded, RaiseUnguarded, Crash, Leave
<1>6. CASE Full \/ UNCHANGED vars
  BY <1>6 DEF Full, vars, localVars
<1> QED BY <1>1, <1>2, <1>3, <1>4, <1>5, <1>6 DEF Next, Proceed

LEMMA BackedKept ==
    ASSUME OneDocument, BackedInv, [Next]_vars
    PROVE  Backed'
<1> SUFFICES ASSUME NEW r \in Recorders
             PROVE  /\ pc'[r] = "replace" => \/ documents'[recording'[r].run] = None
                                            \/ Holds(documents', recording'[r])
                    /\ pc'[r] \in {"hash", "reserve"} \cup Owning =>
                          Holds(documents', recording'[r])
                    /\ pc'[r] \in {"reserve"} \cup Owning => seen'[r] = recording'[r].document
  BY DEF Backed, Holds
<1>1. /\ \A e \in Experiments : Holds(documents, e) => Holds(documents', e)
      /\ \A e \in Experiments : documents[e.run] = None =>
            documents'[e.run] = None \/ Holds(documents', e)
  BY DocumentsKept
<1>2. /\ pc[r] = "replace" => documents[recording[r].run] = None \/ Holds(documents, recording[r])
      /\ pc[r] \in {"hash", "reserve"} \cup Owning => Holds(documents, recording[r])
      /\ pc[r] \in {"reserve"} \cup Owning => seen[r] = recording[r].document
      /\ pc[r] # "idle" => recording[r] \in Experiments
      /\ pc[r] \in Labels
  BY DEF BackedInv, Backed, IndInv, Local, Ownership, TypeOK
<1> USE DEF Owning, Guarded, Handling, Unreserved, At, GoTo
<1>3. CASE pc'[r] \in {"idle", "document"}
  BY <1>3
<1>4. CASE recording'[r] = recording[r] /\ pc'[r] = pc[r] /\ seen'[r] = seen[r]
  BY <1>1, <1>2, <1>4
<1>5. CASE LookForDocument(r)
  BY <1>1, <1>2, <1>5 DEF LookForDocument, Holds, BackedInv, IndInv, TypeOK, fileVars
<1>6. CASE ReplaceDocument(r)
  <2>1. recording[r] \in Experiments
    BY <1>2, <1>6 DEF ReplaceDocument
  <2>2. recording[r].run \in Runs
    BY <2>1, StoreAssumption
  <2> QED BY <1>6, <2>2 DEF ReplaceDocument, Holds, BackedInv, IndInv, TypeOK
<1>7. CASE HashDocument(r)
  BY <1>2, <1>7 DEF HashDocument, Holds, BackedInv, IndInv, TypeOK, fileVars
<1>8. CASE /\ recording'[r] = recording[r] /\ seen'[r] = seen[r]
           /\ pc[r] \in {"reserve"} \cup Owning /\ pc'[r] \in Owning
  BY <1>1, <1>2, <1>8
<1> QED BY <1>3, <1>4, <1>5, <1>6, <1>7, <1>8, RecorderMoves DEF BackedInv, RecorderStep

\* A row completed by a step is the recorder's own, over its own bundle.
LEMMA EvidenceKept ==
    ASSUME OneDocument, BackedInv, [Next]_vars, IndInv'
    PROVE  EvidenceMatches'
<1> SUFFICES ASSUME NEW i \in Rows', registry'[i].status = "COMPLETE"
             PROVE  /\ published'[i].document = registry'[i].experiment.document
                    /\ Holds(documents', registry'[i].experiment)
  BY DEF EvidenceMatches, Holds
<1>1. \A e \in Experiments : Holds(documents, e) => Holds(documents', e)
  BY DocumentsKept
<1>2. registry \in Seq(RowTypes)
  BY DEF BackedInv, IndInv, TypeOK
<1>3. CASE /\ i \in Rows /\ registry[i].status = "COMPLETE"
           /\ registry'[i].experiment = registry[i].experiment
           /\ published'[i] = published[i]
  <2>1. /\ published[i].document = registry[i].experiment.document
        /\ Holds(documents, registry[i].experiment)
    BY <1>3 DEF BackedInv, EvidenceMatches, Holds
  <2>2. registry[i].experiment \in Experiments
    <3>1. registry[i] \in RowTypes
      BY <1>2, <1>3, ElementOfSeq DEF Rows
    <3> QED BY <3>1 DEF RowTypes
  <2> QED BY <1>1, <1>3, <2>1, <2>2
<1>4. CASE \E r \in Recorders : Complete(r) /\ i = reserved[r]
  <2>1. PICK r \in Recorders : Complete(r) /\ i = reserved[r]
    BY <1>4
  <2>2. /\ pc[r] = "complete" /\ recording[r] \in Experiments
        /\ reserved[r] \in Rows
        /\ registry[reserved[r]].experiment = recording[r]
        /\ published[reserved[r]] = Bundle(r)
    BY <2>1 DEF Complete, At, BackedInv, IndInv, Local, Ownership, Progress, Owning, Guarded
  <2>3. /\ Holds(documents, recording[r]) /\ seen[r] = recording[r].document
    BY <2>2 DEF BackedInv, Backed, Owning, Guarded
  <2>4. registry'[i].experiment = registry[i].experiment
    <3>1. registry[i] \in RowTypes
      BY <1>2, <2>1, <2>2, ElementOfSeq DEF Rows
    <3> QED BY <2>1, <2>2, <3>1 DEF Complete, Rows, RowTypes
  <2>5. published' = published
    BY <2>1 DEF Complete, fileVars
  <2> QED BY <1>1, <2>1, <2>2, <2>3, <2>4, <2>5 DEF Bundle
<1>5. CASE UNCHANGED <<registry, published>>
  BY <1>3, <1>5 DEF Rows
<1>6. ASSUME NEW r \in Recorders, Reserve(r) PROVE i \in Rows /\ registry'[i] = registry[i]
  <2> DEFINE row == [status |-> "RESERVED", experiment |-> recording[r], digest |-> None]
  <2>1. row \in RowTypes
    BY <1>6 DEF RowTypes, Reserve, At, BackedInv, IndInv, Local, Ownership
  <2>2. registry' = Append(registry, row)
    BY <1>6 DEF Reserve
  <2>3. row.status = "RESERVED"
    OBVIOUS
  <2> HIDE DEF row
  <2>4. /\ DOMAIN registry' = DOMAIN registry \cup {Len(registry) + 1}
        /\ \A j \in DOMAIN registry : registry'[j] = registry[j]
        /\ registry'[Len(registry) + 1] = row
    BY <1>2, <2>1, <2>2, AppendProperties
  <2> QED BY <2>3, <2>4 DEF Rows
<1>7. ASSUME NEW r \in Recorders, Publish(r) PROVE i \in Rows /\ published'[i] = published[i]
  <2>1. registry' = registry
    BY <1>7 DEF Publish
  <2>2. i \in Rows /\ published[i] # None
    BY <2>1 DEF Rows, BackedInv, IndInv, Shared, CompleteIsCertified
  <2>3. reserved[r] # i /\ published' = [published EXCEPT ![reserved[r]] = Bundle(r)]
    BY <1>7, <2>2 DEF Publish
  <2>4. DOMAIN published = Ids /\ i \in Ids
    BY <2>2, RowsAreIds DEF BackedInv, IndInv, TypeOK
  <2> QED BY <2>2, <2>3, <2>4
<1>8. ASSUME NEW r \in Recorders, Complete(r) \/ MarkFailed(r), i # reserved[r]
      PROVE  i \in Rows /\ registry'[i] = registry[i]
  BY <1>8 DEF Complete, MarkFailed, Rows
<1>9. ASSUME NEW r \in Recorders, MarkFailed(r) PROVE i # reserved[r]
  <2>1. reserved[r] \in Rows
    BY <1>9 DEF MarkFailed, At, BackedInv, IndInv, Local, Ownership, Owning, Handling
  <2>2. registry[reserved[r]] \in RowTypes
    BY <1>2, <2>1, ElementOfSeq DEF Rows
  <2>3. registry'[reserved[r]].status = "FAILED"
    BY <1>9, <2>1, <2>2 DEF MarkFailed, Rows, RowTypes
  <2> QED BY <2>3
<1>10. \/ UNCHANGED <<registry, published>>
       \/ \E r \in Recorders : \/ Reserve(r) /\ UNCHANGED published
                               \/ Publish(r) /\ UNCHANGED registry
                               \/ (Complete(r) \/ MarkFailed(r)) /\ UNCHANGED published
  BY DEF Next, Proceed, GoWrong, Full, vars, fileVars, Begin, LookForDocument,
         RefuseDocument, ReplaceDocument, HashDocument, Reserve, MakeTemporary, WriteBundle,
         Publish, TargetExists, HashManifest, Complete, ReadBack, Cleanup, MarkFailed,
         RaiseUnreserved, RaiseGuarded, RaiseUnguarded, Crash
<1>11. ASSUME NEW r \in Recorders, Reserve(r), UNCHANGED published
       PROVE  /\ published'[i].document = registry'[i].experiment.document
              /\ Holds(documents', registry'[i].experiment)
  BY <1>3, <1>6, <1>11
<1>12. ASSUME NEW r \in Recorders, Publish(r), UNCHANGED registry
       PROVE  /\ published'[i].document = registry'[i].experiment.document
              /\ Holds(documents', registry'[i].experiment)
  BY <1>3, <1>7, <1>12
<1>13. ASSUME NEW r \in Recorders, Complete(r) \/ MarkFailed(r), UNCHANGED published
       PROVE  /\ published'[i].document = registry'[i].experiment.document
              /\ Holds(documents', registry'[i].experiment)
  BY <1>3, <1>4, <1>8, <1>9, <1>13
<1> QED BY <1>5, <1>10, <1>11, <1>12, <1>13

LEMMA BackedInvariant == ASSUME OneDocument PROVE Spec => []BackedInv
<1>1. Init => BackedInv
  <2> SUFFICES ASSUME Init PROVE Backed /\ EvidenceMatches
    BY InitHolds DEF BackedInv
  <2> QED BY DEF Init, Backed, EvidenceMatches, Rows, Owning, Guarded, Handling
<1>2. BackedInv /\ IndInv' /\ [Next]_vars => BackedInv'
  BY BackedKept, EvidenceKept DEF BackedInv
<1> QED BY <1>1, <1>2, Invariance, PTL DEF Spec

(***************************************************************************)
(* If the recorders agree on the document of each run, the manifest of a   *)
(* completed experiment certifies the document of that experiment, and the *)
(* file of the run still has those contents (ExperimentStore.record).      *)
(***************************************************************************)
THEOREM EvidenceIsMatched == OneDocument => (Spec => []EvidenceMatches)
<1> SUFFICES ASSUME OneDocument PROVE Spec => []EvidenceMatches
  OBVIOUS
<1>1. BackedInv => EvidenceMatches
  BY DEF BackedInv
<1> QED BY <1>1, BackedInvariant, PTL

(***************************************************************************)
(* And a document that is there is never replaced: what the race of two    *)
(* versions of the engine on one run breaks (write_once) needs two that    *)
(* disagree.                                                               *)
(***************************************************************************)
THEOREM AgreeingNeverReplace == OneDocument => (Spec => BacktestNeverReplaced)
<1> SUFFICES ASSUME OneDocument PROVE Spec => BacktestNeverReplaced
  OBVIOUS
<1>1. BackedInv /\ [Next]_vars =>
         [\A x \in Runs : documents[x] # None => documents'[x] = documents[x]]_vars
  BY DocumentsKept
<1> QED BY <1>1, BackedInvariant, PTL DEF Spec, BacktestNeverReplaced
=============================================================================
