------------------------- MODULE ExperimentRegistry -------------------------
(***************************************************************************)
(* What a reader of the experiment registry may rely on (ANALYTICS.md,     *)
(* "Experiment registry"): rows are only appended, evidence appears once   *)
(* and stays, a row is completed only when its evidence is there, and a    *)
(* failed row stays failed.  A completed row can still be revoked.         *)
(***************************************************************************)
EXTENDS Naturals, Sequences

VARIABLES
    rows,       \* status of experiment i, in order of reservation
    evidence    \* experiments whose bundle is published

Init == rows = << >> /\ evidence = {}

Reserve ==
    /\ rows' = Append(rows, "RESERVED")
    /\ UNCHANGED evidence

Publish(i) ==
    /\ rows[i] = "RESERVED"
    /\ i \notin evidence
    /\ evidence' = evidence \cup {i}
    /\ UNCHANGED rows

Complete(i) ==
    /\ rows[i] = "RESERVED"
    /\ i \in evidence
    /\ rows' = [rows EXCEPT ![i] = "COMPLETE"]
    /\ UNCHANGED evidence

Fail(i) ==
    /\ rows[i] \in {"RESERVED", "COMPLETE"}
    /\ rows' = [rows EXCEPT ![i] = "FAILED"]
    /\ UNCHANGED evidence

Next ==
    \/ Reserve
    \/ \E i \in DOMAIN rows : Publish(i) \/ Complete(i) \/ Fail(i)

Spec == Init /\ [][Next]_<<rows, evidence>>
=============================================================================
