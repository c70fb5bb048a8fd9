--------------------------- MODULE MCExperiments ----------------------------
(***************************************************************************)
(* Instances of the experiment store: two recorders, two rows, one run     *)
(* whose document may be there already, written by this or another version *)
(* of the engine.                                                          *)
(***************************************************************************)
EXTENDS ExperimentProperties

CONSTANTS r1, r2, bt, current, older, first, second

OneVersion ==
    {[name |-> first, run |-> bt, document |-> current],
     [name |-> second, run |-> bt, document |-> current]}

\* Two versions of the engine record the same run.
TwoVersions ==
    {[name |-> first, run |-> bt, document |-> current],
     [name |-> second, run |-> bt, document |-> older]}
=============================================================================
