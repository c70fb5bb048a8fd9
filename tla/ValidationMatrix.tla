-------------------------- MODULE ValidationMatrix --------------------------
(***************************************************************************)
(* ValidationMatrixRunner (strategies/validation_matrix.py) as a process   *)
(* beside the ingesters of DataLake: it resolves and loads the datasets of *)
(* each cell, records the suite of each cell in the experiment registry,   *)
(* applies the frozen gate (strategies/contracts.py) and writes the gate   *)
(* document once.  A step is one dataset, one experiment, the document or  *)
(* the report.  One such command runs at a time, which is a bound: the     *)
(* race inside write_once is modelled in ExperimentStore.                  *)
(*                                                                         *)
(* A cell is a symbol with a timeframe.  Compiler, engine and analytics    *)
(* are deterministic: the metrics of a cell are a function of its data.    *)
(* Rates are integers, in percent.                                         *)
(***************************************************************************)
EXTENDS DataLake

CONSTANTS
    Symbols,           \* RESEARCH_PROTOCOL.symbols, in their order
    Timeframes,        \* RESEARCH_PROTOCOL.timeframes, in their order
    FundingOf, MarkOf, \* [symbols -> Requests]
    CandlesOf,         \* [<<symbol, timeframe>> -> Requests]
    Listed(_),         \* the symbols in an instrument version
    Priced(_, _),      \* a funding version has a mark of the other for every event
    SuiteSize,         \* experiments per cell: the benchmarks and the candidate
    Metrics,           \* what the analytics of a cell may say
    MetricsOf(_),      \* what they say of a cell's data
    MinTrades,         \* RESEARCH_PROTOCOL.minimum_total_trades
    RequiredPasses,    \* RESEARCH_PROTOCOL.required_cell_passes
    MaxRuns            \* bound: starts of the command

Cells == {<<Symbols[i], Timeframes[j]>> : i \in DOMAIN Symbols, j \in DOMAIN Timeframes}

\* A request names its data type, its symbol and its timeframe.
ASSUME MatrixAssumption ==
    /\ Symbols \in Seq(Range(Symbols)) /\ IsInjective(Symbols)
    /\ Timeframes \in Seq(Range(Timeframes)) /\ IsInjective(Timeframes)
    /\ \A s, t \in Range(Symbols) :
          /\ {FundingOf[s], MarkOf[s]} \subseteq Requests \ Snapshots
          /\ FundingOf[s] # MarkOf[t]
          /\ s # t => FundingOf[s] # FundingOf[t] /\ MarkOf[s] # MarkOf[t]
    /\ \A c, d \in Cells :
          /\ CandlesOf[c] \in Requests \ Snapshots
          /\ \A s \in Range(Symbols) : CandlesOf[c] \notin {FundingOf[s], MarkOf[s]}
          /\ c # d => CandlesOf[c] # CandlesOf[d]
    /\ SuiteSize \in Nat \ {0}
    /\ RequiredPasses \in Nat
    /\ Metrics \subseteq [return : Int, trend : Int, random : Int,
                          drawdown : Nat, trendDrawdown : Nat, trades : Nat]

VARIABLES
    position,    \* index in Script of what comes next; 0: not running
    instruments, \* argument --instrument-dataset
    resolved,    \* [Requests -> version resolve_unique returned, or None]
    loaded,      \* [Requests -> rows the loader returned, or None]
    recorded,    \* experiments of the current cell so far
    cells,       \* the ValidationCells
    runs,        \* starts so far
    outcome,     \* how the last command ended
    registry,    \* the experiment store: [run, cell, data, nth]
    gate         \* strategy-family-gates/phase-6-validation-v1.json, or None

localVars == <<position, instruments, resolved, loaded, recorded, cells>>
matrixVars == <<localVars, runs, outcome, registry, gate>>
vars == <<lakeVars, matrixVars>>

MatrixInit ==
    /\ position = 0
    /\ instruments = None
    /\ resolved = [k \in Requests |-> None]
    /\ loaded = [k \in Requests |-> None]
    /\ recorded = 0
    /\ cells = << >>
    /\ runs = 0
    /\ outcome = "none"
    /\ registry = {}
    /\ gate = None

Init == LakeInit /\ MatrixInit
-----------------------------------------------------------------------------
(***************************************************************************)
(* The order of run: instruments, then for each symbol its funding and     *)
(* marks, then for each timeframe the candles and the suite.               *)
(***************************************************************************)
Op(kind, on) == [kind |-> kind, on |-> on]

CellScript(c) ==
    <<Op("resolve", CandlesOf[c]), Op("load", CandlesOf[c]), Op("suite", c)>>

SymbolScript(s) ==
    <<Op("resolve", FundingOf[s]), Op("resolve", MarkOf[s]),
      Op("load", FundingOf[s]), Op("load", MarkOf[s])>>
    \o FlattenSeq([j \in DOMAIN Timeframes |-> CellScript(<<s, Timeframes[j]>>)])

Script ==
    <<Op("instruments", None)>>
    \o FlattenSeq([i \in DOMAIN Symbols |-> SymbolScript(Symbols[i])])
    \o <<Op("gate", None)>>

Doing(kind) == position # 0 /\ Script[position].kind = kind
This == Script[position].on

\* The command ends; its locals are gone, what it recorded stays.
End(how) ==
    /\ outcome' = how
    /\ position' = 0
    /\ instruments' = None
    /\ resolved' = [k \in Requests |-> None]
    /\ loaded' = [k \in Requests |-> None]
    /\ recorded' = 0
    /\ cells' = << >>

Abort(how) == End(how) /\ UNCHANGED <<lakeVars, runs, registry, gate>>

Advance == position' = position + 1

Start(v) ==
    /\ position = 0
    /\ runs < MaxRuns
    /\ runs' = runs + 1
    /\ position' = 1
    /\ instruments' = v
    /\ outcome' = "running"
    /\ UNCHANGED <<lakeVars, resolved, loaded, recorded, cells, registry, gate>>

\* Mutant of Resolve: the first of several matches is taken.
ResolveFirst ==
    /\ Doing("resolve")
    /\ Matches(This) # {}
    /\ resolved' = [resolved EXCEPT ![This] = CHOOSE v \in Matches(This) : TRUE]
    /\ Advance
    /\ UNCHANGED <<lakeVars, instruments, loaded, recorded, cells, runs, outcome,
                   registry, gate>>

\* instruments[symbol] raises KeyError: the snapshot does not list the symbol.
Unlisted ==
    /\ Doing("resolve")
    /\ \E s \in Range(Symbols) : This = FundingOf[s] /\ s \notin Listed(instruments)

\* resolve_unique
Resolve ==
    /\ Doing("resolve")
    /\ ~Unlisted
    /\ \E v \in Matches(This) :
          /\ Matches(This) = {v}
          /\ resolved' = [resolved EXCEPT ![This] = v]
    /\ Advance
    /\ UNCHANGED <<lakeVars, instruments, loaded, recorded, cells, runs, outcome,
                   registry, gate>>

\* The version _rows reads: the one resolved, or the argument.
Wanted == IF Doing("instruments") THEN instruments ELSE resolved[This]

Loading == Doing("load") \/ Doing("instruments")

\* mark_by_time[item.timestamp] raises KeyError: no mark opens at an event.
Unpriced ==
    /\ Doing("load")
    /\ \E s \in Range(Symbols) :
          This = MarkOf[s] /\ ~Priced(resolved[FundingOf[s]], Wanted)

Load ==
    /\ Loading
    /\ Intact(Wanted)
    /\ Parses(Wanted)
    /\ ~Unpriced
    /\ loaded' = [loaded EXCEPT ![RequestOf[Wanted]] = Rows(Wanted)]
    /\ Advance
    /\ UNCHANGED <<lakeVars, instruments, resolved, recorded, cells, runs, outcome,
                   registry, gate>>

\* DatasetSelectionError: missing, ambiguous or corrupt evidence; or KeyError.
Block ==
    /\ \/ Unlisted
       \/ Doing("resolve") /\ Cardinality(Matches(This)) # 1
       \/ Loading /\ ~Intact(Wanted)
       \/ Unpriced /\ Intact(Wanted) /\ Parses(Wanted)
    /\ Abort("BLOCKED")

\* The digest is that of a torn file, which pyarrow refuses; nobody catches it.
RaiseOnTorn ==
    /\ Loading
    /\ Intact(Wanted)
    /\ ~Parses(Wanted)
    /\ Abort("failed")

\* _composite_version
Composite(c) == [candles |-> resolved[CandlesOf[c]], funding |-> resolved[FundingOf[c[1]]],
            marks |-> resolved[MarkOf[c[1]]], instruments |-> instruments]

\* One strategy of the suite: compile, run, analyze and ExperimentStore.record.
RunExperiment ==
    /\ Doing("suite")
    /\ recorded < SuiteSize
    /\ recorded' = recorded + 1
    /\ registry' = registry \cup
          {[run |-> runs, cell |-> This, data |-> Composite(This), nth |-> recorded + 1]}
    /\ UNCHANGED <<lakeVars, position, instruments, resolved, loaded, cells, runs,
                   outcome, gate>>

\* A SignalCompilationError, or the store or the engine raises.
RaiseInSuite ==
    /\ Doing("suite")
    /\ recorded < SuiteSize
    /\ kills + outages < MaxFaults
    /\ kills' = kills + 1
    /\ End("failed")
    /\ UNCHANGED <<files, unflushed, job, fetches, outages, runs, registry, gate>>

\* Mutant of FinishCell: the cell is built before its suite has run.
FinishCellEarly ==
    /\ Doing("suite")
    /\ recorded = 1
    /\ cells' = Append(cells, [cell |-> This, data |-> Composite(This),
                               metrics |-> MetricsOf(Composite(This))])
    /\ recorded' = 0
    /\ Advance
    /\ UNCHANGED <<lakeVars, instruments, resolved, loaded, runs, outcome,
                   registry, gate>>

FinishCell ==
    /\ Doing("suite")
    /\ recorded = SuiteSize
    /\ cells' = Append(cells, [cell |-> This, data |-> Composite(This),
                               metrics |-> MetricsOf(Composite(This))])
    /\ recorded' = 0
    /\ Advance
    /\ UNCHANGED <<lakeVars, instruments, resolved, loaded, runs, outcome,
                   registry, gate>>
-----------------------------------------------------------------------------
(***************************************************************************)
(* assess_validation.                                                      *)
(***************************************************************************)
Enough(passing) == Cardinality(passing) >= RequiredPasses

Total(cs) == SumFunction([i \in DOMAIN cs |-> cs[i].metrics.trades])

\* The element at the index rank of the sorted values.
Sorted(values, rank) ==
    CHOOSE x \in Range(values) :
        /\ Cardinality({i \in DOMAIN values : values[i] < x}) < rank
        /\ Cardinality({i \in DOMAIN values : values[i] <= x}) >= rank

\* Twice _median of a field.
TwiceMedian(cs, field) ==
    LET n == Len(cs)
        values == [i \in 1..n |-> cs[i].metrics[field]]
    IN  Sorted(values, (n + 1) \div 2) + Sorted(values, n \div 2 + 1)

Complete(cs) == /\ {cs[i].cell : i \in DOMAIN cs} = Cells
                /\ Len(cs) = Cardinality(Cells)

Passed(cs) ==
    /\ Enough({i \in DOMAIN cs : cs[i].metrics.return > 0})
    /\ Enough({i \in DOMAIN cs : cs[i].metrics.return > cs[i].metrics.trend})
    /\ Enough({i \in DOMAIN cs : cs[i].metrics.return > cs[i].metrics.random})
    /\ TwiceMedian(cs, "return") > TwiceMedian(cs, "trend")
    /\ \/ TwiceMedian(cs, "drawdown") <= 2 * 20
       \/ 4 * TwiceMedian(cs, "drawdown") <= 5 * TwiceMedian(cs, "trendDrawdown")

Decision(cs) ==
    IF ~Complete(cs) \/ Total(cs) < MinTrades THEN "INCONCLUSIVE"
    ELSE IF Passed(cs) THEN "ADVANCE_TO_PHASE_7" ELSE "REJECTED"

\* Mutant of Document: it counts the experiments of the store, of every run.
DocumentOfStore == [cells |-> cells, decision |-> Decision(cells),
                    experiments |-> Cardinality(registry)]

Document == [cells |-> cells, decision |-> Decision(cells),
             experiments |-> SuiteSize * Len(cells)]

\* write_once of serialization.py finds no target; the command may die before
\* it reports.
WriteGate ==
    /\ Doing("gate")
    /\ gate = None
    /\ gate' = Document
    /\ UNCHANGED <<lakeVars, localVars, runs, outcome, registry>>

\* write_once has written the document, or found the same bytes.
Report ==
    /\ Doing("gate")
    /\ gate = Document
    /\ Abort("COMPLETE")

\* FileExistsError, after every experiment was recorded.
RefuseGate ==
    /\ Doing("gate")
    /\ gate \notin {None, Document}
    /\ Abort("failed")
-----------------------------------------------------------------------------
MatrixStep ==
    \/ Load \/ Resolve \/ Block \/ RaiseOnTorn
    \/ RunExperiment \/ RaiseInSuite \/ FinishCell
    \/ WriteGate \/ Report \/ RefuseGate

KillMatrix ==
    /\ position # 0
    /\ kills + outages < MaxFaults
    /\ kills' = kills + 1
    /\ End("failed")
    /\ UNCHANGED <<files, unflushed, job, fetches, outages, runs, registry,
                   gate>>

LakeStep ==
    \E p \in Ingesters :
          \/ \E v \in Versions : Fetch(p, v)
          \/ Ingest(p) \/ Kill(p)

Next ==
    \/ LakeStep /\ UNCHANGED matrixVars
    \/ \E v \in {w \in Versions : RequestOf[w] \in Snapshots} : Start(v)
    \/ MatrixStep
    \/ KillMatrix
    \/ \E damaged \in Damage : \E torn \in SUBSET damaged :
          /\ PowerFailure(damaged \ torn, torn)
          /\ End(IF position = 0 THEN outcome ELSE "failed")
          /\ UNCHANGED <<runs, registry, gate>>

Spec == Init /\ [][Next]_vars
=============================================================================
