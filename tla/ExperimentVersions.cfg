SPECIFICATION Spec
CONSTANTS
    r1 = r1
    r2 = r2
    bt = bt
    current = current
    older = older
    first = first
    second = second
    None = None
    Recorders = {r1, r2}
    Runs = {bt}
    Documents = {current, older}
    MaxRecords = 2
    MaxFaults = 0
    Experiments <- TwoVersions
PROPERTIES
    BacktestNeverReplaced
