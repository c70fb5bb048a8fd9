SPECIFICATION Spec
CONSTANTS
    Second = 2
    NotFinite = NotFinite
    Period = 4
    Requests <- AllRequests
    Moments = {13, 16, 21}
    Listed = 4
    Limit = 2
    Attempts = 3
    FinalRow <- Final
    InterimRow <- Interim
    StrayTimes = {0, 4, 10, 12, 16, 20}
    StrayRows = 2
    Catalog <- ThreePages
    Cursors = {0, 1, 2}
    Batches <- AnyRows
    Medium = 8
    Large = 16
CHECK_DEADLOCK FALSE
INVARIANTS
    TypeOK
    NoProvisionalRow
    HonestIsComplete
    VerdictExact
    VerdictOfRows
    ResampleComposes
PROPERTIES
    FetchEnds
