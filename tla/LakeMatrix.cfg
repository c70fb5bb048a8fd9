SPECIFICATION Spec
CONSTANTS
    None = None
    Torn = Torn
    p1 = p1
    p2 = p2
    info = info
    fund = fund
    mark = mark
    fast = fast
    slow = slow
    btc = btc
    hour = hour
    day = day
    rows = rows
    revised = revised
    gap = gap
    early = early
    late = late
    vInfo = vInfo
    vLater = vLater
    vBare = vBare
    vFund = vFund
    vOdd = vOdd
    vMark = vMark
    vFast = vFast
    vSlow = vSlow
    vRevised = vRevised
    vGap = vGap
    Ingesters = {p1, p2}
    Requests <- AllRequests
    Snapshots = {info}
    MonthsOf <- MonthsOfAll
    MonthRows = {rows, revised, gap, early, late}
    Flawed = {gap}
    Versions <- AllVersions
    RequestOf <- Asked
    RowsOf <- Downloaded
    Offered <- Venue
    Seedings <- Before
    MaxFaults = 1
    MaxDamage = 1
    Symbols <- OneSymbol
    Timeframes <- TwoTimeframes
    FundingOf <- Fundings
    MarkOf <- MarkSeries
    CandlesOf <- Candles
    Listed <- SymbolsIn
    Priced <- EventsPriced
    SuiteSize = 2
    Metrics <- Outcomes
    MetricsOf <- Deterministic
    MinTrades = 100
    RequiredPasses = 1
    MaxRuns = 2
CHECK_DEADLOCK FALSE
INVARIANTS
    TypeOK
    ManifestCertifies
    LoadedIsValidated
    OneVersionPerWindow
    GateBacked
    RerunReproduces
SYMMETRY Alike
