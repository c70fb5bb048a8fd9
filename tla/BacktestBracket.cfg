SPECIFICATION Spec
CONSTANTS
    None = None
    NumSymbols = 1
    TickSize <- Ticks
    QuantityStep <- Steps
    MinQuantity <- Steps
    MaxQuantity <- LargestOrder
    MinNotional <- SmallestNotional
    Scale = 100
    MakerFeeRate = 1
    TakerFeeRate = 3
    LiquidationFeeRate = 5
    CostRate = 8
    ParticipationRate = 50
    MaintenanceRate = 5
    Leverage = 2
    Latency = 0
    TouchFills = FALSE
    LiquidationOn = TRUE
    OrderBooks <- BracketBooks
    Bars <- AllBars
    BarLength <- BarLengths
    FirstOpen <- FromStart
    LastOpen <- ToEnd
    FundingEvents <- NoFunding
    Marks <- NoMarks
    InitialCash = 28000
    Horizon = 2
    TradePrices <- Prices
INVARIANT
    OcoWorstCase
