SPECIFICATION Spec
CONSTANTS
    None = None
    NumSymbols = 2
    TickSize <- Ticks
    QuantityStep <- Steps
    MinQuantity <- Steps
    MaxQuantity <- LargestOrder
    MinNotional <- SmallestNotional
    Scale = 100
    MakerFeeRate = 1
    TakerFeeRate = 3
    LiquidationFeeRate = 5
    CostRate = 8
    ParticipationRate = 50
    MaintenanceRate = 5
    Leverage = 2
    Latency = 1
    TouchFills = TRUE
    LiquidationOn = TRUE
    OrderBooks <- PairBooks
    Bars <- PairBars
    BarLength <- MixedBarLengths
    FirstOpen <- FromStart
    LastOpen <- ShorterFirst
    FundingEvents <- SignedFunding
    Marks <- PairMarks
    InitialCash = 28000
    Horizon = 3
    TradePrices <- Prices
INVARIANT
    BarCloseMarksLast
