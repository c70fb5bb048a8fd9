SPECIFICATION TradingSpec
CONSTANTS
    None = None
    NumSymbols = 1
    TickSize <- Ones
    QuantityStep <- Twos
    MinQuantity <- Twos
    MaxQuantity <- LargestOrder
    MinNotional <- SmallestNotional
    Scale = 100
    MakerFeeRate = 1
    TakerFeeRate = 3
    LiquidationFeeRate = 5
    CostRate = 8
    ParticipationRate = 50
    MaintenanceRate = 5
    Leverage = 1
    Latency = 0
    TouchFills = FALSE
    LiquidationOn = FALSE
    OrderBooks <- CompiledBooks
    Bars <- Candles
    BarLength <- Ones
    FirstOpen <- FromStart
    LastOpen <- ToEnd
    FundingEvents <- NoEvents
    Marks <- NoEvents
    InitialCash = 4000
    Horizon = 8
    UnitQuantity = 2
    EntryLookback = 3
    ExitLookback = 2
    TrendLookback = 3
    ReversionLookback = 3
    EntryZ = 1
    HoldingBars = 2
    Experiments <- TrendOnly
INVARIANT
    FinishesFlat
