SPECIFICATION Spec
CONSTANTS
    Configs = {c1}
    TradeCount = 2
    Backtests = {b1}
    GoodBacktests = {b1}
    Traders = {i1, i2}
    Monitors = {i1, i2}
    SignalCount = 2
    SignalSide <- BuySell
    CreatedAt <- Instants
    DateUnit = 2
    Gains <- Results
    Limits <- Asked
    None = None
    MaxDisturbances = 1
SYMMETRY Symmetry
INVARIANTS
    OneTradePerSignal
    OneOpenPerConfig
    CountedOnce
PROPERTIES
    PauseHolds
