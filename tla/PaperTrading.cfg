SPECIFICATION Spec
CONSTANTS
    Loops = {"backtest", "trader"}
    Prices = {6, 10, 14}
    Quantities = {5}
    Barriers <- MCBarriers
    InitialCash = 60
    Scale = 20
    Slippage = 1
    FeeRate = 1
    MaxLoss = 4
    LastPass = 4
INVARIANTS TypeOK BooksBalance NoOverdraft FlatAfterLoss
PROPERTIES NoEntryPastLimit ExitAfterEntryBar
CHECK_DEADLOCK FALSE
