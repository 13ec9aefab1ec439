\* Pages of two candles, a series of at most four, a view of two, days of two windows,
\* five bars in two or three folds.  A state is an input: nothing follows it.
CONSTANTS
    PageLimit = 2
    MaxPages = 4
    Frame = 2
    Bar = 2
    VisibleBars = 2
    MaxKlines = 4
    TPHalves = 4
    SLHalves = 3
    Window = 2
    DayLength = 4
    LastCandle = 5
    LastDay = 1
    Bounds = {0, 1, 3, 4, 6, 8}
    Exports <- MCExports
    Polled <- MCPolled
    Size = 5
    Bars <- MCBars
    MaxFolds = 3
    MaxHold = 2
SPECIFICATION InputSpec
INVARIANTS
    PagesAreWhole
    TailIsMerged
    PredictionsComeBack
    FoldsAreApart
CHECK_DEADLOCK FALSE
