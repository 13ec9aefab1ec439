SPECIFICATION FairSpec
CONSTANTS
    NumMarkets = 1
    NumFrames = 3
    MaxTicks = 1
    MaxAsked = 1
INVARIANTS TypeOK OneTableRequest ChartsTimerRuns ShownIsLabelled
PROPERTIES ChartIsFollowed LoadingEnds
