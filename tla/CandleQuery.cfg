SPECIFICATION FairSpec
CONSTANTS
    Queries = {q1}
    Ranges <- MCRanges
    Archives <- MCArchives
    FirstDay = 1
    LastDay = 2
    HoursPerDay = 2
    FramesPerHour = 2
    Frame = 2
    LiveTail = 2
    Parallel = 1
    Failures = TRUE
    MaxOthers = 1
INVARIANTS TypeOK AnswerHasOwedCandles NoAnswerAfterFailedRepair
PROPERTIES NoNeedlessRepair QueryEnds
CHECK_DEADLOCK FALSE
