SPECIFICATION Spec
CONSTANTS
    Queries = {q1}
    Ranges <- MCMorning
    Archives <- MCComplete
    FirstDay = 2
    LastDay = 2
    HoursPerDay = 2
    FramesPerHour = 2
    Frame = 2
    LiveTail = 2
    Parallel = 1
    Failures = FALSE
    MaxOthers = 0
INVARIANT MissingIsBackfilled
