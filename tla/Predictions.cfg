SPECIFICATION FairSpec
CONSTANTS
    Requests = {r1}
    Poller = poller
    Ranges <- MCRanges
    History <- MCHistory
    StartTime = 5
    LastTime = 6
    HoursPerDay = 2
    HourLength = 1
    MaxFailures = 1
INVARIANTS TypeOK MergeKeepsRows
PROPERTIES PollerStops RequestEnds
CHECK_DEADLOCK FALSE
