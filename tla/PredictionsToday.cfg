SPECIFICATION FairSpec
CONSTANTS
    Requests = {r1}
    Poller = poller
    Ranges <- MCRanges
    History <- MCHistory
    StartTime = 5
    LastTime = 6
    HoursPerDay = 2
    HourLength = 1
    MaxFailures = 0
PROPERTY RunReturns
CHECK_DEADLOCK FALSE
