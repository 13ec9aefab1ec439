\* One request at a time, with crashes and a midnight in reach: every entry point.
CONSTANTS
    Procs = {p1}
    LastDay = 1
    HoursPerDay = 2
    FramesPerHour = 2
    Ops = {"refresh", "load", "day", "cached"}
SPECIFICATION FairSpec
INVARIANTS
    TypeOK
    NoRowFromLaterDay
    AnswerIsWhole
PROPERTIES
    RequestEnds
