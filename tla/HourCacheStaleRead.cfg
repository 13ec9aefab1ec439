\* A load that reads before another request's rename and audits after it.
CONSTANTS
    Procs = {p1, p2}
    LastDay = 0
    HoursPerDay = 2
    FramesPerHour = 2
    Ops = {"refresh", "load"}
SPECIFICATION Spec
INVARIANT AnswerIsWhole
