\* One request that starts before midnight and writes after it.
CONSTANTS
    Procs = {p1}
    LastDay = 1
    HoursPerDay = 2
    FramesPerHour = 2
    Ops = {"refresh", "load"}
SPECIFICATION Spec
INVARIANT CacheHoldsItsDay
