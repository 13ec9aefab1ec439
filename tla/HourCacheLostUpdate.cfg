\* Two refreshes of one hour: the later rename wins with the older candles.
CONSTANTS
    Procs = {p1, p2}
    LastDay = 0
    HoursPerDay = 2
    FramesPerHour = 2
    Ops = {"refresh", "load"}
SPECIFICATION Spec
PROPERTY WholeStaysWhole
