\* Two requests at once in an hour of three candles.
CONSTANTS
    Procs = {p1, p2}
    LastDay = 0
    HoursPerDay = 2
    FramesPerHour = 3
    Ops = {"refresh", "load", "day"}
SPECIFICATION Spec
PROPERTIES
    StoreSpec
    SettledForEver
SYMMETRY Interchangeable
