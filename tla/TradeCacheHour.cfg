\* One import during which an hour ends.
CONSTANTS
    Procs = {p1}
    LastDay = 0
    HoursPerDay = 3
    SlotsPerHour = 2
    Limit = 2
SPECIFICATION Spec
INVARIANT HourFileHoldsItsHour
