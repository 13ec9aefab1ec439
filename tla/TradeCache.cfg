\* One import or query after the other, with crashes, failures, a midnight in reach and
\* more trades in an hour than a page holds.
CONSTANTS
    Procs = {p1}
    LastDay = 1
    HoursPerDay = 2
    SlotsPerHour = 3
    Limit = 2
SPECIFICATION Spec
INVARIANTS
    TypeOK
    AnswerHasNoHoles
