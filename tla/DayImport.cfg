\* Two imports of a day of two rows, requests and repairs, with every failure and a crash.
\* An import's work is done when its goroutines have ended: the system may stop.
CONSTANTS
    Imports = {i1, i2}
    Rows = 2
    None = None
SPECIFICATION Spec
INVARIANTS
    TypeOK
    OkImportWroteAll
    AloneImportLeavesTheDay
    NobodyIsStuck
SYMMETRY Interchangeable
CHECK_DEADLOCK FALSE
