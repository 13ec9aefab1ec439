\* A repair after an import that skipped a bad row.
CONSTANTS
    Imports = {i1, i2}
    Rows = 2
    None = None
SPECIFICATION Spec
INVARIANT RepairDownloads
CHECK_DEADLOCK FALSE
