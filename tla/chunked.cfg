SPECIFICATION Spec
CONSTANTS
    Index = {0, 1}
    Copies = {0, 1, 2}
    Canonical = 0
    Requests = {r1, r2}
    NULL = NULL
    MaxCalls = 4
    MaxFaults = 1
CHECK_DEADLOCK FALSE
INVARIANTS TypeOK ImportedOnce ImportedWhole RowsMatchStorage
PROPERTIES EverySessionPurged
