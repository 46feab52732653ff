SPECIFICATION Spec
CONSTANTS
    Findings = {f1, f2}
    Cards = {f1}
    Workers = {w1, w2}
    MaxQueue = 1
    MaxFaults = 1
CHECK_DEADLOCK FALSE
INVARIANTS TypeOK FindingsKept FinalizedOnce OwnerIsTold
PROPERTIES EveryRunEnds
