SPECIFICATION Spec
CONSTANTS
    Docs = {d1}
    Chains = {c1, c2}
    Importer = Importer
    Finalizers = {f1, f2}
    NONE = NONE
    MaxFaults = 1
CHECK_DEADLOCK FALSE
INVARIANTS TypeOK AnnotationsOnce FanInOnce OutcomeStands
PROPERTIES EveryIngestionEnds
