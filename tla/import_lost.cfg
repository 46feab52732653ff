SPECIFICATION Spec
CONSTANTS
    Docs = {d1}
    Chains = {c1}
    Importer = Importer
    Finalizers = {f1}
    NONE = NONE
    MaxFaults = 0
CHECK_DEADLOCK FALSE
PROPERTIES ImportFinalizes
