SPECIFICATION Spec
CONSTANTS
    Executions = {e1, e2}
    Workers = {w1, w2}
    NONE = NONE
    MaxRetries = 1
    MaxFaults = 1
CHECK_DEADLOCK FALSE
INVARIANTS TypeOK OneAgentAtATime
PROPERTIES EveryExecutionEnds
