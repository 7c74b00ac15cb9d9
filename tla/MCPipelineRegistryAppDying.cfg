CONSTANTS
    c1 = c1
    c2 = c2
    None = None
    Callers <- MCCallers
    MaxInc = 2
    NWorkers = 2
    MaxCalls = 2
    AppCanDie = TRUE

SPECIFICATION Spec

INVARIANT OnePipelinePerService


CHECK_DEADLOCK FALSE
