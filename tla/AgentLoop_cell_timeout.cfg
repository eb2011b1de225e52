SPECIFICATION Spec
CONSTANTS
    MaxTurns = 2
    MaxExecutions = 1
    MaxRepairs = 1
    HasDeadline = FALSE
    MaxInterrupts = 0
    InitialGeneration = 1
    MaxRuns = 1
    MaxRpcs = 1
INVARIANT TimeOutStaysInCell
