SPECIFICATION Spec
CONSTANTS
    MaxTurns = 2
    MaxExecutions = 1
    MaxRepairs = 1
    HasDeadline = TRUE
    MaxInterrupts = 0
    InitialGeneration = 1
    MaxRuns = 2
    MaxRpcs = 1
INVARIANT RefusesOnlyWhileActive
