SPECIFICATION Spec
CONSTANTS
    MaxTurns = 3
    MaxExecutions = 2
    MaxRepairs = 1
    HasDeadline = TRUE
    MaxInterrupts = 0
    InitialGeneration = 1
    MaxRuns = 1
    MaxRpcs = 0
PROPERTY DeadlineStopsRequests
