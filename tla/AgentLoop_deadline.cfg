SPECIFICATION FairSpec
CONSTANTS
    MaxTurns = 3
    MaxExecutions = 2
    MaxRepairs = 1
    HasDeadline = TRUE
    MaxInterrupts = 2
    InitialGeneration = 1
    MaxRuns = 1
    MaxRpcs = 1
PROPERTIES RestartHonoured EveryRunEnds
