SPECIFICATION SessionSpec
CONSTANTS
    MaxTurns = 1
    MaxExecutions = 1
    MaxRepairs = 0
    HasDeadline = FALSE
    MaxInterrupts = 0
    InitialGeneration = 0
    MaxRuns = 1
    MaxRpcs = 1
    MaxStarts = 3
INVARIANTS
    GenerationsNameProcesses RecordedBeforeUse FreshMemoryAnnounced
