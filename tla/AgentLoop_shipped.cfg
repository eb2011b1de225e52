SPECIFICATION Spec
CONSTANTS
    MaxTurns = 2
    MaxExecutions = 1
    MaxRepairs = 1
    HasDeadline = FALSE
    MaxInterrupts = 2
    InitialGeneration = 1
    MaxRuns = 2
    MaxRpcs = 1
INVARIANTS
    TranscriptShape LimitsHold MemoryLossAnnounced OutcomeReported NothingLeftOpen
PROPERTY EventsInOrder
