SPECIFICATION FairSpec
CONSTANTS
    AuthModes = {"api_key", "codex"}
    HasDeadline = TRUE
    MaxRuns = 2
    MaxPresses = 4
INVARIANTS
    NothingLeftRunning OneReader
PROPERTY LeavingEnds
