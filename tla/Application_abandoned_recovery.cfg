SPECIFICATION Spec
CONSTANTS
    AuthModes = {"api_key"}
    HasDeadline = TRUE
    MaxRuns = 1
    MaxPresses = 1
PROPERTY NoneStartedAfterShutdown
