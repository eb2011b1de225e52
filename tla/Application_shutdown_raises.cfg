SPECIFICATION Spec
CONSTANTS
    AuthModes = {"api_key"}
    HasDeadline = FALSE
    MaxRuns = 1
    MaxPresses = 0
INVARIANT ServerNeverLeft
