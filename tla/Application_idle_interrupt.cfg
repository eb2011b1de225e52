SPECIFICATION FairSpec
CONSTANTS
    AuthModes = {"api_key"}
    HasDeadline = FALSE
    MaxRuns = 1
    MaxPresses = 2
PROPERTY TwoInterruptsExit
