SPECIFICATION Spec
CONSTANTS
    CrashCuts = {"nothing", "character"}
    FailureCuts = {}
    MaxEntries = 4
    MaxCrashes = 1
    MaxFailures = 0
INVARIANT OpensAgain
