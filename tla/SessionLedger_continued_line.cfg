SPECIFICATION Spec
CONSTANTS
    CrashCuts = {"json"}
    FailureCuts = {"text"}
    MaxEntries = 4
    MaxCrashes = 1
    MaxFailures = 1
PROPERTY FoundStays
