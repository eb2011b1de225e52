SPECIFICATION Spec
CONSTANTS
    CrashCuts = {"nothing", "text", "character", "json"}
    FailureCuts = {"nothing", "text", "character", "json", "whole"}
    MaxEntries = 6
    MaxCrashes = 3
    MaxFailures = 2
INVARIANT MemoryMatchesFile
PROPERTY AppendOnly
