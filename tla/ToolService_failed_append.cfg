SPECIFICATION Spec
CONSTANTS
    Names = {a, b}
    MaxCalls = 2
    MaxProcesses = 1
    MaxFailures = 1
PROPERTY FailedCallChangesNothing
