SPECIFICATION Spec
CONSTANTS
    InitialGeneration = 1
    MaxCells = 3
    MaxBacklog = 3
    MaxProcesses = 3
PROPERTY OnlyBusyProcessReplaced
