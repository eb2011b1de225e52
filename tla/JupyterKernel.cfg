SPECIFICATION FairSpec
CONSTANTS
    InitialGeneration = 1
    MaxCells = 3
    MaxBacklog = 3
    MaxProcesses = 3
INVARIANT NothingRunsAfterAnswer
PROPERTIES ImplementsContract CompleteWhenAnswered ExecuteAnswers
