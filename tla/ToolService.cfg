SPECIFICATION Spec
CONSTANTS
    Names = {a, b}
    MaxCalls = 3
    MaxProcesses = 2
    MaxFailures = 1
INVARIANTS ResumedTodosMatch AnswersMatchLedger
PROPERTY OldProcessActsNoMore
