SPECIFICATION FairSpec
CONSTANTS
    Providers = {"openai", "codex"}
    MaxEvents = 3
INVARIANTS
    CompleteOnlyIfSaid WholeResponseTaken TakenInOrder
PROPERTY ReplyComes
