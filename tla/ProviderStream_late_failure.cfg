SPECIFICATION FairSpec
CONSTANTS
    Providers = {"openai", "codex"}
    MaxEvents = 2
INVARIANT CompletedStays
