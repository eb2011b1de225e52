SPECIFICATION FairLoginSpec
CONSTANTS
    MaxIssued = 4
    MaxStarts = 4
INVARIANT ReadyIsStored
PROPERTIES StoredOnlyRenewed LoginEnds
