SPECIFICATION LoginSpec
CONSTANTS
    MaxIssued = 3
    MaxStarts = 3
INVARIANT UnreadableStartsLogin
