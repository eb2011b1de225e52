SPECIFICATION Spec
CONSTANTS
    MaxText = 8
    MaxChunk = 3
INVARIANT
    ReplayKeepsMarkers
