SPECIFICATION Spec
CONSTANTS
    MaxText = 7
    MaxChunk = 3
INVARIANTS
    ResultIsParsed
    StreamedIsResult
    ReplayKeepsBlock
