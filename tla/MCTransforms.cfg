SPECIFICATION PipeSpec
CONSTANTS
    Obj = {1, 2}
    Kinds = {"text", "cipher"}
    BufferSize = 3
    BlockSize = 2
    Texts <- MCTexts
    MaxWrite = 4
    InSize = 2
    MaxRead = 3
    MaxTrouble = 1
    BelowThrows = TRUE
INVARIANTS
    EachOnce
    NothingDropped
    RoundTrip
CHECK_DEADLOCK FALSE
