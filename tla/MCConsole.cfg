SPECIFICATION ConsoleSpec
CONSTANTS
    StaticSize = 2
    Threads = {1, 3}
    CharsPerElement = 2
    Calls <- MCCalls
    MaxTrouble = 1
    SourceLength = 2
    BlockSize = 2
    Lengths = {2}
INVARIANTS
    TextInOrder
    MemoryIsThere
    RelayedOnce
PROPERTIES
    CallsReturn
CHECK_DEADLOCK FALSE
