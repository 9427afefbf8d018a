CONSTANTS
    a = a
    b = b
    c = c
    t1 = t1
    t2 = t2
    t3 = t3
    None = None
    Thread = {t1, t2, t3}
    Stream = {a, b, c}
    Length <- MCLength
    Buffered = {a, b}
    Room = 2
    Calls <- MCCalls
    MaxCalls = 1
    CanThrow = TRUE
SPECIFICATION Spec
INVARIANTS TypeOK
PROPERTIES ImplementsAtomicStreams EveryCallReturns
CHECK_DEADLOCK FALSE
