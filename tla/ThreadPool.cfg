CONSTANTS
    None = None
    Fd = {f1, f2, f3}
    Size = 2
    CanFail = TRUE
SPECIFICATION Spec
INVARIANTS TypeOK ConnectionsAreOwned
PROPERTIES ServedOrForgotten
CHECK_DEADLOCK FALSE
