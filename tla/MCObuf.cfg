CONSTANTS
    a = a
    b = b
    Garbage = Garbage
    Hole = Hole
    Size = 2
    Char = {a, b}
    Limit = 5
    Texts <- MCTexts
    Counts = {1, 4, 5}
    Seeks = {0, 3}
    Reserves = {1, 3}
    Faults = {"error", "short"}
SPECIFICATION Spec
CONSTRAINT Intact
INVARIANTS TypeOK BufferingIsInvisible
PROPERTIES SmallWritesAreGathered ImplementsFileStream
CHECK_DEADLOCK FALSE
