CONSTANTS
    x = x
    y = y
    nl = nl
    Garbage = Garbage
    Hole = Hole
    Size = 3
    Char = {x, y, nl}
    Source <- MCSource
    Newline = nl
    Requests = {1, 3, 5, 7}
    Stops = {{x}, {nl}}
    CanThrow = TRUE
SPECIFICATION Spec
CONSTRAINT NoGap
INVARIANTS TypeOK BlockFollowsSource
PROPERTIES ImplementsInputStream
