CONSTANTS
    s1 = s1
    s2 = s2
    s3 = s3
    b1 = b1
    b2 = b2
    b3 = b3
    d1 = d1
    d2 = d2
    x = x
    y = y
    z = z
    Fds = {0, 1, 2}
    Desc = {d1, d2}
    Free = Free
    Streams = {s1, s2, s3}
    None = None
    Dead = Dead
    Blocks = {b1, b2, b3}
    Null = Null
    Size = 1
    Chars = {x, y, z}
SPECIFICATION Spec
CONSTRAINT Tight
SYMMETRY Alike
INVARIANTS EachCharacterOnce BlocksAreOwned
CHECK_DEADLOCK FALSE
