CONSTANTS
    f1 = f1
    f2 = f2
    f3 = f3
    h1 = h1
    h2 = h2
    d1 = d1
    d2 = d2
    d3 = d3
    Fds = {0, 1, 2}
    Desc = {d1, d2, d3}
    Free = Free
    Files = {f1, f2, f3}
    Handles = {h1, h2}
    None = None
    Dead = Dead
SPECIFICATION Spec
CONSTRAINT Unharmed
SYMMETRY Alike
INVARIANTS TypeOK DescriptorsAreOwned
PROPERTIES ImplementsFileRefs
CHECK_DEADLOCK FALSE
