SPECIFICATION Spec
CONSTANTS
    BufferSize = 4
    Reserve = 2
    OldLength = 2
    WrittenModes = {{"out"}, {"app"}, {"in", "out"}}
    MaxChars = 5
    Syncs = {s1, s2}
    MaxLogged = 4
    MaxDrops = 1
    Maps = {o1, o2}
    Named = {f1, f2}
    NoFile = NoFile
    InitSize = 1
    MaxSize = 4
    MaxMapped = 3
    Places = {1, 2, 3}
    Values = {1, 2, 3}
    Opened = {d1, d2}
    Unused = Unused
    Kinds = {"file", "io handle", "memory", "mapping", "view", "internet", "library"}
    Builders = {t1, t2}
    Ours = {h1, h2}
    Numbers = {1, 2, 3, 4}
    Holders = {w1, w2}
INVARIANTS
    ModesAgree
    SharedFileAgrees
    LogIsComplete
    MapIsText
    HandlesAreOwned
    ChildrenAreInOrder
PROPERTIES
    HandlesImplementFileRefs
CHECK_DEADLOCK FALSE
