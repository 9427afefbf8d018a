CONSTANTS
    None = None
    Fd = {f1, f2, f3}
    Size = 2
    CanFail = FALSE
SPECIFICATION Spec
PROPERTIES EveryConnectionServed
CHECK_DEADLOCK FALSE
