SPECIFICATION Spec
CONSTANTS
    Pipe = {11, 12}
    Obj = {1, 2}
    Kid = {1, 2}
    Fds = {0, 1, 2, 3, 4, 5, 6}
    Stdio <- MCStdio
    Ios <- MCIos
    Room = 1
    MaxChars = 1
    Free = Free
    Tty = Tty
    None = None
INVARIANTS
    DescriptorsAreCurrent
    OneWaiter
PROPERTIES
    CallsEnd
CHECK_DEADLOCK FALSE
