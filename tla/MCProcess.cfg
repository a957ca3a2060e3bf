SPECIFICATION ProcessSpec
CONSTANTS
    a = a
    b = b
    A = a
    B = b
    Children <- MCChildren
    MaxListeners = 2
    MaxStops = 0
    PipeSize = 1
    ReadSize = 1
    Inputs = {1, 4}
    MaxOwn = 1
INVARIANTS
    OutputComplete
    ExitCodeKnown
PROPERTIES
    WaitReturns
CHECK_DEADLOCK FALSE
