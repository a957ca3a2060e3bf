SPECIFICATION ProcessSpec
CONSTANTS
    a = a
    b = b
    A = a
    B = b
    Children <- MCChildren
    MaxListeners = 2
    MaxStops = 0
    PipeSize = 1
    ReadSize = 1
    Inputs = {4}
    MaxOwn = 0
PROPERTIES
    WriteReturns
CHECK_DEADLOCK FALSE
