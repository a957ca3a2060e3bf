SPECIFICATION Spec
CONSTANTS
    Programs <- MCPrograms
    Peers = {"p", "q"}
    MaxSent = 2
INVARIANTS
    StreamIntact
    EndsOnce
PROPERTIES
    HupOnlyOwn
    RunReturns
CHECK_DEADLOCK FALSE
