SPECIFICATION MCSpec
CONSTANTS
    Timeouts <- MCTimeouts
    MaxSent = 2
    o1 = o1
    o2 = o2
    Objects <- MCObjects
    Addresses = {1, 2}
    MaxServiceChanges = 3
INVARIANTS
    IInv
    NoLostWakeup
    WaitingIsAsked
PROPERTIES
    ImplementsChannel
    Delivered
    ListeningTold
