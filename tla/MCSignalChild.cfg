SPECIFICATION Spec
CONSTANTS
    Children = {c1, c2}
    MaxListeners = 3
    MaxStops = 2
INVARIANTS
    CountMatches
    NoLostDeath
    DeathToldOnce
PROPERTIES
    ReleasedAfterCalls
    DeathHandled
CHECK_DEADLOCK FALSE
