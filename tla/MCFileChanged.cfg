SPECIFICATION Spec
CONSTANTS
    Paths = {"p"}
    Files <- MCFiles
    Patterns <- MCPatterns
    EventSets <- MCEventSets
    MaxWatches = 3
    MaxChanges = 3
    MaxQueued = 2
INVARIANTS
    MapConsistent
PROPERTIES
    ToldWasAsked
    ChangeTold
CHECK_DEADLOCK FALSE
