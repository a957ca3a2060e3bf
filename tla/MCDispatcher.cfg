SPECIFICATION Spec
CONSTANTS
    Commands = {"A", "B", "ALIVE", "HELP", "STOP", "UNKNOWN"}
    ParameterNames = {"serial"}
    Values <- MCValues
    Definitions <- MCDefinitions
    UserMatches <- MCUserMatches
    MaxSent = 2
    MaxAdded = 2
INVARIANTS
    WireFaithful
    AnswersEnd
PROPERTIES
    DispatchedRight
    CommandsHonest
CHECK_DEADLOCK FALSE
