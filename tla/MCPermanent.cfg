CONSTANTS
  Pauses <- MCPauses
  Addresses = 2
  Calls = {"mark_done", "mark_done_messenger", "disconnect", "remove"}
  MaxMsg = 3
SPECIFICATION FairSpec
INVARIANTS
  OneConnection
  CloseDoesNotRace
PROPERTIES
  WireInOrder
  Reconnects
CHECK_DEADLOCK FALSE
