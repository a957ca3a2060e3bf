CONSTANTS
  Room = 3
  Chunk = 2
  EventLimit = 1
  MaxLength = 3
  MaxBytes = 5
SPECIFICATION FairSpec
INVARIANTS
  StreamIntact
  TurnBounded
PROPERTIES
  DoneDrainsFirst
  LineProcessed
CHECK_DEADLOCK FALSE
