CONSTANTS
  Pauses <- MCOnePause
  Addresses = 1
  Calls = {"mark_done"}
  MaxMsg = 2
SPECIFICATION Spec
INVARIANT CachedForwarded
CHECK_DEADLOCK FALSE
