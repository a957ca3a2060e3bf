CONSTANTS
  c1 = c1
  c2 = c2
  c3 = c3
  t1 = t1
  Conn = {c1, c2, c3}
  Timer = {}
  Priority = {1, 2}
  DefaultPriority = 2
  Date = {}
  Delay = {}
  Reports <- MCFewReports
  Milli = 2
  MaxNow = 0
  MaxCalls = 6
SPECIFICATION Spec
INVARIANTS
  OldConnectionsSorted
PROPERTIES
  OrderKept
  EventsServedOnce
  GivesUpOnlyIfStuck
CHECK_DEADLOCK FALSE
SYMMETRY MCSymmetry
