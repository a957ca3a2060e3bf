CONSTANTS
  c1 = c1
  c2 = c2
  c3 = c3
  t1 = t1
  Conn = {c1, t1}
  Timer = {t1}
  Priority = {1}
  DefaultPriority = 1
  Date = {1}
  Delay = {2}
  Reports <- MCReports
  Milli = 2
  MaxNow = 4
  MaxCalls = 4
SPECIFICATION FairSpec
INVARIANTS
  TickOnSchedule
PROPERTIES
  PollNotLate
  DueServed
CHECK_DEADLOCK FALSE
