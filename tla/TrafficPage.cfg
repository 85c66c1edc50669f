SPECIFICATION TrafficPageSpec
CONSTANTS
  Sample = {s1, random}
  Random = random
  None = None
  MaxBatches = 2
  MaxClicks = 4
  MaxOthers = 1
  MaxFaults = 2
INVARIANTS
  AttemptKept
  ReportCurrent
PROPERTY
  PageSettles
CHECK_DEADLOCK FALSE
