SPECIFICATION PagesSpec
CONSTANTS
  d1 = d1
  d2 = d2
  d3 = d3
  Delivery = {d1, d2, d3}
  Initials <- MCInitials
  Decision = {"settled", "quarantined"}
  Payload = {p1, p2}
  None = None
  PageSize = 1
  MaxClicks = 3
  MaxFaults = 1
  Campaign = {c1, c2}
  First = c1
  MaxReads = 2
  Price = {1, 2}
  MaxIntake = 4
INVARIANTS
  ReservedOnce
  LedgerInRange
  ReportIsSelected
  ExampleAsAsked
  HoldsTracked
PROPERTIES
  NeverOlder
  PageCatchesUp
CHECK_DEADLOCK FALSE
