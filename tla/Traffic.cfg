SPECIFICATION TrafficSpec
CONSTANTS
  Session = {r1, r2, r3}
  NoSession = NoSession
  BatchID = {b1, b2}
  b1 = b1
  b2 = b2
  z1 = z1
  z2 = z2
  Zone = {z1, z2}
  KnownZone = {z1}
  Feeds <- MCFeeds
  MaxCount = 2
  MaxWindows = 2
  Retention = 2
  MaxHour = 4
  Span = 1
  Day = 1
  Threshold = 2
SYMMETRY Symmetric
INVARIANT CountedOnce
INVARIANT SmallCountsHidden
PROPERTY SwapsAtomic
