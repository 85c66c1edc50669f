SPECIFICATION FairProofSpec
CONSTANTS
  Campaign = {c1}
  Key = {a, b, o}
  PlayA = a
  PlayB = b
  Event = {e1, e2, e3, e4}
  First = e1
  Second = e2
  Broken = e3
  Corrected = e4
  Play <- MCPlay
  MaxFaults = 2
  Requests <- MCRequests
  Receipts <- MCReceipts
  MaxJobs = 1
  MaxReplays = 1
  c1 = c1
  s1 = s1
  s2 = s2
  Screen = {s1, s2}
  Unknown = Unknown
  Budget <- MCBudget
  MaxCost = 1
  Window = 0
  Grace = 0
  Skew = 0
  Lease = 1
  Delays = {0}
  MaxAttempts = 1
INVARIANT VerifiedStaysTrue
INVARIANT HoldsRemembered
PROPERTY RunsComplete
