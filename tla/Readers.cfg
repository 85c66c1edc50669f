SPECIFICATION ReadersSpec
CONSTANTS
  Campaign = {c1}
  Key = {k1, k2, k3}
  Event = {e1, e2}
  Reader = {r1}
  Limit = 2
  Requests <- MCRequests
  Receipts <- MCReceipts
  MaxJobs = 0
  MaxReplays = 0
  c1 = c1
  s1 = s1
  s2 = s2
  Screen = {s1, s2}
  Unknown = Unknown
  Budget <- MCBudget
  MaxCost = 2
  Window = 0
  Grace = 0
  Skew = 0
  Lease = 1
  Delays = {1}
  MaxAttempts = 2
SYMMETRY Symmetric
INVARIANT AssuranceAddsUp
INVARIANT AnswersCoherent
