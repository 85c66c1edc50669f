SPECIFICATION FairTimedSpec
CONSTANTS
  Campaign = {c1}
  Key = {k1}
  Event = {e1}
  Dispatcher = {d1, d2}
  Requests <- MCRequests
  Receipts <- MCReceipts
  MaxJobs = 6
  MaxReplays = 0
  MaxFaults = 2
  c1 = c1
  s1 = s1
  s2 = s2
  Screen = {s1, s2}
  Unknown = Unknown
  Budget <- MCBudget
  MaxCost = 1
  Window = 0
  Grace = 0
  Skew = 0
  Lease = 2
  Delays = {1}
  MaxAttempts = 2
  Cooldown = 2
  Trip = 2
  Inject = 1
  SweepLimit = 1
PROPERTY ReceiptsDecided
PROPERTY HoldsResolved
PROPERTY LeaseRespected
INVARIANT BreakerHonoured
