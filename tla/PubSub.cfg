SPECIFICATION FairPubSubSpec
CONSTANTS
  Campaign = {c1}
  Key = {}
  Event = {e1}
  Dispatcher = {d1}
  Receiver = {r1}
  Home <- OneHome
  Malformed = {m0}
  Orphan = {m1}
  Requests <- MCRequests
  Receipts <- MCReceipts
  MaxJobs = 7
  MaxReplays = 1
  MaxFaults = 2
  c1 = c1
  d1 = d1
  d2 = d2
  r1 = r1
  r2 = r2
  s1 = s1
  s2 = s2
  Screen = {s1, s2}
  Unknown = Unknown
  Budget <- MCBudget
  MaxCost = 1
  Window = 0
  Grace = 0
  Skew = 0
  Lease = 1
  Delays = {1}
  MaxAttempts = 2
  Cooldown = 1
  Trip = 2
  Inject = 2
  SweepLimit = 1
PROPERTY MessagesDecided
INVARIANT MessageKept
