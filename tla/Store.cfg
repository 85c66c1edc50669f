SPECIFICATION Spec
CONSTANTS
  Campaign = {c1}
  Key = {k1, k2}
  Event = {e1, e2}
  Requests <- MCRequests
  Receipts <- MCReceipts
  MaxJobs = 3
  MaxReplays = 1
  c1 = c1
  s1 = s1
  s2 = s2
  Screen = {s1, s2}
  Unknown = Unknown
  Budget <- MCBudget
  MaxCost = 2
  Window = 1
  Grace = 1
  Skew = 0
  Lease = 1
  Delays = {1}
  MaxAttempts = 2
SYMMETRY Symmetric
INVARIANT IntentKept
INVARIANT NewestClaimOwns
INVARIANT RetriesFenced
INVARIANT AuditTrail

INVARIANT BudgetConsistent
INVARIANT ChargedOnce
INVARIANT VerdictJustified
PROPERTY TerminalStatesKept
PROPERTY ImplementsSettlement
