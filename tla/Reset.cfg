SPECIFICATION ResetSpec
CONSTANTS
  Tab = {t1, t2}
  Request = {q1, q2}
  None = None
  MaxResets = 2
  MaxFaults = 1
SYMMETRY Symmetric
INVARIANT NothingStale
INVARIANT LocksHeldAtWork
