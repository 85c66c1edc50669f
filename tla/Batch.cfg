SPECIFICATION LiveAdmissionSpec
CONSTANTS
  a = a
  b = b
  big = big
  junk = junk
  Client = {a, b, big}
  Receipt <- MCReceipts
  Unusable = {junk}
  Load <- MCLoad
  Burst = 5
  Rate = 4
  Slots = 2
  MaxBatch = 3
  MaxMishaps = 2
INVARIANT CreditedOnce
PROPERTY BatchesFinish
