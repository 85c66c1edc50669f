SPECIFICATION LiveCatalogSpec
CONSTANTS
  Files <- MCFiles
  Minimum = 2
  Period = 2
  RetryDelay = 1
  OldAge = 3
  MaxFailures = 3
INVARIANT ServedIsStored
PROPERTY StaysAvailable
PROPERTY BecomesFresh
