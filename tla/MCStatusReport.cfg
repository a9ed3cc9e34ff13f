SPECIFICATION FairSpec
CONSTANTS
  Status = {0, 1}
  MaxNo = 3
  RetryLimit = 2
  MaxWire = 2
  MaxCrashes = 1
INVARIANTS TypeOK CurrentStatusKept
PROPERTIES StatusArrives
