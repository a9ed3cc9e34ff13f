SPECIFICATION Spec
CONSTANTS
  MaxNo = 2
  RetryLimit = 0
  MaxWire = 1
  MaxCrashes = 0
INVARIANTS OnlyReadingsQueued
