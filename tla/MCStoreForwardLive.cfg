SPECIFICATION FairSpec
CONSTANTS
  MaxNo = 2
  RetryLimit = 0
  MaxWire = 1
  MaxCrashes = 0
PROPERTIES EventuallyDelivered
