SPECIFICATION Spec
CONSTANTS
  MaxNo = 2
  RetryLimit = 0
  MaxWire = 2
  MaxCrashes = 2
INVARIANTS TypeOK AcceptedKept FileCoversQueue
PROPERTIES LossOnlyAtRisk ImplementsDelivery
