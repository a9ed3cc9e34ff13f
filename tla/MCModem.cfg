SPECIFICATION FairSpec
CONSTANTS
  Tries = 3
  OffTries = 5
  MaxLate = 2
INVARIANTS TypeOK PortReleased ContextConfirmed
PROPERTIES OnMeansConnected CallsReturn
