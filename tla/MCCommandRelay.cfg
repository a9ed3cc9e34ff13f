SPECIFICATION FairSpec
CONSTANTS
  Byte = 2
  Batch = 2
  Tries = 3
  Stray = {2}
  MaxWire = 3
INVARIANTS TypeOK ServedInFull
PROPERTIES PoppedStored TransferEnds
