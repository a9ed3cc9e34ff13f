SPECIFICATION FairSpec
CONSTANTS
  Relayed = {"relay"}
  Tries = 3
  MaxPending = 2
INVARIANTS TypeOK
PROPERTIES AnswersMatch Resync
