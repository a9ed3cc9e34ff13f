SPECIFICATION FairSpec
CONSTANTS
  OpenTries = 6
  SwitchAfter = 3
  AnswerTries = 4
  ConnectTries = 3
  Assigned = {0, 1, 2}
INVARIANTS TypeOK OneSocket BothPortsTried ConnectedToAssigned OpensBounded
PROPERTIES CallEnds
