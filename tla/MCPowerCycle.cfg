SPECIFICATION FairSpec
CONSTANTS
  LineDelay = 5
  ContextDelay = 1
  ConnectDelay = 5
  PollOff = 10
  Idle = 20
INVARIANTS TypeOK
PROPERTIES OffPeriodSeen OnPeriodSeen ControlSeen SessionsRecur
