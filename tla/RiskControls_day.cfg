\* Programs of one wallet, under limits nobody changes, at the end of an hour.
CONSTANTS
  w1 = w1
  v1 = v1
  Wallets = {w1}
  Verifiers = {v1}
  LimitChoices <- OneLimit
  SpendChoices = {1, 2}
  Buckets = 2
  TicksPerHour = 2
  ChangeDelay = 2
  RiskBounds <- ProgramsOnly
SPECIFICATION RiskSpec
INVARIANTS
  RollingDayIsLimited
CHECK_DEADLOCK FALSE
