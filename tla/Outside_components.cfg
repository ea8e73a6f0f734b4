\* Two tabs of a staged execution; a worker; the contracts; replays.
CONSTANTS
  null = null
  x1 = x1
  x2 = x2
  y1 = y1
  y2 = y2
  Parts = {"staged", "worker", "risk", "replay"}
  None = null
  Last = 2
  ChainOf <- TwoChains
  MaxNonce = 1
  Mishaps <- OneMishap
  Tabs = {x1, x2}
  Page = x1
  OpenIntents = {x1, x2}
  MaxAttempts = 2
  MaxParallel = 1
  MaxRestarts = 1
  Wallets = {x1, x2}
  Verifiers = {y1, y2}
  LimitChoices <- TwoLimits
  SpendChoices = {1, 2}
  Buckets = 2
  TicksPerHour = 2
  ChangeDelay = 2
  RiskBounds <- CallsOrPrograms
  Replays = {"r1", "r2", "r3", "r4"}
  Slots = 2
  MaximumQueue = 1
SPECIFICATION OutsideSpec
SYMMETRY SlotSymmetry
INVARIANTS
  SentIsArmed
  FinalIsExact
  StagesInOrder
  ConfirmedInOrder
  AttemptsAreBounded
  WaitersHaveWorkers
  WindowIsExact
  SlotsAreConserved
PROPERTIES
  MismatchFreezes
  AnsweredIsNotReworked
  SpendingIsLimited
  LooseningWaits
CHECK_DEADLOCK FALSE
