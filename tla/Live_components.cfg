\* Two solvers with a revision each; two tabs of the owner; a staged program of two chains.
CONSTANTS
  q1 = q1
  q2 = q2
  s1 = s1
  s2 = s2
  t1 = t1
  t2 = t2
  null = null
  Parts = {"program", "intake", "page", "client"}
  Requests = {q1}
  Solvers = {s1, s2}
  MaxRevisions = 1
  ClosesAt = 1
  MaxTime = 1
  GeneralAsset = FALSE
  Faults = {"death", "caught", "uncaught"}
  Unscored = {}
  None = null
  Tabs = {t1, t2}
  Atomic <- SecondIsAtomic
SPECIFICATION LiveSpec
INVARIANTS
  ExecutedIsBacked
  OneOutcome
  ShownIsStored
PROPERTIES
  ImplementsLedger
  ScoredProposalsAreDecided
  ReceiptsAreReconciled
  ClientDeliveriesAreRecorded
CHECK_DEADLOCK FALSE
