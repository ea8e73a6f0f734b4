\* A revision is executed while its successor is being appended.
CONSTANTS
  q1 = q1
  s1 = s1
  s2 = s2
  t1 = t1
  t2 = t2
  null = null
  Requests = {q1}
  Solvers = {s1}
  MaxRevisions = 2
  ClosesAt = 1
  MaxTime = 1
  GeneralAsset = FALSE
  Faults = {}
  Unscored = {}
  None = null
  Tabs = {t1}
  Atomic <- MixedLanes
SPECIFICATION ExecutionSpec
PROPERTIES
  ExecutedIsFinal
CHECK_DEADLOCK FALSE
