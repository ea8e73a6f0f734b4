\* The receipt route dies between its two writes; the owner retries for ever.
CONSTANTS
  q1 = q1
  s1 = s1
  s2 = s2
  t1 = t1
  t2 = t2
  null = null
  Requests = {q1}
  Solvers = {s1}
  MaxRevisions = 1
  ClosesAt = 1
  MaxTime = 1
  GeneralAsset = FALSE
  Faults = {"death"}
  Unscored = {}
  None = null
  Tabs = {t1}
  Atomic <- OnlyBatches
SPECIFICATION FairExecutionSpec
PROPERTIES
  StoredReceiptIsResolved
CHECK_DEADLOCK FALSE
