\* One revision of a policy whose verdicts have no objective.
CONSTANTS
  q1 = q1
  q2 = q2
  s1 = s1
  s2 = s2
  null = null
  Requests = {q1}
  Solvers = {s1}
  MaxRevisions = 1
  ClosesAt = 2
  MaxTime = 2
  GeneralAsset = FALSE
  Faults = {}
  Unscored <- EveryOffer
  None = null
SPECIFICATION FairSpec
PROPERTIES
  ProposalsAreDecided
CHECK_DEADLOCK FALSE
