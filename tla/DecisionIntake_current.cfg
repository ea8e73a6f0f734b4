\* Two revisions of one solver in flight at once.
CONSTANTS
  q1 = q1
  q2 = q2
  s1 = s1
  s2 = s2
  null = null
  Requests = {q1, q2}
  Solvers = {s1}
  MaxRevisions = 2
  ClosesAt = 2
  MaxTime = 2
  GeneralAsset = FALSE
  Faults = {}
  Unscored = {}
  None = null
SPECIFICATION Spec
INVARIANTS
  OneCurrentPerSolver
CHECK_DEADLOCK FALSE
