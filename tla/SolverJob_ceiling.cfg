\* A job arrives between the moment a waiter is let in and the moment it runs.
CONSTANTS
  i1 = i1
  i2 = i2
  i3 = i3
  OpenIntents = {i1, i2, i3}
  MaxAttempts = 1
  MaxParallel = 1
  MaxRestarts = 0
SPECIFICATION WorkerSpec
INVARIANTS
  WorkIsBounded
CHECK_DEADLOCK FALSE
