CONSTANTS
  Coordinators = {k1}
  Cases = {c1}
  Attempts = {a1, a2}
  Jobs = 1
  MaxVersion = 0
  MaxEngine = 0
  MaxRuns = 3
  NoAttempt = NoAttempt
  Nobody = Nobody
SPECIFICATION Spec
INVARIANT ObservedDriftInvalidates
CHECK_DEADLOCK FALSE
