CONSTANTS
  Coordinators = {k1, k2}
  Cases = {c1, c2}
  Attempts = {a1, a2}
  Jobs = 2
  MaxVersion = 0
  MaxEngine = 0
  MaxRuns = 2
  NoAttempt = NoAttempt
  Nobody = Nobody
SPECIFICATION FairSpec
INVARIANTS Owned CompleteIsAnalysed
PROPERTY RunEnds
CHECK_DEADLOCK FALSE
