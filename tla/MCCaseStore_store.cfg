CONSTANTS
  Writers = {w1, w2}
  Cases = {c1}
  Cores = {k1, k2}
  NFiles = 2
  MaxVersion = 1
  MaxCalls = 4
  NoRecord = NoRecord
  Nobody = Nobody
SPECIFICATION FairSpec
INVARIANTS TypeOK Serialized CapturedWhole Resolvable
PROPERTIES LockIsReturned Immutable Implements
CHECK_DEADLOCK FALSE
