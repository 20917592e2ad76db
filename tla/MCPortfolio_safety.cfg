CONSTANTS
  Coordinators = {k1, k2}
  Cases = {c1}
  Attempts = {a1, a2}
  Jobs = 1
  MaxVersion = 1
  MaxEngine = 1
  MaxRuns = 3
  NoAttempt = NoAttempt
  Nobody = Nobody
SYMMETRY Perms
SPECIFICATION Spec
INVARIANTS TypeOK OneCoordinator Truthful OneReceipt FiledIsStored EvidenceSettled InvalidStaysOut
CHECK_DEADLOCK FALSE
