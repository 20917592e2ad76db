CONSTANTS
  Bodies = {b1, b2, b3}
  Delivered = b1
  Refused = {b3}
  Tests = {t1}
  MaxVersion = 1
  MaxRuns = 1
  MaxArchives = 1
  MaxFaults = 2
  MaxEdits = 1
  Nothing = Nothing
SPECIFICATION RetrySpec
INVARIANTS TypeOK AcceptedWasTested OnePending
PROPERTIES ArchivedAsTested JournalOnlyAdvances ShelfImplemented FinalizeCompletes
