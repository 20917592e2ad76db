CONSTANTS
  Candidates = {c1, c2}
  Engines = {e1, e2}
  Runs = {r1, r2}
  Passing = {r1}
  MaxAttempts = 4
  MaxFaults = 2
  NoDir = NoDir
  EmptyDir = EmptyDir
  Junk = Junk
  NoReport = NoReport
  NoCheckpoint = NoCheckpoint
  NoCall = NoCall
SPECIFICATION RetrySpec
INVARIANTS TypeOK TestedBytes Published
PROPERTIES RetryCompletes Preserved StillQualified PublicationImplemented
