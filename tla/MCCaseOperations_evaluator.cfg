CONSTANTS
  Candidates = {c1}
  Engines = {e1, e2}
  Runs = {r1}
  Passing = {r1}
  MaxAttempts = 4
  MaxFaults = 2
  NoDir = NoDir
  EmptyDir = EmptyDir
  Junk = Junk
  NoReport = NoReport
  NoCheckpoint = NoCheckpoint
  NoCall = NoCall
SPECIFICATION Spec
INVARIANT EvaluatorBound
