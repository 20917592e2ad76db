CONSTANTS
  Runs = {r1}
  Stagers = {s1}
  Mods = {m1}
  Targets = {m1}
  Given = {"prepare", "case", "live", "boot", "bound boot", "release"}
  MaxEdits = 1
  MaxCrashes = 1
  NoRun = NoRun
  NoManifest = NoManifest
  NoLog = NoLog
SPECIFICATION CaseSpec
INVARIANTS CaseTypeOK Evidence RunBound
