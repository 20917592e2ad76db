CONSTANTS
  Runs = {r1}
  Stagers = {s1}
  Mods = {m1}
  Targets = {m1}
  Given = {"prepare", "live", "release"}
  MaxEdits = 1
  MaxCrashes = 0
  NoRun = NoRun
  NoManifest = NoManifest
  NoLog = NoLog
SPECIFICATION Spec
INVARIANTS DriftStands
