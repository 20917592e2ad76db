CONSTANTS
  Runs = {r1}
  Stagers = {s1}
  Mods = {m1}
  Targets = {m1}
  Given = {"case", "live", "boot", "bound boot", "release"}
  MaxEdits = 0
  MaxCrashes = 2
  NoRun = NoRun
  NoManifest = NoManifest
  NoLog = NoLog
SPECIFICATION CaseLiveSpec
PROPERTIES GivenBack
