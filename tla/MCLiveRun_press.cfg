CONSTANTS
  MaxLaunches = 1
  MaxCrashes = 0
  Rounds = 2
  MissionTime = 4
  ManifestIds = {m1, m2}
  NoId = NoId
  MenuTimeout = 2
  Grace = 1
  CampaignTimeout = 2
  CombatTimeout = 8
  UnpauseRetry = 3
  Watchdog = 1
  ExitWait = 1
  DoneWait = 1
  CloseWait = 1
SPECIFICATION Spec
PROPERTY NeverPauses
CHECK_DEADLOCK FALSE
