CONSTANTS
  MaxLaunches = 1
  MaxCrashes = 1
  Rounds = 2
  MissionTime = 1
  ManifestIds = {m1, m2}
  NoId = NoId
  MenuTimeout = 2
  Grace = 1
  CampaignTimeout = 2
  CombatTimeout = 5
  UnpauseRetry = 2
  Watchdog = 1
  ExitWait = 1
  DoneWait = 1
  CloseWait = 1
SPECIFICATION FairSpec
INVARIANTS TypeOK NaturalIsSeen PlayedWhole LostPressRecovered
PROPERTY RunEnds
CHECK_DEADLOCK FALSE
