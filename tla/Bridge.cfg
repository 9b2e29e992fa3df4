\* An area and a zone, a second area and a zone beyond 255 where nothing happens, room
\* for two events in the queue; any four events of the world.
CONSTANTS
  Areas = {1, 2}
  Zones = {1, 256}
  Still = {2, 256}
  QueueLen = 2
  Alerts = {0}
  ZoneArea <- MCZoneArea
  ZoneClasses <- MCZoneClasses
  Labels <- MCLabels
  Cost <- MCCost
  Budget <- MCBudget
SPECIFICATION FairSpec
CHECK_DEADLOCK FALSE
INVARIANTS
  BridgeInv
  SkippedConfigsAreRetained
  StatusIsHonest
  ZonesFollowThePanel
  AlarmIsShown
  CommandsReachTheirEntity
PROPERTIES
  SwitchesStay
  TopicsConverge
