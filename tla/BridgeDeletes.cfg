\* A session that reads everything, and one that reads the panel information only.
CONSTANTS
  Areas = {1}
  Zones = {1}
  Still = {}
  QueueLen = 2
  Alerts = {0}
  ZoneArea <- MCZoneArea
  ZoneClasses <- MCZoneClasses
  Labels <- MCLabels
  Cost <- MCCost
  Budget <- MCDeletes
SPECIFICATION Spec
CHECK_DEADLOCK FALSE
PROPERTIES DeletesOnlyVanished
