\* A panel with so many zones that publish_all exceeds the request queue.
CONSTANTS
  RequestQueueLen = 3
  EventQueueLen = 2
  All = 2
  Some = 1
  MaxOutages = 1
  MaxCommands = 0
  MaxTicks = 0
SPECIFICATION FairSpec
CHECK_DEADLOCK FALSE
PROPERTIES Reconnects
