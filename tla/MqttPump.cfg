\* What can be published before a Disconnected is handled fits the request queue.
CONSTANTS
  RequestQueueLen = 14
  EventQueueLen = 2
  All = 2
  Some = 1
  MaxOutages = 2
  MaxCommands = 2
  MaxTicks = 1
SPECIFICATION FairSpec
CHECK_DEADLOCK FALSE
INVARIANTS NoCircularWait
PROPERTIES
  Reconnects
  HandlersReturn
