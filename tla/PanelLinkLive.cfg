\* Two connections and a queue of one: superseded and dead sessions go away.
CONSTANTS
  Sessions = {s1, s2}
  NoSession = NoSession
  QueueLen = 1
  MaxBatch = 1
  MaxSia = 1
SPECIFICATION FairSpec
CHECK_DEADLOCK FALSE
PROPERTIES
  SupersededEnds
  DeadLinkIsDropped
