\* A panel that keeps the line busy and owes nothing: every call comes back.
CONSTANTS
  Callers = {c1, c2}
  NoCaller = NoCaller
  SeqMod = 1
  QuietTime = 1
  CommandTimeout = 1
  WriteQueueLen = 1
  MaxFragments = 1
  MaxCalls = 2
  PanelSeqs = {0}
  PanelKinds = {"unhandled"}
  MaxPanelFrames = 1
SPECIFICATION FairSpec
CHECK_DEADLOCK FALSE
PROPERTIES
  CallsReturn
  CloseFailsCallsAtOnce
