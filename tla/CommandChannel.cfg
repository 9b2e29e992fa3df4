\* Two callers, late answers, timeouts, and a sequence number that wraps.
CONSTANTS
  Callers = {c1, c2}
  NoCaller = NoCaller
  SeqMod = 4
  QuietTime = 0
  CommandTimeout = 1
  WriteQueueLen = 1
  MaxFragments = 2
  MaxCalls = 2
  PanelSeqs = {2}
  PanelKinds = {"ackable"}
  MaxPanelFrames = 1
SPECIFICATION Spec
SYMMETRY CallerSymmetry
CHECK_DEADLOCK FALSE
INVARIANTS
  OkMeansAccepted
  AssembledInOrder
  ClosedHasNoPending
  AssemblyInv
PROPERTIES
  ServiceSpec
