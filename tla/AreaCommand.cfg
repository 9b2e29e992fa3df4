\* Two areas, two commands, one use of a keypad.
CONSTANTS
  Areas = {1, 2}
  Modes = {"unset", "full"}
  None = None
  MaxCommands = 2
  MaxKeypad = 1
  MaxWire = 1
SPECIFICATION FairSpec
CHECK_DEADLOCK FALSE
INVARIANTS
  AreaInv
  FailedSetIsUndone
  UnsetNeverRearms
  NoOptimisticView
  TopicsShowThePanel
PROPERTIES TopicsConverge
