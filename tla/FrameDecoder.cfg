\* Two frames and four bytes of noise, reads of any three bytes.
CONSTANTS
  Shapes <- MCShapes
  Noise <- MCNoise
  Magic = 9
  Encrypted = 1
  HeaderLen = 3
  MaxPlausible = 8
  ResyncLimit = 2
  ReadLen = 3
  MaxFrames = 2
  MaxNoise = 4
SPECIFICATION Spec
CHECK_DEADLOCK FALSE
INVARIANTS
  NoFrameLost
  FoundInOrder
  WaitIsBounded
  CorruptOnlyForNoise
  DecoderInv
