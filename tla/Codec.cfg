\* Frames around the block length, each with any one byte garbled; events of up to
\* nine fields.
CONSTANTS
  Frames <- MCFrames
  Keys <- MCKeys
  Garbles <- MCGarbles
  Events <- MCEvents
SPECIFICATION Spec
CHECK_DEADLOCK FALSE
INVARIANTS
  RoundTrip
  GarbledIsRejected
  EventsKeepTheirText
