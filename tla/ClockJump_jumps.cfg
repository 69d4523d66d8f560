\* Jumps, also of less than a second, and suspends between all readings of the clocks.
SPECIFICATION JumpFairSpec
CONSTANTS
  UNIT = 2
  PRECISION = 4
  WriteResults = {"ok", "err"}
  MaxFailures = 1
  StartOffsets = {5}
  RtcOffsets = {0, 5}
  Jumps <- ShortAndLongJumps
  SuspendTicks = {1}
  SourceResults = {"ok", "err"}
  ReadResults = {"canceled", "other"}
  MaxJumps = 2
  MaxBoottime = 4
INVARIANTS
  ErrorsDoNotAdd
  NoJumpIsLost
PROPERTIES
  RtcFollows
CHECK_DEADLOCK FALSE
