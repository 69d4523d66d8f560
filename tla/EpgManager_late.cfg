\* A code is added while credit is left.
SPECIFICATION Spec
CONSTANTS
  RATE_LIMITING_N_ATTEMPTS = 1
  RATE_LIMITING_TIME_PERIOD_SECS = 1
  G_MAXUINT64 = 20
  code1 = code1
  code2 = code2
  code3 = code3
  bogus = bogus
  slot1 = slot1
  slot2 = slot2
  slot3 = slot3
  Codes = {code1, code2}
  InvalidCodes = {}
  Span <- SpanOf
  MAX_INTERVAL = 10
  IoResults = {"ok"}
  TimerResults = {"ok"}
  JumpDeltas = {}
  StartTimes = {2}
  StartCredits = {1}
  SaveSlots = {slot1}
  NoSave = NoSave
  NoFile = NoFile
  Empty = Empty
  Corrupt = Corrupt
  MaxBoottime = 9
  MaxWallclock = 9
INVARIANTS
  ExpiredOnTime
CHECK_DEADLOCK FALSE
