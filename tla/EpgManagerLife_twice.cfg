\* The save of a load runs before the used codes are read.
SPECIFICATION LifeSpec
CONSTANTS
  RATE_LIMITING_N_ATTEMPTS = 1
  RATE_LIMITING_TIME_PERIOD_SECS = 1
  G_MAXUINT64 = 20
  code1 = code1
  code2 = code2
  bogus = bogus
  slot1 = slot1
  slot2 = slot2
  Codes = {code1}
  InvalidCodes = {}
  Span <- SpanOf
  MAX_INTERVAL = 10
  IoResults = {"ok"}
  TimerResults = {"ok"}
  JumpDeltas = {}
  StartTimes = {2}
  StartCredits = {0}
  SaveSlots = {slot1}
  NoSave = NoSave
  NoFile = NoFile
  Empty = Empty
  Corrupt = Corrupt
  MaxBoottime = 2
  MaxWallclock = 4
  BOGUS_CREDIT_LOWER_LIMIT_SECS = 8
  BOGUS_CREDIT_UPPER_LIMIT_SECS = 12
  BOGUS_CREDIT_RESET_SECS = 3
  InitialDisks <- FreshDisks
  InitialExpiryTimes = {NoFile}
  Keys = {TRUE}
  Unreadable = Unreadable
  NoRead = NoRead
  KeyBytes = KeyBytes
  Settings = {TRUE}
  MaxCrashes = 0
  MaxAcceptances = 2
INVARIANTS
  NoCodeAcceptedTwice
CHECK_DEADLOCK FALSE
