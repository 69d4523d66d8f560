\* Missing, empty and corrupt state files, under fair I/O.
SPECIFICATION LifeFairSpec
CONSTANTS
  RATE_LIMITING_N_ATTEMPTS = 1
  RATE_LIMITING_TIME_PERIOD_SECS = 1
  G_MAXUINT64 = 20
  code1 = code1
  code2 = code2
  bogus = bogus
  slot1 = slot1
  slot2 = slot2
  Codes = {}
  InvalidCodes = {}
  Span <- SpanOf
  MAX_INTERVAL = 10
  IoResults = {"ok"}
  TimerResults = {"ok"}
  JumpDeltas = {1}
  StartTimes = {2}
  StartCredits = {0}
  SaveSlots = {slot1}
  NoSave = NoSave
  NoFile = NoFile
  Empty = Empty
  Corrupt = Corrupt
  MaxBoottime = 2
  MaxWallclock = 3
  BOGUS_CREDIT_LOWER_LIMIT_SECS = 8
  BOGUS_CREDIT_UPPER_LIMIT_SECS = 12
  BOGUS_CREDIT_RESET_SECS = 3
  InitialDisks <- AnyDisks
  InitialExpiryTimes = {Corrupt, 4}
  Keys = {TRUE}
  Unreadable = Unreadable
  NoRead = NoRead
  KeyBytes = KeyBytes
  Settings = {TRUE}
  MaxCrashes = 0
  MaxAcceptances = 1
INVARIANTS
  LifeTypeOK
  LoadCountsOperations
  RunsFullyLoaded
PROPERTIES
  Recovers
CHECK_DEADLOCK FALSE
