\* Clean restarts and a crash at any time; the clocks run.
SPECIFICATION LifeSpec
CONSTANTS
  RATE_LIMITING_N_ATTEMPTS = 1
  RATE_LIMITING_TIME_PERIOD_SECS = 1
  G_MAXUINT64 = 20
  code1 = code1
  code2 = code2
  bogus = bogus
  slot1 = slot1
  slot2 = slot2
  Codes = {code1}
  InvalidCodes = {}
  Span <- SpanOf
  MAX_INTERVAL = 10
  IoResults = {"ok"}
  TimerResults = {"ok"}
  JumpDeltas = {1}
  StartTimes = {2}
  StartCredits = {0}
  SaveSlots = {slot1}
  NoSave = NoSave
  NoFile = NoFile
  Empty = Empty
  Corrupt = Corrupt
  MaxBoottime = 3
  MaxWallclock = 5
  BOGUS_CREDIT_LOWER_LIMIT_SECS = 8
  BOGUS_CREDIT_UPPER_LIMIT_SECS = 12
  BOGUS_CREDIT_RESET_SECS = 3
  InitialDisks <- FreshDisks
  InitialExpiryTimes = {NoFile}
  Keys = {TRUE, FALSE}
  Unreadable = Unreadable
  NoRead = NoRead
  KeyBytes = KeyBytes
  Settings = {TRUE}
  MaxCrashes = 1
  MaxAcceptances = 1
INVARIANTS
  CreditSurvivesRestart
  CreditWithinPaid
CHECK_DEADLOCK FALSE
