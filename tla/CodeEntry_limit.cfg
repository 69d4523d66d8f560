\* Each string is entered, on a computer that has just been turned on.
SPECIFICATION EntrySpec
CONSTANTS
  RATE_LIMITING_N_ATTEMPTS = 3
  RATE_LIMITING_TIME_PERIOD_SECS = 4
  G_MAXUINT64 = 31
  StartTimes = {2}
  MaxBoottime = 12
  PERIODS = 4
  COUNTERS = 2
  SIGNS = 2
  RADIX = 3
  CODE_STR_WIDTH_DIGITS = 3
  Periods = {0, 3}
  Hmac <- SmallHmac
  KeyLength = 8
  KEY_LENGTH_BYTES_MINIMUM = 8
  Inputs <- AllInputs
INVARIANTS
  EntryTypeOK
  EndTimeIsExact
  RightCodesAreIssued
  UsedCodesAreSorted
PROPERTIES
  LimitIsKept
CHECK_DEADLOCK FALSE
