\* The computer has just been turned on.
SPECIFICATION Spec
CONSTANTS
  RATE_LIMITING_N_ATTEMPTS = 3
  RATE_LIMITING_TIME_PERIOD_SECS = 4
  G_MAXUINT64 = 31
  StartTimes = {1}
  MaxBoottime = 12
PROPERTIES
  LimitFromBoot
CHECK_DEADLOCK FALSE
