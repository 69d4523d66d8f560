\* The user tries again at the end time that is shown.
SPECIFICATION Spec
CONSTANTS
  RATE_LIMITING_N_ATTEMPTS = 3
  RATE_LIMITING_TIME_PERIOD_SECS = 4
  G_MAXUINT64 = 31
  StartTimes = {1}
  MaxBoottime = 12
INVARIANTS
  RetryAtEndTime
CHECK_DEADLOCK FALSE
