\* A code is added after the power-off was requested.
SPECIFICATION Spec
CONSTANTS
  code1 = code1
  code2 = code2
  Codes = {code1, code2}
  Span <- SpanOf
  G_MAXUINT64 = 9
  StartTimes = {1}
  StartCredits = {0, 1}
  MaxBoottime = 7
  TIMEOUT_POWEROFF_NO_CREDIT = 2
  MaxSuspended = 1
INVARIANTS
  CancelledIsTrue
CHECK_DEADLOCK FALSE
