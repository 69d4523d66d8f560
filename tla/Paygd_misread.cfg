\* The service does not see that EOSPAYG_active is set.
SPECIFICATION Spec
CONSTANTS
  TIMEOUT_POWEROFF_ON_ERROR = 2
  WATCHDOG_TIMEOUT = 3
  EfiResults = {"ok"}
  ExistsResults = {"ok", "err"}
  RtcResults = {"ok"}
  SystemctlResults = {"ok"}
  ServiceErrors = {"error", "signalled"}
  LegacyModes = {FALSE}
  DaemonLevels = {4}
  NoTimer = NoTimer
INVARIANTS
  NoInsecureProvider
CHECK_DEADLOCK FALSE
