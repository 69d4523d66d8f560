\* Boots of every kind, one after the other, under a fair clock and main loop.
SPECIFICATION FairSpec
CONSTANTS
  TIMEOUT_POWEROFF_ON_ERROR = 2
  WATCHDOG_TIMEOUT = 3
  EfiResults = {"ok", "err"}
  ExistsResults = {"ok", "err"}
  RtcResults = {"ok", "err"}
  SystemctlResults = {"ok", "err"}
  ServiceErrors = {"error", "signalled"}
  LegacyModes = {TRUE, FALSE}
  DaemonLevels = {3, 4}
  NoTimer = NoTimer
INVARIANTS
  TypeOK
  InsecureOnlyAfterMisread
PROPERTIES
  SecurityLevelNeverFalls
  NoBootWithoutDaemon
  EnforcedPowerOff
CHECK_DEADLOCK FALSE
