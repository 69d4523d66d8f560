\* The EFI variables cannot be read.
SPECIFICATION FairSpec
CONSTANTS
  TIMEOUT_POWEROFF_ON_ERROR = 2
  WATCHDOG_TIMEOUT = 3
  EfiResults = {"err"}
  ExistsResults = {"ok"}
  RtcResults = {"ok"}
  SystemctlResults = {"ok"}
  ServiceErrors = {"error", "signalled"}
  LegacyModes = {FALSE}
  DaemonLevels = {4}
  NoTimer = NoTimer
PROPERTIES
  PromisedPowerOff
CHECK_DEADLOCK FALSE
