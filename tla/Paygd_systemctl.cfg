\* systemctl fails and the service ends with an error.
SPECIFICATION FairSpec
CONSTANTS
  TIMEOUT_POWEROFF_ON_ERROR = 2
  WATCHDOG_TIMEOUT = 3
  EfiResults = {"ok"}
  ExistsResults = {"ok"}
  RtcResults = {"ok"}
  SystemctlResults = {"err"}
  ServiceErrors = {"error"}
  LegacyModes = {FALSE}
  DaemonLevels = {4}
  NoTimer = NoTimer
PROPERTIES
  PromisedPowerOff
CHECK_DEADLOCK FALSE
