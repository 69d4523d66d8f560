\* Three plugins, loaded twice, and a clock that jumps at any time.
SPECIFICATION ServiceFairSpec
CONSTANTS
  Providers = {p1, p2, p3}
  NoProvider = NoProvider
  EpgManager = EpgManager
  InitResults = {"ok", "err"}
  ShutdownResults = {"ok", "err"}
  ConfigResults = {"ok", "err"}
  RegisterResults = {"ok", "err"}
  UNIT = 1
  PRECISION = 4
  WriteResults = {"ok"}
  MaxFailures = 0
  StartOffsets = {5}
  RtcOffsets = {5}
  Jumps = {1}
  SuspendTicks = {}
  SourceResults = {"ok", "err"}
  ReadResults = {"canceled"}
  MaxJumps = 1
  MaxBoottime = 0
INVARIANTS
  ServiceTypeOK
  OneProviderRuns
  ManagerIsLastResort
PROPERTIES
  StartupEnds
CHECK_DEADLOCK FALSE
