\* Each storage, three variables of PAYG.
SPECIFICATION Spec
CONSTANTS
  active = active
  level = level
  debug = debug
  zero = zero
  one = one
  Vars = {active, level, debug}
  PaygVars = {active, level, debug}
  Values = {zero, one}
  SizeOf <- OneOrTwoBytes
  Absent = Absent
  Empty = Empty
  NoName = NoName
  FAKE_VAR_COUNT = 2
  Storages = {"efivarfs", "test"}
  SysResults = {"ok", "err"}
INVARIANTS
  StoreIsAsReported
PROPERTIES
  ImplementsNvram
CHECK_DEADLOCK FALSE
