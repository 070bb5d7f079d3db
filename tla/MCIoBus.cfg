CONSTANTS
  Vcpus = {v0, v1}
  Nobody = Nobody
  Top = 6
  MaxDevs = 2
  Offered <- MCOffered
  MaxCount = 2
  MaxCalls = 3
SPECIFICATION Spec
INVARIANTS
  LookupExact
  StringsAreWhole
  ExitEndsVcpu
CHECK_DEADLOCK FALSE
