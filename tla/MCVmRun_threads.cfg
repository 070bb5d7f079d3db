CONSTANTS
  NrVcpus = 2
  Main = Main
  Console = Console
SPECIFICATION FairSpec
INVARIANTS
  TypeOK
  StopReachesKvm
  NoVcpuOutlivesRun
  VcpuRunPageMapped
  DeviceExclusion
  NoStaleExit
  ReturnCode
PROPERTY StopReturns
CHECK_DEADLOCK FALSE
