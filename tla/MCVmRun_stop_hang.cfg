CONSTANTS
  NrVcpus = 2
  Main = Main
  Console = Console
SPECIFICATION FairSpec
PROPERTY StopAlwaysReturns
CHECK_DEADLOCK FALSE
