CONSTANTS
  NrVcpus = 2
  Main = Main
  Console = Console
SPECIFICATION Spec
INVARIANT KickTargetsUnjoinedThread
CHECK_DEADLOCK FALSE
