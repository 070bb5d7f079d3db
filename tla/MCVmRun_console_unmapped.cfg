CONSTANTS
  NrVcpus = 2
  Main = Main
  Console = Console
SPECIFICATION Spec
INVARIANT ConsoleRunPageMapped
CHECK_DEADLOCK FALSE
