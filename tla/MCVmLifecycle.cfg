CONSTANTS
  MaxVcpus = 3
  Top = 16
  Page = 2
  MaxSlots = 2
  Areas = {100, 200}
  RamSizes = {7, 15}
SPECIFICATION Spec
INVARIANTS
  NothingLeft
  StdinStaysOpen
  ReleaseOrder
  ReadyIsComplete
CHECK_DEADLOCK FALSE
