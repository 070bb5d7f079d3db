SPECIFICATION BootSpec
CONSTANTS
  MaxVcpus = 32
  CmdlineMax = 2048
  DefaultRam = 262144
  DefaultCmdline = 63
  DefaultMap = 2097152
  LongPayload = 6144
  Unset = Unset
  None = None
  Malformed = Malformed
  FirstNent = 128
  MaxNent = 4096
  Spare = 8
  Top = 1073741824
  EhdrSize = 1
  PhdrSize = 1
  HighMem = 2048
  Inputs <- StackInputs
INVARIANTS StackIsFree
CHECK_DEADLOCK FALSE
