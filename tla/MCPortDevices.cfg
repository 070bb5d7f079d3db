CONSTANTS
  RxBuf = 4
  Byte = {a, b}
  Idle = Idle
  ObufSize = 2
  Sizes = {1, 2}
  Seconds = 3
  Minutes = 2
SPECIFICATION PortSpec
INVARIANTS
  PortTypeOK
  InterruptFresh
  EdgePerByte
  AnswerIsNext
  ReadingIsInstant
PROPERTIES
  RingIsFifo
  WordsAreFile
