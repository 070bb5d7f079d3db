CONSTANTS
  RxBuf = 3
  CtrlA = CtrlA
  KeyX = KeyX
  KeyC = KeyC
  KeyD = KeyD
  Byte <- MCByte
  Idle = Idle
  MaxTyped = 4
  MaxTx = 2
SPECIFICATION FairSpec
INVARIANTS
  InputInOrder
  NoLostEdge
PROPERTIES
  InputServed
  OutputServed
CHECK_DEADLOCK FALSE
