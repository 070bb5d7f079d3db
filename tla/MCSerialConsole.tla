--------------------------- MODULE MCSerialConsole ---------------------------
(* SerialConsole with a ring that holds two bytes; of the keys that are    *)
(* not part of an escape there are two, whose order can be told.           *)
EXTENDS SerialConsole

CONSTANTS KeyC, KeyD

MCByte == {CtrlA, KeyX, KeyC, KeyD}
=============================================================================
