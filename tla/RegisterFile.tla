---------------------------- MODULE RegisterFile ----------------------------
(***************************************************************************)
(* What acpi.c:317-318 promises of the PM1a block: six bytes, the status,  *)
(* enable and control registers in little-endian order, which the guest    *)
(* may read and write by the byte or by the word.                          *)
(*                                                                         *)
(* A byte is the set of its bits, of which two are told apart.             *)
(***************************************************************************)
EXTENDS Naturals

Bit  == {0, 1}
Octet == SUBSET Bit
Cell == 0 .. 5

S5     == 0                  (* byte 5: SLP_TYP is that of S5               *)
SLP_EN == 1                  (* byte 5                                      *)
SCI_EN == 0                  (* byte 4                                      *)

CONSTANT Accesses            (* ranges [off, size] the guest accesses       *)

VARIABLES
  cell,                      (* the six bytes                               *)
  poweroff,                  (* the guest has asked for S5                  *)
  access                     (* the last access: what was read or written   *)

Covered(a) == {k \in Cell : a.off <= k /\ k < a.off + a.size}

Init ==
  /\ cell = [k \in Cell |-> {}]
  /\ poweroff = FALSE
  /\ access = [op |-> "none"]

Read(a) ==
  /\ access' = [op    |-> "read",
                bytes |-> [k \in Covered(a) |->
                             IF k = 4 THEN cell[k] \cup {SCI_EN} ELSE cell[k]]]
  /\ UNCHANGED <<cell, poweroff>>

Stored(k, byte) ==
  CASE k \in {0, 1}    -> cell[k] \ byte            \* write 1 to clear
    [] k \in {2, 3, 4} -> byte
    [] k = 5           -> byte \ {SLP_EN}

Write(a, bytes) ==
  /\ access' = [op |-> "write", bytes |-> bytes]
  /\ IF 5 \in Covered(a) /\ {S5, SLP_EN} \subseteq bytes[5]
     THEN poweroff' = TRUE /\ UNCHANGED cell
     ELSE /\ cell' = [k \in Cell |-> IF k \in Covered(a) THEN Stored(k, bytes[k]) ELSE cell[k]]
          /\ UNCHANGED poweroff

Next ==
  \E a \in Accesses : Read(a) \/ \E bytes \in [Covered(a) -> Octet] : Write(a, bytes)

Spec == Init /\ [][Next]_<<cell, poweroff, access>>
=============================================================================
