------------------------------- MODULE AcpiPm -------------------------------
(***************************************************************************)
(* The PM1a registers of src/boot/acpi.c.  vm.io_lock is held around every *)
(* access.  Words are kept as their two bytes, bytes as in RegisterFile.   *)
(* External: the guest, which accesses aligned ranges of the sizes Sizes.  *)
(***************************************************************************)
EXTENDS Naturals

CONSTANT Sizes

VARIABLES
  sts, en, cnt,              (* g_pm                                        *)
  poweroff,                  (* VMM_ERR_EXIT was returned                   *)
  access                     (* history: the last access, as in RegisterFile  *)

vars == <<sts, en, cnt, poweroff, access>>

Accesses == {a \in [off : 0 .. 5, size : Sizes] : a.off % a.size = 0}

File == INSTANCE RegisterFile
          WITH cell <- [k \in 0 .. 5 |->
                          CASE k = 0 -> sts.lo [] k = 1 -> sts.hi
                            [] k = 2 -> en.lo  [] k = 3 -> en.hi
                            [] k = 4 -> cnt.lo [] k = 5 -> cnt.hi]

Word == [lo : File!Octet, hi : File!Octet]
Zero == [lo |-> {}, hi |-> {}]

(* SLP_EN is never stored (acpi.c:355), nothing ever sets a status bit.    *)
TypeOK ==
  /\ sts = Zero
  /\ en \in Word
  /\ cnt \in [lo : File!Octet, hi : SUBSET (File!Bit \ {File!SLP_EN})]
  /\ poweroff \in BOOLEAN
  /\ access.op \in {"none", "read", "write"}

Init ==
  /\ sts = Zero /\ en = Zero /\ cnt = Zero
  /\ poweroff = FALSE
  /\ access = [op |-> "none"]

-----------------------------------------------------------------------------

(* The bytes pm_read() lays out before it copies; always in ACPI mode.     *)
Regs == <<sts.lo, sts.hi, en.lo, en.hi, cnt.lo \cup {File!SCI_EN}, cnt.hi>>

pm_read(a) ==
  /\ access' = [op |-> "read", bytes |-> [k \in File!Covered(a) |-> Regs[k + 1]]]
  /\ UNCHANGED <<sts, en, cnt, poweroff>>

ClearSts(v) ==
  /\ sts' = [lo |-> sts.lo \ v.lo, hi |-> sts.hi \ v.hi]
  /\ UNCHANGED <<en, cnt, poweroff>>

SetEn(v) == en' = v /\ UNCHANGED <<sts, cnt, poweroff>>

(* Mutant: SLP_TYP alone powers off; ACPICA writes it once before SLP_EN.  *)
SetCntByType(v) ==
  /\ UNCHANGED <<sts, en>>
  /\ IF File!S5 \in v.hi
     THEN poweroff' = TRUE /\ UNCHANGED cnt
     ELSE /\ cnt' = [v EXCEPT !.hi = @ \ {File!SLP_EN}]
          /\ UNCHANGED poweroff

SetCnt(v) ==
  /\ UNCHANGED <<sts, en>>
  /\ IF {File!S5, File!SLP_EN} \subseteq v.hi
     THEN poweroff' = TRUE /\ UNCHANGED cnt
     ELSE /\ cnt' = [v EXCEPT !.hi = @ \ {File!SLP_EN}]
          /\ UNCHANGED poweroff

(* pm_write() takes the offset of the access for the register, whatever    *)
(* its size, and a byte for a word whose upper half is 0.                  *)
pm_write(a, v) ==
  /\ a.size = 1 => v.hi = {}
  /\ access' = [op    |-> "write",
                bytes |-> [k \in File!Covered(a) |-> IF k = a.off THEN v.lo ELSE v.hi]]
  /\ \/ a.off = 0 /\ ClearSts(v)
     \/ a.off = 2 /\ SetEn(v)
     \/ a.off = 4 /\ SetCnt(v)
     \/ a.off \notin {0, 2, 4} /\ UNCHANGED <<sts, en, cnt, poweroff>>

Next == \E a \in Accesses : pm_read(a) \/ \E v \in Word : pm_write(a, v)

Spec == Init /\ [][Next]_vars

-----------------------------------------------------------------------------

(* acpi.c:317-318: the block is a register file of six bytes; only a write *)
(* of SLP_TYP for S5 together with SLP_EN powers off, and SLP_EN is never  *)
(* stored (acpi.c:350-355).                                                *)
IsRegisterFile == File!Spec

(* The same, but for writes of single bytes, which may store something     *)
(* else, and yet never power off: all reads and the writes of whole        *)
(* registers are those of the register file.  ACPICA writes SLP_TYP alone  *)
(* before SLP_EN, and the machine stays on.                                *)
ByteWritten  == access.op = "write" /\ \A k, l \in DOMAIN access.bytes : k = l
WordsAreFile == [][(ByteWritten' /\ UNCHANGED poweroff) \/ File!Next]_vars
=============================================================================
