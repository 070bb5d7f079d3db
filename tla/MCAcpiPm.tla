------------------------------ MODULE MCAcpiPm ------------------------------
(* AcpiPm alone, with accesses by the byte and by the word.                *)
EXTENDS AcpiPm
=============================================================================
