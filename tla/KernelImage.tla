----------------------------- MODULE KernelImage -----------------------------
(***************************************************************************)
(* What boot_linux() of src/main.c relies on when kernel_load() succeeds:  *)
(* the image lies in RAM, its extent is exactly that of the ranges that    *)
(* were written, and an ELF kernel is entered at a byte that was loaded.   *)
(***************************************************************************)
EXTENDS Naturals

VARIABLES
  ram,       (* size of RAM                                                *)
  loaded,    (* the ranges [lo, hi) of RAM that were written               *)
  image      (* its format, or "none" or "failed"; its extent and entry    *)

Init ==
  /\ ram \in Nat
  /\ loaded = {}
  /\ image = [fmt |-> "none"]

InRange(x, r) == r.lo <= x /\ x < r.hi

Valid(img, ranges, size) ==
  /\ img.fmt \in {"elf", "bzImage"}
  /\ img.lo < img.hi /\ img.hi <= size
  /\ \A r \in ranges : img.lo <= r.lo /\ r.hi <= img.hi
  /\ \E r \in ranges : r.lo = img.lo
  /\ \E r \in ranges : r.hi = img.hi
  /\ img.fmt = "elf" => \E r \in ranges : InRange(img.entry, r)

CreateRam == image.fmt = "none" /\ loaded = {} /\ ram' \in Nat /\ UNCHANGED <<loaded, image>>

(* Every range is written inside RAM, also when loading fails later.       *)
Load ==
  /\ image.fmt = "none"
  /\ loaded \subseteq loaded'
  /\ \A r \in loaded' : r.lo < r.hi /\ r.hi <= ram
  /\ UNCHANGED <<ram, image>>

Finish ==
  /\ image.fmt = "none"
  /\ loaded \subseteq loaded'
  /\ image' = [fmt |-> "failed"] \/ Valid(image', loaded', ram)
  /\ UNCHANGED ram

Next == CreateRam \/ Load \/ Finish

Spec == Init /\ [][Next]_<<ram, loaded, image>>
=============================================================================
