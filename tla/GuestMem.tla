------------------------------- MODULE GuestMem -------------------------------
(***************************************************************************)
(* Guest physical memory: the slot table of src/mem.c and the translation  *)
(* of guest physical to host virtual addresses that every access of the    *)
(* VMM to guest memory goes through.                                       *)
(*                                                                         *)
(* Guest addresses and lengths are uint64_t: sums are taken modulo Top.    *)
(* Host memory is a set of areas, far enough apart to hold a region each.  *)
(* External: mmap, and KVM_SET_USER_MEMORY_REGION, which may refuse a new  *)
(* region; a slot that it has it is taken to give up.                      *)
(***************************************************************************)
EXTENDS Integers, FiniteSets

CONSTANTS
  Top,        (* 2^64                                                      *)
  Page,       (* PAGE_SIZE                                                 *)
  MaxSlots,   (* VMM_MEM_MAX_SLOTS                                         *)
  Areas       (* the addresses of host memory areas, page aligned          *)

ASSUME SizesAssumption ==
  /\ Top \in Nat /\ Page \in Nat \ {0} /\ Page < Top /\ Top % Page = 0
  /\ MaxSlots \in Nat \ {0}

ASSUME AreasAssumption == Areas \subseteq Nat

Addr == 0 .. Top - 1
Slot == 0 .. MaxSlots - 1
NULL == -1

VARIABLES
  slots,      (* m->slots                                                  *)
  nr_slots,
  ram_size,   (* set by mem_init(), 0 before                               *)
  kvm,        (* external: the region KVM has in each slot, if any         *)
  mapped,     (* external: the areas this module has mapped                *)
  mem_pc,     (* the next statement of mem_destroy(), or idle              *)
  mem_i       (* its loop index                                            *)

destroy == <<mem_pc, mem_i>>
vars == <<slots, nr_slots, ram_size, kvm, mapped, destroy>>

Region == [gpa : Addr, size : Addr, hva : Areas \cup {NULL}]
Nothing == [gpa |-> 0, size |-> 0, hva |-> NULL]

TypeOK ==
  /\ slots \in [Slot -> [used : BOOLEAN, mmap_owned : BOOLEAN, region : Region]]
  /\ nr_slots \in Nat
  /\ ram_size \in Addr
  /\ kvm \in [Slot -> Region]
  /\ mapped \subseteq Areas
  /\ mem_pc \in {"idle", "slot", "unmap", "free"} /\ mem_i \in 0 .. MaxSlots

Init ==
  /\ slots = [s \in Slot |-> [used |-> FALSE, mmap_owned |-> FALSE, region |-> Nothing]]
  /\ nr_slots = 0 /\ ram_size = 0
  /\ kvm = [s \in Slot |-> Nothing]
  /\ mapped = {}
  /\ mem_pc = "idle" /\ mem_i = 0

Used == {s \in Slot : slots[s].used}
Gpa(s) == slots[s].region.gpa
Size(s) == slots[s].region.size

-----------------------------------------------------------------------------

Plus(a, b) == (a + b) % Top                     \* uint64_t addition

AlignUp(x) == LET y == Plus(x, Page - 1) IN y - (y % Page)

End(s) == Plus(Gpa(s), Size(s))

(* Mutant: only a region that begins inside another one is refused.        *)
AcceptableByStart(gpa, size) ==
  /\ size > 0 /\ gpa % Page = 0 /\ size % Page = 0
  /\ \A s \in Used : ~(gpa < End(s) /\ Gpa(s) <= gpa)
  /\ Used # Slot

(* The checks of mem_add_region() up to the search for a free slot.        *)
Acceptable(gpa, size) ==
  /\ size > 0 /\ gpa % Page = 0 /\ size % Page = 0
  /\ \A s \in Used : ~(gpa < End(s) /\ Gpa(s) < Plus(gpa, size))
  /\ Used # Slot

FirstFree == CHOOSE s \in Slot \ Used : \A t \in Slot \ Used : s <= t

(* The slot is filled in and KVM asked to map it.                          *)
Enter(gpa, size, hva, owned) ==
  /\ slots' = [slots EXCEPT ![FirstFree] =
                 [used |-> TRUE, mmap_owned |-> owned,
                  region |-> [gpa |-> gpa, size |-> size, hva |-> hva]]]
  /\ kvm' = [kvm EXCEPT ![FirstFree] = [gpa |-> gpa, size |-> size, hva |-> hva]]
  /\ nr_slots' = nr_slots + 1

(* Mutant: used is not taken back when KVM refuses.                        *)
EnterRefusedUsed(gpa, size, hva, owned) ==
  /\ slots' = [slots EXCEPT ![FirstFree] =
                 [used |-> TRUE, mmap_owned |-> owned,
                  region |-> [gpa |-> gpa, size |-> size, hva |-> hva]]]
  /\ UNCHANGED <<kvm, nr_slots>>

EnterRefused(gpa, size, hva, owned) ==
  /\ slots' = [slots EXCEPT ![FirstFree] =
                 [used |-> FALSE, mmap_owned |-> owned,
                  region |-> [gpa |-> gpa, size |-> size, hva |-> hva]]]
  /\ UNCHANGED <<kvm, nr_slots>>

(* mem_add_region() of memory the caller manages.  Callers pass an area of *)
(* their own that does not reach the end of the address space.             *)
AddRegion(gpa, size, hva) ==
  /\ mem_pc = "idle"
  /\ gpa + size < Top
  /\ hva \notin mapped /\ \A s \in Used : slots[s].region.hva # hva
  /\ Acceptable(gpa, size)
  /\ Enter(gpa, size, hva, FALSE) \/ EnterRefused(gpa, size, hva, FALSE)
  /\ UNCHANGED <<ram_size, mapped, destroy>>

(* mem_init(): map the RAM and enter it at 0; unmap it if that fails.      *)
(* Rounding up may wrap to 0, which mmap refuses.                          *)
MemInit(size, hva) ==
  LET rounded == AlignUp(size) IN
  /\ mem_pc = "idle" /\ ram_size = 0 /\ mapped = {} /\ Used = {}
  /\ rounded > 0
  /\ Acceptable(0, rounded)
  /\ \/ /\ Enter(0, rounded, hva, TRUE)
        /\ mapped' = mapped \cup {hva}
        /\ ram_size' = rounded
     \/ /\ EnterRefused(0, rounded, hva, TRUE)
        /\ UNCHANGED <<mapped, ram_size>>
  /\ UNCHANGED destroy

BeginDestroy ==
  /\ mem_pc = "idle" /\ mem_pc' = "slot" /\ mem_i' = 0
  /\ UNCHANGED <<slots, nr_slots, ram_size, kvm, mapped>>

SkipFree ==
  /\ mem_pc = "slot" /\ mem_i \in Slot \ Used /\ mem_i' = mem_i + 1
  /\ UNCHANGED <<slots, nr_slots, ram_size, kvm, mapped, mem_pc>>

(* The call of KVM with size 0.  Where a slot is used the VM is open, so   *)
(* that the test of vm_fd always holds.                                    *)
Deregister(from, to) ==
  /\ mem_pc = from /\ mem_i \in Used /\ mem_pc' = to
  /\ kvm' = [kvm EXCEPT ![mem_i] = Nothing]
  /\ UNCHANGED <<slots, nr_slots, ram_size, mapped, mem_i>>

Unmap(from, to) ==
  /\ mem_pc = from /\ mem_i \in Used /\ mem_pc' = to
  /\ mapped' = IF slots[mem_i].mmap_owned THEN mapped \ {slots[mem_i].region.hva}
                                          ELSE mapped
  /\ UNCHANGED <<slots, nr_slots, ram_size, kvm, mem_i>>

FreeSlot ==
  /\ mem_pc = "free" /\ mem_pc' = "slot" /\ mem_i' = mem_i + 1
  /\ slots' = [slots EXCEPT ![mem_i].used = FALSE]
  /\ UNCHANGED <<nr_slots, ram_size, kvm, mapped>>

EndDestroy ==
  /\ mem_pc = "slot" /\ mem_i = MaxSlots
  /\ nr_slots' = 0 /\ mem_pc' = "idle" /\ mem_i' = 0
  /\ UNCHANGED <<slots, ram_size, kvm, mapped>>

(* Mutant: memory is unmapped first and then taken from KVM.               *)
MemDestroyUnmapsFirst ==
  \/ BeginDestroy \/ SkipFree
  \/ Unmap("slot", "unmap") \/ Deregister("unmap", "free")
  \/ FreeSlot \/ EndDestroy

(* A step of mem_destroy(): a used slot leaves KVM, then its memory is     *)
(* unmapped if it is this module's, then the slot is free.                 *)
MemDestroy ==
  \/ BeginDestroy \/ SkipFree
  \/ Deregister("slot", "unmap") \/ Unmap("unmap", "free")
  \/ FreeSlot \/ EndDestroy

Next ==
  \/ \E gpa, size \in Addr, hva \in Areas : AddRegion(gpa, size, hva)
  \/ \E size \in Addr, hva \in Areas : MemInit(size, hva)
  \/ MemDestroy

Spec == Init /\ [][Next]_vars

-----------------------------------------------------------------------------

(* mem_find_slot(): the first used slot with the address, if any.          *)
Holds(s, gpa) == s \in Used /\ gpa >= Gpa(s) /\ gpa < End(s)

mem_find_slot(gpa) ==
  IF \E s \in Slot : Holds(s, gpa)
  THEN CHOOSE s \in Slot : Holds(s, gpa) /\ \A t \in Slot : t < s => ~Holds(t, gpa)
  ELSE NULL

(* Mutant: the sum is not checked for a wrap around.                       *)
gpa_to_hva_wrapping(gpa, len) ==
  LET s == mem_find_slot(gpa) IN
  IF len = 0 \/ s = NULL THEN NULL
  ELSE IF Plus(gpa, len) > End(s)
  THEN NULL
  ELSE slots[s].region.hva + (gpa - Gpa(s))

gpa_to_hva(gpa, len) ==
  LET s == mem_find_slot(gpa) IN
  IF len = 0 \/ Plus(gpa, len) < gpa \/ s = NULL THEN NULL
  ELSE IF Plus(gpa, len) > End(s)
  THEN NULL
  ELSE slots[s].region.hva + (gpa - Gpa(s))

-----------------------------------------------------------------------------

(* No byte of guest memory is in two slots (mem.c:36-51), whatever mix of  *)
(* calls, refusals and destruction came before.                            *)
SlotsDisjoint ==
  \A s, t \in Used :
    s # t => Gpa(s) + Size(s) <= Gpa(t) \/ Gpa(t) + Size(t) <= Gpa(s)

(* What mem_destroy() has already done with the slot it is at.             *)
Left     == IF mem_pc \in {"unmap", "free"} THEN {mem_i} ELSE {}
Unmapped == IF mem_pc = "free" THEN {mem_i} ELSE {}

(* The table, KVM and the host agree: KVM has exactly the used slots, and  *)
(* what this module mapped is what it would unmap (mem.c:70-77, :110-114). *)
(* While mem_destroy() runs that holds up to the slot it is at, and the    *)
(* count is stale until it ends (mem.c:120-139).                           *)
TablesAgree ==
  /\ kvm = [s \in Slot |-> IF s \in Used \ Left THEN slots[s].region ELSE Nothing]
  /\ mem_pc = "idle" => nr_slots = Cardinality(Used)
  /\ mapped = {slots[s].region.hva : s \in {u \in Used \ Unmapped : slots[u].mmap_owned}}

(* memory.h:50-53: a translation succeeds exactly for a non-empty range    *)
(* that lies in one slot, without any wrap around, and leads to the same   *)
(* place of that slot's memory.                                            *)
Translation ==
  \A gpa, len \in Addr :
    LET InSlot(s) == len > 0 /\ Gpa(s) <= gpa /\ gpa + len <= Gpa(s) + Size(s)
        hva == gpa_to_hva(gpa, len)
    IN /\ \A s \in Used : InSlot(s) => hva = slots[s].region.hva + (gpa - Gpa(s))
       /\ hva # NULL => \E s \in Used : InSlot(s)
=============================================================================
