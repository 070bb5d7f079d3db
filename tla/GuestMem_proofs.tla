--------------------------- MODULE GuestMem_proofs ---------------------------
(***************************************************************************)
(* The safety of GuestMem for every address space, page size, number of    *)
(* slots and host memory: regions never overlap, and gpa_to_hva() succeeds *)
(* exactly on the ranges that lie in one of them, and the table, KVM and   *)
(* the host agree on what is mapped.                                       *)
(***************************************************************************)
EXTENDS GuestMem, FiniteSetTheorems, WellFoundedInduction, TLAPS

(* Used regions end before the address space does.                         *)
NoWrap == \A s \in Used : Gpa(s) + Size(s) < Top

(* How far mem_destroy() is: the slots behind its index are free, and the  *)
(* one it is working on is not free yet.                                   *)
Freed ==
  /\ mem_pc = "slot" => \A s \in Used : mem_i <= s
  /\ mem_pc \in {"unmap", "free"} => mem_i \in Used /\ \A s \in Used : mem_i <= s

(* Only mem_init() maps memory, and only once.                             *)
OneOwner ==
  \A s, t \in Used : slots[s].mmap_owned /\ slots[t].mmap_owned => s = t

IInv == TypeOK /\ NoWrap /\ SlotsDisjoint /\ Freed /\ OneOwner

(* uint64_t addition is addition unless the sum is 2^64 or more, and then  *)
(* it is smaller than either operand.                                      *)
LEMMA PlusValue ==
  ASSUME NEW a \in Addr, NEW b \in Addr
  PROVE  /\ Plus(a, b) \in Addr
         /\ a + b < Top => Plus(a, b) = a + b
         /\ a + b >= Top => Plus(a, b) = a + b - Top
<1> USE SizesAssumption DEF SizesAssumption, Addr
<1>1. CASE a + b < Top
  <2>1. (a + b) % Top = a + b
    BY <1>1
  <2> QED BY <1>1, <2>1 DEF Plus
<1>2. CASE a + b >= Top
  <2>1. a + b - Top \in 0 .. Top - 1
    BY <1>2
  <2>2. (a + b) % Top = a + b - Top
    BY <1>2, <2>1
  <2> QED BY <1>2, <2>1, <2>2 DEF Plus
<1> QED BY <1>1, <1>2

(* Rounding up to a page yields an address, 0 after a wrap around.         *)
LEMMA AlignUpType ==
  ASSUME NEW x \in Addr
  PROVE  AlignUp(x) \in Addr
<1> USE SizesAssumption DEF SizesAssumption
<1>1. Page - 1 \in Addr
  BY DEF Addr
<1>2. Plus(x, Page - 1) \in Addr
  BY <1>1, PlusValue
<1> DEFINE y == Plus(x, Page - 1)
<1>3. y % Page \in 0 .. y
  <2>1. y \in Nat
    BY <1>2 DEF Addr
  <2> HIDE DEF y
  <2> QED BY <2>1
<1>4. AlignUp(x) = y - (y % Page)
  BY DEF AlignUp
<1> HIDE DEF y
<1>5. y \in Addr
  BY <1>2 DEF y
<1> QED BY <1>3, <1>4, <1>5 DEF Addr

(* A size that is rounded up is no smaller, or wraps around to 0.          *)
LEMMA AlignUpGrows ==
  ASSUME NEW x \in Addr
  PROVE  AlignUp(x) = 0 \/ AlignUp(x) >= x
<1> DEFINE y == Plus(x, Page - 1)
<1>1. /\ Page \in Nat \ {0} /\ Top \in Nat /\ Page < Top /\ x \in 0 .. Top - 1
      /\ Page - 1 \in Addr
  BY SizesAssumption DEF SizesAssumption, Addr
<1>2. /\ y \in Nat
      /\ y = x + (Page - 1) \/ y = x + (Page - 1) - Top
  BY <1>1, PlusValue DEF Addr
<1>3. AlignUp(x) = y - (y % Page)
  BY DEF AlignUp
<1> HIDE DEF y
<1>4. y % Page \in 0 .. Page - 1
  BY <1>1, <1>2
<1>5. CASE y = x + (Page - 1)
  BY <1>1, <1>3, <1>4, <1>5
<1>6. CASE y = x + (Page - 1) - Top
  <2>1. y < Page
    BY <1>1, <1>6
  <2>2. y % Page = y
    BY <1>1, <1>2, <2>1
  <2> QED BY <1>2, <1>3, <2>2
<1> QED BY <1>2, <1>5, <1>6

(* A fresh VM satisfies the invariant.                                     *)
LEMMA Initially == Init => IInv
<1> SUFFICES ASSUME Init PROVE IInv
  OBVIOUS
<1> USE SizesAssumption DEF SizesAssumption, Init, Addr
<1>1. Nothing \in Region
  BY DEF Nothing, Region
<1>2. TypeOK
  BY <1>1 DEF TypeOK
<1>3. Used = {}
  BY DEF Used
<1>4. Freed
  BY DEF Freed
<1> QED BY <1>2, <1>3, <1>4 DEF IInv, NoWrap, SlotsDisjoint, OneOwner

(* Entering an acceptable region that does not wrap around, with or        *)
(* without KVM's consent, keeps the regions apart.                         *)
LEMMA EnterKeeps ==
  ASSUME IInv, NEW gpa \in Addr, NEW size \in Addr, NEW hva \in Areas,
         NEW owned \in BOOLEAN,
         gpa + size < Top, Acceptable(gpa, size),
         Enter(gpa, size, hva, owned) \/ EnterRefused(gpa, size, hva, owned),
         ram_size' \in Addr, mapped' \subseteq Areas,
         mem_pc = "idle", UNCHANGED destroy, ~owned \/ Used = {}
  PROVE  IInv'
<1> DEFINE new == [gpa |-> gpa, size |-> size, hva |-> hva]
           f == FirstFree
<1> HIDE DEF f
<1>1. new \in Region
  BY DEF Region
<1>2. /\ slots \in [Slot -> [used : BOOLEAN, mmap_owned : BOOLEAN, region : Region]]
      /\ kvm \in [Slot -> Region]
      /\ nr_slots \in Nat
  BY DEF IInv, TypeOK
<1>3. PICK u \in BOOLEAN :
        slots' = [slots EXCEPT ![f] = [used |-> u, mmap_owned |-> owned, region |-> new]]
  BY DEF Enter, EnterRefused, f
<1>4. slots' \in [Slot -> [used : BOOLEAN, mmap_owned : BOOLEAN, region : Region]]
  BY <1>1, <1>2, <1>3
<1>5. kvm' \in [Slot -> Region]
  BY <1>1, <1>2 DEF Enter, EnterRefused
<1>6. \A s \in Slot :
        \/ s # f /\ slots'[s] = slots[s]
        \/ s = f /\ slots'[s].region = new
  BY <1>2, <1>3
<1>7. \A s \in Used' :
        \/ s # f /\ s \in Used /\ Gpa(s)' = Gpa(s) /\ Size(s)' = Size(s)
        \/ s = f /\ Gpa(s)' = gpa /\ Size(s)' = size
  BY <1>6 DEF Used, Gpa, Size
<1>8. \A s \in Used : Gpa(s) \in Addr /\ Size(s) \in Addr /\ End(s) = Gpa(s) + Size(s)
  <2> SUFFICES ASSUME NEW s \in Used
               PROVE  Gpa(s) \in Addr /\ Size(s) \in Addr /\ End(s) = Gpa(s) + Size(s)
    OBVIOUS
  <2>1. Gpa(s) \in Addr /\ Size(s) \in Addr
    BY <1>2 DEF Used, Gpa, Size, Region
  <2>2. Gpa(s) + Size(s) < Top
    BY DEF IInv, NoWrap
  <2> QED BY <2>1, <2>2, PlusValue DEF End
<1>9. Plus(gpa, size) = gpa + size
  BY PlusValue
<1>10. \A s \in Used : gpa + size <= Gpa(s) \/ Gpa(s) + Size(s) <= gpa
  BY <1>8, <1>9 DEF Acceptable, Addr
<1>11. NoWrap'
  BY <1>7 DEF IInv, NoWrap
<1>12. SlotsDisjoint'
  BY <1>7, <1>10 DEF IInv, SlotsDisjoint
<1>13. nr_slots' \in Nat
  BY <1>2 DEF Enter, EnterRefused
<1>14. Freed'
  BY DEF Freed, destroy
<1>15. OneOwner'
  <2>1. \A s \in Slot :
          \/ s # f /\ slots'[s] = slots[s]
          \/ s = f /\ slots'[s].mmap_owned = owned
    BY <1>2, <1>3
  <2>2. \A s \in Used' : s \in Slot /\ (s # f => s \in Used /\ slots'[s] = slots[s])
    BY <1>6, <2>1 DEF Used
  <2>3. \A s \in Used : slots[s].mmap_owned \in BOOLEAN
    BY <1>2 DEF Used
  <2>4. CASE ~owned
    BY <2>1, <2>2, <2>4 DEF IInv, OneOwner
  <2>5. CASE Used = {}
    BY <2>1, <2>2, <2>5 DEF OneOwner
  <2> QED BY <2>4, <2>5
<1> QED BY <1>4, <1>5, <1>11, <1>12, <1>13, <1>14, <1>15 DEF IInv, TypeOK, destroy

(* The regions that a step of mem_destroy() leaves were there before.      *)
LEMMA FewerKeep ==
  ASSUME NoWrap, SlotsDisjoint, OneOwner,
         \A s \in Used' : s \in Used /\ slots'[s] = slots[s]
  PROVE  (NoWrap /\ SlotsDisjoint /\ OneOwner)'
<1>1. \A s \in Used' : s \in Used /\ Gpa(s)' = Gpa(s) /\ Size(s)' = Size(s)
  BY DEF Gpa, Size
<1> QED BY <1>1 DEF NoWrap, SlotsDisjoint, OneOwner

(* Every step of mem_destroy() keeps the invariant.                        *)
LEMMA DestroyKeeps ==
  ASSUME IInv, MemDestroy
  PROVE  IInv'
<1> USE SizesAssumption DEF SizesAssumption
<1>1. /\ slots \in [Slot -> [used : BOOLEAN, mmap_owned : BOOLEAN, region : Region]]
      /\ kvm \in [Slot -> Region] /\ Nothing \in Region
      /\ mem_i \in 0 .. MaxSlots /\ mapped \subseteq Areas
      /\ Used \subseteq Slot /\ Slot = 0 .. MaxSlots - 1
  BY DEF IInv, TypeOK, Nothing, Region, Addr, Used, Slot
<1>2. CASE UNCHANGED slots
  <2>1. Used' = Used /\ \A s \in Used' : s \in Used /\ slots'[s] = slots[s]
    BY <1>2 DEF Used
  <2>2. (NoWrap /\ SlotsDisjoint /\ OneOwner)'
    BY <2>1, FewerKeep DEF IInv
  <2>3. CASE BeginDestroy
    <3>1. TypeOK'
      BY <2>3 DEF BeginDestroy, IInv, TypeOK
    <3>2. Freed'
      BY <1>1, <2>1, <2>3 DEF BeginDestroy, Freed
    <3> QED BY <2>2, <3>1, <3>2 DEF IInv
  <2>4. CASE SkipFree
    <3>1. mem_i' \in 0 .. MaxSlots
      BY <1>1, <2>4 DEF SkipFree
    <3>2. TypeOK'
      BY <2>4, <3>1 DEF SkipFree, IInv, TypeOK
    <3>3. Freed'
      BY <1>1, <2>1, <2>4 DEF SkipFree, IInv, Freed
    <3> QED BY <2>2, <3>2, <3>3 DEF IInv
  <2>5. CASE Deregister("slot", "unmap")
    <3>1. kvm' \in [Slot -> Region]
      BY <1>1, <2>5 DEF Deregister
    <3>2. TypeOK'
      BY <2>5, <3>1 DEF Deregister, IInv, TypeOK
    <3>3. Freed'
      BY <2>1, <2>5 DEF Deregister, IInv, Freed
    <3> QED BY <2>2, <3>2, <3>3 DEF IInv
  <2>6. CASE Unmap("unmap", "free")
    <3>1. mapped' \subseteq Areas
      BY <1>1, <2>6 DEF Unmap
    <3>2. TypeOK'
      BY <2>6, <3>1 DEF Unmap, IInv, TypeOK
    <3>3. Freed'
      BY <2>1, <2>6 DEF Unmap, IInv, Freed
    <3> QED BY <2>2, <3>2, <3>3 DEF IInv
  <2>7. CASE EndDestroy
    <3>1. TypeOK'
      BY <2>7 DEF EndDestroy, IInv, TypeOK
    <3>2. Freed'
      BY <2>7 DEF EndDestroy, Freed
    <3> QED BY <2>2, <3>1, <3>2 DEF IInv
  <2>8. CASE FreeSlot
    <3>1. mem_i \in Used /\ mem_pc = "free"
      BY <2>8 DEF FreeSlot, IInv, Freed
    <3>2. slots'[mem_i].used = FALSE
      BY <1>1, <2>8, <3>1 DEF FreeSlot
    <3> QED BY <1>2, <3>1, <3>2 DEF Used
  <2> QED BY <2>3, <2>4, <2>5, <2>6, <2>7, <2>8 DEF MemDestroy
<1>3. CASE FreeSlot
  <2>1. /\ mem_pc = "free" /\ mem_i \in Used /\ (\A s \in Used : mem_i <= s)
        /\ slots' = [slots EXCEPT ![mem_i].used = FALSE]
        /\ mem_pc' = "slot" /\ mem_i' = mem_i + 1
    BY <1>3 DEF FreeSlot, IInv, Freed
  <2>2. /\ slots' \in [Slot -> [used : BOOLEAN, mmap_owned : BOOLEAN, region : Region]]
        /\ ~slots'[mem_i].used
        /\ \A s \in Slot \ {mem_i} : slots'[s] = slots[s]
    BY <1>1, <2>1
  <2>3. mem_i' \in 0 .. MaxSlots
    BY <1>1, <2>1
  <2>4. TypeOK'
    BY <1>3, <2>2, <2>3 DEF FreeSlot, IInv, TypeOK
  <2>5. \A s \in Used' : s \in Used /\ s # mem_i /\ slots'[s] = slots[s]
    BY <2>2 DEF Used
  <2>6. (NoWrap /\ SlotsDisjoint /\ OneOwner)'
    BY <2>5, FewerKeep DEF IInv
  <2>7. Freed'
    BY <1>1, <2>1, <2>5 DEF Freed
  <2> QED BY <2>4, <2>6, <2>7 DEF IInv
<1> QED BY <1>2, <1>3 DEF MemDestroy, BeginDestroy, SkipFree, Deregister, Unmap, EndDestroy

(* The invariant holds in every reachable state.                           *)
THEOREM Invariance == Spec => []IInv
<1>1. IInv /\ [Next]_vars => IInv'
  <2> SUFFICES ASSUME IInv, [Next]_vars PROVE IInv'
    OBVIOUS
  <2>1. ASSUME NEW gpa \in Addr, NEW size \in Addr, NEW hva \in Areas,
               AddRegion(gpa, size, hva)
        PROVE  IInv'
    <3>1. ram_size' \in Addr /\ mapped' \subseteq Areas
          /\ mem_pc = "idle" /\ UNCHANGED destroy
      BY <2>1 DEF AddRegion, IInv, TypeOK
    <3> QED BY <2>1, <3>1, EnterKeeps DEF AddRegion
  <2>2. ASSUME NEW size \in Addr, NEW hva \in Areas, MemInit(size, hva)
        PROVE  IInv'
    <3>1. AlignUp(size) \in Addr /\ 0 \in Addr /\ 0 + AlignUp(size) < Top
      BY AlignUpType, SizesAssumption DEF SizesAssumption, Addr
    <3>2. ram_size' \in Addr /\ mapped' \subseteq Areas
          /\ mem_pc = "idle" /\ UNCHANGED destroy /\ Used = {}
      BY <2>2, <3>1 DEF MemInit, IInv, TypeOK
    <3>3. /\ Acceptable(0, AlignUp(size))
          /\ \/ Enter(0, AlignUp(size), hva, TRUE)
             \/ EnterRefused(0, AlignUp(size), hva, TRUE)
      BY <2>2 DEF MemInit
    <3> QED BY <3>1, <3>2, <3>3, EnterKeeps
  <2>3. CASE MemDestroy
    BY <2>3, DestroyKeeps
  <2>4. CASE UNCHANGED vars
    <3>1. UNCHANGED <<slots, mem_pc, mem_i>>
      BY <2>4 DEF vars, destroy
    <3>2. Used' = Used /\ \A s \in Used' : s \in Used /\ slots'[s] = slots[s]
      BY <3>1 DEF Used
    <3>3. (NoWrap /\ SlotsDisjoint /\ OneOwner)'
      BY <3>2, FewerKeep DEF IInv
    <3>4. TypeOK' /\ Freed'
      BY <2>4, <3>1, <3>2 DEF vars, destroy, IInv, TypeOK, Freed
    <3> QED BY <3>3, <3>4 DEF IInv
  <2> QED BY <2>1, <2>2, <2>3, <2>4 DEF Next
<1> QED BY Initially, <1>1, PTL DEF Spec

(* No byte of guest memory is in two slots, for every sequence of          *)
(* registrations, refusals and destructions (mem.c:36-51).                 *)
THEOREM Disjointness == Spec => []SlotsDisjoint
<1>1. IInv => SlotsDisjoint
  BY DEF IInv
<1> QED BY <1>1, Invariance, PTL

-----------------------------------------------------------------------------

(* In a state of the invariant an address is in at most one slot, and      *)
(* mem_find_slot() finds it.                                               *)
LEMMA FindSlot ==
  ASSUME IInv, NEW gpa \in Addr
  PROVE  LET In(s) == s \in Used /\ Gpa(s) <= gpa /\ gpa < Gpa(s) + Size(s)
         IN /\ \A s \in Slot : In(s) => mem_find_slot(gpa) = s
            /\ mem_find_slot(gpa) # NULL =>
                 mem_find_slot(gpa) \in Slot /\ In(mem_find_slot(gpa))
<1> DEFINE In(s) == s \in Used /\ Gpa(s) <= gpa /\ gpa < Gpa(s) + Size(s)
<1>1. \A s \in Used : Gpa(s) \in Int /\ Size(s) \in Int /\ End(s) = Gpa(s) + Size(s)
  <2> SUFFICES ASSUME NEW s \in Used
               PROVE  Gpa(s) \in Int /\ Size(s) \in Int /\ End(s) = Gpa(s) + Size(s)
    OBVIOUS
  <2>1. Gpa(s) \in Addr /\ Size(s) \in Addr
    BY DEF IInv, TypeOK, Used, Gpa, Size, Region
  <2>2. Gpa(s) + Size(s) < Top
    BY DEF IInv, NoWrap
  <2> QED BY <2>1, <2>2, PlusValue DEF End, Addr
<1>2. gpa \in Int
  BY DEF Addr
<1>3. \A s \in Slot : Holds(s, gpa) <=> In(s)
  BY <1>1, <1>2 DEF Holds
<1>4. \A s, t \in Slot : In(s) /\ In(t) => s = t
  BY <1>1, <1>2 DEF IInv, SlotsDisjoint
<1>5. \A s \in Slot : In(s) => s \in Int /\ s # NULL
  BY DEF Slot, NULL
<1>6. ASSUME NEW s \in Slot, In(s)
      PROVE  mem_find_slot(gpa) = s
  <2>1. \A t \in Slot : Holds(t, gpa) <=> t = s
    BY <1>3, <1>4, <1>6
  <2>2. \A t \in Slot : t < s => ~Holds(t, gpa)
    BY <2>1 DEF Slot
  <2> QED BY <2>1, <2>2 DEF mem_find_slot
<1>7. ASSUME mem_find_slot(gpa) # NULL
      PROVE  \E s \in Slot : In(s)
  BY <1>3, <1>7 DEF mem_find_slot
<1> QED BY <1>6, <1>7

(* gpa_to_hva() succeeds exactly on the non-empty ranges that lie in one   *)
(* slot and returns that slot's memory, for guest addresses and lengths up *)
(* to 2^64 - 1 (mem.c:153-172).                                            *)
THEOREM TranslationCorrect == Spec => []Translation
<1>1. IInv => Translation
  <2> SUFFICES ASSUME IInv, NEW gpa \in Addr, NEW len \in Addr
               PROVE
        LET InSlot(s) == len > 0 /\ Gpa(s) <= gpa /\ gpa + len <= Gpa(s) + Size(s)
            hva == gpa_to_hva(gpa, len)
        IN /\ \A s \in Used : InSlot(s) => hva = slots[s].region.hva + (gpa - Gpa(s))
           /\ hva # NULL => \E s \in Used : InSlot(s)
    BY DEF Translation
  <2> DEFINE InSlot(s) == len > 0 /\ Gpa(s) <= gpa /\ gpa + len <= Gpa(s) + Size(s)
             f == mem_find_slot(gpa)
  <2>1. \A s \in Used : /\ s \in Slot /\ s # NULL
                         /\ Gpa(s) \in Int /\ Size(s) \in Int
                         /\ Gpa(s) + Size(s) < Top
                         /\ End(s) = Gpa(s) + Size(s)
    <3> SUFFICES ASSUME NEW s \in Used
                 PROVE  /\ s \in Slot /\ s # NULL
                        /\ Gpa(s) \in Int /\ Size(s) \in Int
                        /\ Gpa(s) + Size(s) < Top
                        /\ End(s) = Gpa(s) + Size(s)
      OBVIOUS
    <3>1. s \in Slot /\ Gpa(s) \in Addr /\ Size(s) \in Addr
      BY DEF IInv, TypeOK, Used, Gpa, Size, Region
    <3>2. Gpa(s) + Size(s) < Top
      BY DEF IInv, NoWrap
    <3> QED BY <3>1, <3>2, PlusValue DEF End, Addr, Slot, NULL
  <2>2. gpa \in Int /\ len \in Int /\ Top \in Int
    BY SizesAssumption DEF SizesAssumption, Addr
  <2>3. /\ gpa + len < Top => Plus(gpa, len) = gpa + len
        /\ gpa + len >= Top => Plus(gpa, len) = gpa + len - Top /\ Plus(gpa, len) < gpa
    <3>1. /\ gpa + len < Top => Plus(gpa, len) = gpa + len
          /\ gpa + len >= Top => Plus(gpa, len) = gpa + len - Top
      BY PlusValue
    <3>2. len < Top
      BY <2>2, SizesAssumption DEF Addr, SizesAssumption
    <3> QED BY <2>2, <3>1, <3>2
  <2>4. ASSUME NEW s \in Used, InSlot(s)
        PROVE  gpa_to_hva(gpa, len) = slots[s].region.hva + (gpa - Gpa(s))
    <3>1. f = s
      BY <2>1, <2>2, <2>4, FindSlot
    <3>2. len # 0 /\ ~(Plus(gpa, len) < gpa) /\ ~(Plus(gpa, len) > End(s)) /\ s # NULL
      BY <2>1, <2>2, <2>3, <2>4
    <3> QED BY <3>1, <3>2 DEF gpa_to_hva
  <2>5. ASSUME gpa_to_hva(gpa, len) # NULL
        PROVE  \E s \in Used : InSlot(s)
    <3>1. len # 0 /\ ~(Plus(gpa, len) < gpa) /\ f # NULL /\ ~(Plus(gpa, len) > End(f))
      BY <2>5 DEF gpa_to_hva
    <3>2. f \in Used /\ Gpa(f) <= gpa
      BY <3>1, FindSlot
    <3>3. len > 0
      BY <3>1 DEF Addr
    <3> HIDE DEF f
    <3>4. InSlot(f)
      BY <2>1, <2>2, <2>3, <3>1, <3>2, <3>3
    <3> QED BY <3>2, <3>4
  <2> QED BY <2>4, <2>5
<1> QED BY <1>1, Invariance, PTL

-----------------------------------------------------------------------------
(* The slot table, KVM and the host agree.                                 *)

(* Every set of naturals that is not empty has a least element.            *)
LEMMA LeastNatural ==
  ASSUME NEW T \in SUBSET Nat, T # {}
  PROVE  \E x \in T : \A y \in T : x <= y
<1> DEFINE R == OpToRel(<, Nat)
<1>1. \A x, y \in Nat : y < x => <<y, x>> \in R
  BY DEF OpToRel
<1>2. IsWellFoundedOn(R, Nat)
  BY NatLessThanWellFounded, Zenon
<1> HIDE DEF R
<1>3. PICK x \in T : \A y \in T : <<y, x>> \notin R
  BY <1>2, WFMin
<1>4. \A y \in T : ~(y < x)
  BY <1>1, <1>3
<1>5. \A y \in T : x <= y
  BY <1>4
<1> QED
  BY <1>5

(* The search of mem_add_region() ends at a free slot if there is one.     *)
LEMMA FirstFreeIsFree ==
  ASSUME Used # Slot
  PROVE  FirstFree \in Slot \ Used
<1>1. Slot \ Used \in SUBSET Nat /\ Slot \ Used # {}
  BY DEF Slot, Used
<1> DEFINE T == Slot \ Used
<1>2. \E s \in T : \A t \in T : s <= t
  <2> HIDE DEF T
  <2>1. T \in SUBSET Nat /\ T # {}
    BY <1>1 DEF T
  <2> QED
    BY <2>1, LeastNatural
<1> QED
  BY <1>2 DEF FirstFree

(* The three tables one by one.                                            *)
KvmAgrees ==
  \A s \in Slot : kvm[s] = IF s \in Used \ Left THEN slots[s].region ELSE Nothing
Counted == mem_pc = "idle" => nr_slots = Cardinality(Used)
HostAgrees ==
  mapped = {slots[s].region.hva : s \in {u \in Used \ Unmapped : slots[u].mmap_owned}}

LEMMA TablesByName ==
  ASSUME TypeOK
  PROVE  TablesAgree <=> KvmAgrees /\ Counted /\ HostAgrees
<1>1. kvm \in [Slot -> Region]
  BY DEF TypeOK
<1>2. KvmAgrees <=> kvm = [s \in Slot |-> IF s \in Used \ Left THEN slots[s].region ELSE Nothing]
  BY <1>1 DEF KvmAgrees
<1> QED
  BY <1>2 DEF TablesAgree, Counted, HostAgrees

LEMMA UsedFinite == IsFiniteSet(Used) /\ Cardinality({}) = 0
<1>1. IsFiniteSet(Slot)
  BY FS_Interval, SizesAssumption DEF Slot, SizesAssumption
<1>2. Used \in SUBSET Slot
  BY DEF Used
<1> QED
  BY <1>1, <1>2, FS_Subset, FS_EmptySet

Agreement == TypeOK /\ KvmAgrees /\ Counted /\ HostAgrees

(* A region that KVM accepts enters a free slot, the count and, if the RAM *)
(* is this module's own, the mapped areas.                                 *)
LEMMA EnterAgrees ==
  ASSUME Agreement, NEW gpa \in Addr, NEW size \in Addr, NEW hva \in Areas,
         NEW owned \in BOOLEAN, Used # Slot, Enter(gpa, size, hva, owned),
         mem_pc = "idle", UNCHANGED destroy,
         mapped' = IF owned THEN mapped \cup {hva} ELSE mapped
  PROVE  (KvmAgrees /\ Counted /\ HostAgrees)'
<1> DEFINE f   == FirstFree
           new == [gpa |-> gpa, size |-> size, hva |-> hva]
           row == [used |-> TRUE, mmap_owned |-> owned, region |-> new]
<1>1. f \in Slot /\ f \notin Used
  BY FirstFreeIsFree
<1>2. /\ slots \in [Slot -> [used : BOOLEAN, mmap_owned : BOOLEAN, region : Region]]
      /\ kvm \in [Slot -> Region]
  BY DEF Agreement, TypeOK
<1>3. slots' = [slots EXCEPT ![f] = row] /\ kvm' = [kvm EXCEPT ![f] = new]
      /\ nr_slots' = nr_slots + 1
  BY DEF Enter
<1>4. row.used /\ row.mmap_owned = owned /\ row.region = new /\ new.hva = hva
  OBVIOUS
<1> HIDE DEF f, new, row
<1>5. /\ slots'[f] = row /\ kvm'[f] = new
      /\ \A s \in Slot \ {f} : slots'[s] = slots[s] /\ kvm'[s] = kvm[s]
  BY <1>1, <1>2, <1>3
<1>6. Used' = Used \cup {f}
  BY <1>1, <1>4, <1>5 DEF Used
<1>7. Left = {} /\ Left' = {} /\ Unmapped = {} /\ Unmapped' = {}
  BY DEF Left, Unmapped, destroy
<1>8. KvmAgrees'
  BY <1>1, <1>4, <1>5, <1>6, <1>7 DEF Agreement, KvmAgrees
<1>9. Counted'
  <2>1. Cardinality(Used \cup {f}) = Cardinality(Used) + 1
    BY <1>1, UsedFinite, FS_AddElement
  <2> QED
    BY <1>3, <1>6, <2>1 DEF Agreement, Counted, destroy
<1>10. HostAgrees'
  <2>1. \A s \in Used : s \in Slot \ {f}
    BY <1>1 DEF Used
  <2> QED
    BY <1>4, <1>5, <1>6, <1>7, <2>1 DEF Agreement, HostAgrees
<1> QED
  BY <1>8, <1>9, <1>10

(* A region that KVM refuses leaves no trace: the slot is free again.      *)
LEMMA RefusalAgrees ==
  ASSUME Agreement, NEW gpa \in Addr, NEW size \in Addr, NEW hva \in Areas,
         NEW owned \in BOOLEAN, Used # Slot, EnterRefused(gpa, size, hva, owned),
         mem_pc = "idle", UNCHANGED destroy, UNCHANGED mapped
  PROVE  (KvmAgrees /\ Counted /\ HostAgrees)'
<1> DEFINE f   == FirstFree
           row == [used |-> FALSE, mmap_owned |-> owned,
                   region |-> [gpa |-> gpa, size |-> size, hva |-> hva]]
<1>1. f \in Slot /\ f \notin Used
  BY FirstFreeIsFree
<1>2. slots \in [Slot -> [used : BOOLEAN, mmap_owned : BOOLEAN, region : Region]]
  BY DEF Agreement, TypeOK
<1>3. slots' = [slots EXCEPT ![f] = row] /\ kvm' = kvm /\ nr_slots' = nr_slots
  BY DEF EnterRefused
<1>4. ~row.used
  OBVIOUS
<1> HIDE DEF f, row
<1>5. slots'[f] = row /\ \A s \in Slot \ {f} : slots'[s] = slots[s]
  BY <1>1, <1>2, <1>3
<1>6. Used' = Used /\ \A s \in Used : slots'[s] = slots[s]
  BY <1>1, <1>4, <1>5 DEF Used
<1>7. Left = {} /\ Left' = {} /\ Unmapped = {} /\ Unmapped' = {}
  BY DEF Left, Unmapped, destroy
<1>8. KvmAgrees' /\ Counted'
  BY <1>3, <1>6, <1>7 DEF Agreement, KvmAgrees, Counted, destroy
<1>9. HostAgrees'
  BY <1>6, <1>7 DEF Agreement, HostAgrees
<1> QED
  BY <1>8, <1>9

(* mem_destroy() takes the slot it is at out of KVM, then its memory from  *)
(* the host, then the slot out of the table; the count comes last.         *)
LEMMA DestroyAgrees ==
  ASSUME IInv, Agreement, MemDestroy
  PROVE  (KvmAgrees /\ Counted /\ HostAgrees)'
<1>1. /\ slots \in [Slot -> [used : BOOLEAN, mmap_owned : BOOLEAN, region : Region]]
      /\ kvm \in [Slot -> Region] /\ Used \subseteq Slot
  BY DEF Agreement, TypeOK, Used
<1>2. KvmAgrees /\ Counted /\ HostAgrees
  BY DEF Agreement
<1>3. CASE BeginDestroy \/ SkipFree
  <2>1. /\ Used' = Used /\ UNCHANGED <<slots, kvm, mapped>> /\ mem_pc' = "slot"
        /\ Left = {} /\ Left' = {} /\ Unmapped = {} /\ Unmapped' = {}
    BY <1>3 DEF BeginDestroy, SkipFree, Used, Left, Unmapped
  <2> QED
    BY <1>2, <2>1 DEF KvmAgrees, Counted, HostAgrees
<1>4. CASE Deregister("slot", "unmap")
  <2>1. /\ Used' = Used /\ UNCHANGED <<slots, mapped>> /\ mem_pc' = "unmap"
        /\ Left = {} /\ Left' = {mem_i} /\ Unmapped = {} /\ Unmapped' = {}
        /\ mem_i \in Slot
    BY <1>1, <1>4 DEF Deregister, Used, Left, Unmapped
  <2>2. kvm'[mem_i] = Nothing /\ \A s \in Slot \ {mem_i} : kvm'[s] = kvm[s]
    BY <1>1, <1>4, <2>1 DEF Deregister
  <2>3. KvmAgrees'
    BY <1>2, <2>1, <2>2 DEF KvmAgrees
  <2> QED
    BY <1>2, <2>1, <2>3 DEF Counted, HostAgrees
<1>5. CASE Unmap("unmap", "free")
  <2>1. /\ Used' = Used /\ UNCHANGED <<slots, kvm>> /\ mem_pc' = "free"
        /\ Left = {mem_i} /\ Left' = {mem_i} /\ Unmapped = {} /\ Unmapped' = {mem_i}
        /\ mem_i \in Used
    BY <1>5 DEF Unmap, Used, Left, Unmapped
  <2>2. KvmAgrees' /\ Counted'
    BY <1>2, <2>1 DEF KvmAgrees, Counted
  <2>3. CASE slots[mem_i].mmap_owned
    <3>1. mapped' = mapped \ {slots[mem_i].region.hva}
      BY <1>5, <2>3 DEF Unmap
    <3>2. \A s \in Used : slots[s].mmap_owned => s = mem_i
      BY <2>1, <2>3 DEF IInv, OneOwner
    <3>3. mapped = {slots[mem_i].region.hva}
      BY <1>2, <2>1, <2>3, <3>2 DEF HostAgrees
    <3>4. {u \in Used \ {mem_i} : slots[u].mmap_owned} = {}
      BY <3>2
    <3> QED
      BY <2>1, <2>2, <3>1, <3>3, <3>4 DEF HostAgrees
  <2>4. CASE ~slots[mem_i].mmap_owned
    <3>1. mapped' = mapped
      BY <1>5, <2>4 DEF Unmap
    <3>2. {u \in Used : slots[u].mmap_owned} = {u \in Used \ {mem_i} : slots[u].mmap_owned}
      BY <2>4
    <3> QED
      BY <1>2, <2>1, <2>2, <3>1, <3>2 DEF HostAgrees
  <2> QED
    BY <2>3, <2>4
<1>6. CASE FreeSlot
  <2>1. /\ mem_pc = "free" /\ mem_pc' = "slot" /\ UNCHANGED <<kvm, mapped>>
        /\ Left = {mem_i} /\ Left' = {} /\ Unmapped = {mem_i} /\ Unmapped' = {}
        /\ mem_i \in Used
    BY <1>6 DEF FreeSlot, Left, Unmapped, IInv, Freed
  <2>2. ~slots'[mem_i].used /\ \A s \in Slot \ {mem_i} : slots'[s] = slots[s]
    BY <1>1, <1>6, <2>1 DEF FreeSlot
  <2>3. Used' = Used \ {mem_i} /\ \A s \in Used' : slots'[s] = slots[s]
    BY <2>2 DEF Used
  <2>4. KvmAgrees'
    BY <1>2, <2>1, <2>3 DEF KvmAgrees
  <2>5. HostAgrees'
    BY <1>2, <2>1, <2>3 DEF HostAgrees
  <2> QED
    BY <2>1, <2>4, <2>5 DEF Counted
<1>7. CASE EndDestroy
  <2>1. /\ Used' = Used /\ UNCHANGED <<slots, kvm, mapped>> /\ nr_slots' = 0
        /\ Left = {} /\ Left' = {} /\ Unmapped = {} /\ Unmapped' = {}
    BY <1>7 DEF EndDestroy, Used, Left, Unmapped
  <2>2. Used = {}
    BY <1>1, <1>7, SizesAssumption
       DEF EndDestroy, IInv, Freed, Slot, SizesAssumption
  <2> QED
    BY <1>2, <2>1, <2>2, UsedFinite DEF KvmAgrees, Counted, HostAgrees
<1> QED
  BY <1>3, <1>4, <1>5, <1>6, <1>7 DEF MemDestroy

(* The table, KVM and the host agree after every call, one that KVM        *)
(* refused included, and at every statement of mem_destroy(), up to the    *)
(* slot it is at (mem.c:70-77, :110-114, :120-139).                        *)
THEOREM Agreed == Spec => []TablesAgree
<1>1. Init => Agreement
  <2> SUFFICES ASSUME Init PROVE Agreement
    OBVIOUS
  <2>1. TypeOK
    BY Initially DEF IInv
  <2>2. Used = {}
    BY DEF Init, Used
  <2>3. KvmAgrees /\ HostAgrees
    BY <2>2 DEF Init, KvmAgrees, HostAgrees, Left, Unmapped
  <2>4. Counted
    BY <2>2, UsedFinite DEF Init, Counted
  <2> QED
    BY <2>1, <2>3, <2>4 DEF Agreement
<1>2. IInv /\ IInv' /\ Agreement /\ [Next]_vars => Agreement'
  <2> SUFFICES ASSUME IInv, IInv', Agreement, [Next]_vars
               PROVE  (KvmAgrees /\ Counted /\ HostAgrees)'
    BY DEF Agreement, IInv
  <2>1. ASSUME NEW gpa \in Addr, NEW size \in Addr, NEW hva \in Areas,
               AddRegion(gpa, size, hva)
        PROVE  (KvmAgrees /\ Counted /\ HostAgrees)'
    <3>1. /\ Used # Slot /\ mapped' = mapped
          /\ mem_pc = "idle" /\ UNCHANGED destroy
      BY <2>1 DEF AddRegion, Acceptable
    <3>2. Enter(gpa, size, hva, FALSE) \/ EnterRefused(gpa, size, hva, FALSE)
      BY <2>1 DEF AddRegion
    <3> QED
      BY <3>1, <3>2, EnterAgrees, RefusalAgrees
  <2>2. ASSUME NEW size \in Addr, NEW hva \in Areas, MemInit(size, hva)
        PROVE  (KvmAgrees /\ Counted /\ HostAgrees)'
    <3> DEFINE n == AlignUp(size)
    <3>1. n \in Addr /\ 0 \in Addr
      BY AlignUpType, SizesAssumption DEF SizesAssumption, Addr
    <3>2. Used # Slot /\ mem_pc = "idle" /\ UNCHANGED destroy
      BY <2>2 DEF MemInit, Acceptable
    <3>3. \/ Enter(0, n, hva, TRUE) /\ mapped' = mapped \cup {hva}
          \/ EnterRefused(0, n, hva, TRUE) /\ mapped' = mapped
      BY <2>2 DEF MemInit
    <3> HIDE DEF n
    <3> QED
      BY <3>1, <3>2, <3>3, EnterAgrees, RefusalAgrees
  <2>3. CASE MemDestroy
    BY <2>3, DestroyAgrees
  <2>4. CASE UNCHANGED vars
    BY <2>4 DEF vars, destroy, Agreement, KvmAgrees, Counted, HostAgrees, Used, Left, Unmapped
  <2> QED
    BY <2>1, <2>2, <2>3, <2>4 DEF Next
<1>3. Agreement => TablesAgree
  BY TablesByName DEF Agreement
<1> QED
  BY <1>1, <1>2, <1>3, Invariance, PTL DEF Spec
=============================================================================
