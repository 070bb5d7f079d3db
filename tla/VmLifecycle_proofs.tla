-------------------------- MODULE VmLifecycle_proofs --------------------------
(***************************************************************************)
(* Proofs about the creation and the destruction of a VM, for every number *)
(* of vCPUs, size of RAM and slot table: whichever step fails, vm_destroy()*)
(* releases everything, in an order in which nothing outlives what it      *)
(* depends on.  What the VM does to guest memory is a behaviour of         *)
(* GuestMem, so that the theorems of GuestMem_proofs hold of it.           *)
(***************************************************************************)
EXTENDS VmLifecycle, TLAPS

Gm == INSTANCE GuestMem_proofs

-----------------------------------------------------------------------------
(* The inductive invariant.                                                *)

(* No vCPU yet, and no vCPU any more.                                      *)
Early    == {"kvm_open", "check", "create_vm", "prepare", "ram", "irqchip", "no_kvm"}
Released == {"mem", "close_vm", "close_kvm", "close_trace", "gone"}

Has(v) == run[v] \/ fd[v] = 1

IndexInv ==
  /\ pc \in Early \cup Released \cup {"created"} => i = 0
  /\ pc \in Early => nr_vcpus = 0
  /\ pc = "vcpus" => i <= cfg.nr /\ nr_vcpus = i
  /\ pc = "destroy" => i < MaxVcpus

FdInv ==
  /\ kvm_fd <=> pc \notin {"kvm_open", "no_kvm", "close_trace", "gone"}
  /\ vm_fd => pc \notin {"kvm_open", "check", "create_vm", "no_kvm",
                         "close_kvm", "close_trace", "gone"}
  /\ pc \in {"prepare", "ram", "irqchip", "vcpus", "created"} => vm_fd
  /\ pc = "gone" => ~trace
  /\ ~closed_stdin

(* All of guest memory is the RAM that vm_create() mapped, and it is no    *)
(* smaller than what was asked for.                                        *)
RamInv ==
  /\ pc \in {"irqchip", "vcpus", "created"} => mapped # {} /\ ram_size >= cfg.ram
  /\ pc \in {"kvm_open", "check", "create_vm", "prepare", "ram", "no_kvm",
             "close_vm", "close_kvm", "close_trace", "gone"} => mapped = {}
  /\ mapped # {} => vm_fd
  /\ \A s \in Mem!Used : slots[s].mmap_owned

VcpuInv ==
  /\ pc \in Early \cup Released => \A v \in Vcpu : ~Has(v)
  /\ pc = "vcpus" => \A v \in Vcpu : IF v < i THEN run[v] /\ fd[v] = 1 ELSE ~Has(v)
  /\ pc = "created" =>
       nr_vcpus = cfg.nr /\ \A v \in 0 .. cfg.nr - 1 : run[v] /\ fd[v] = 1
  /\ pc = "destroy" => \A v \in Vcpu : v < i => ~Has(v)
  /\ \A v \in Vcpu : Has(v) => vm_fd /\ (cfg.linux => has_irqchip)
  /\ cfg.linux /\ pc \in {"vcpus", "created"} => has_irqchip

LifeInv == IndexInv /\ FdInv /\ RamInv /\ VcpuInv

-----------------------------------------------------------------------------
(* What happens to guest memory is a behaviour of GuestMem.                *)

LEMMA GmAssumptions == Gm!SizesAssumption /\ Gm!AreasAssumption
BY MemAssumption DEF Gm!SizesAssumption, Gm!AreasAssumption

(* The steps of the VM that concern memory are those of mem.c.             *)
LEMMA MemSteps == cfg \in Configs /\ [Next]_vars => [Mem!Next]_mem
<1> SUFFICES ASSUME cfg \in Configs, [Next]_vars PROVE [Mem!Next]_mem
  OBVIOUS
<1>1. CASE InitRam
  <2>1. cfg.ram \in Mem!Addr
    BY MemAssumption DEF Configs, Mem!Addr
  <2>2. CASE UNCHANGED mem
    BY <2>2
  <2>3. ASSUME NEW hva \in Areas, Mem!MemInit(cfg.ram, hva)
        PROVE  Mem!Next
    BY <2>1, <2>3 DEF Mem!Next
  <2> QED
    BY <1>1, <2>2, <2>3 DEF InitRam
<1>2. CASE DestroyMem
  BY <1>2 DEF DestroyMem, Mem!Next
<1>3. CASE UNCHANGED mem
  BY <1>3
<1> QED
  <2>1. KvmOpen \/ Check \/ CreateVm \/ PrepareVm \/ CreateIrqchip => UNCHANGED mem
    BY DEF KvmOpen, Check, CreateVm, PrepareVm, CreateIrqchip
  <2>2. CreateVcpu \/ Created \/ Run \/ DestroyVcpu => UNCHANGED mem
    BY DEF CreateVcpu, Created, Run, DestroyVcpu
  <2>3. CloseVm \/ CloseKvm \/ CloseTrace => UNCHANGED mem
    BY DEF CloseVm, CloseKvm, CloseTrace
  <2>4. UNCHANGED vars => UNCHANGED mem
    BY DEF vars
  <2> QED
    BY <1>1, <1>2, <1>3, <2>1, <2>2, <2>3, <2>4 DEF Next

(* No step changes the configuration.                                      *)
LEMMA ConfigStays == Spec => [](cfg \in Configs)
<1>1. Init => cfg \in Configs
  BY DEF Init
<1>2. [Next]_vars => cfg' = cfg
  <2>1. KvmOpen \/ Check \/ CreateVm \/ PrepareVm \/ InitRam \/ CreateIrqchip => cfg' = cfg
    BY DEF KvmOpen, Check, CreateVm, PrepareVm, InitRam, CreateIrqchip
  <2>2. CreateVcpu \/ Created \/ Run \/ DestroyVcpu \/ DestroyMem => cfg' = cfg
    BY DEF CreateVcpu, Created, Run, DestroyVcpu, DestroyMem
  <2>3. CloseVm \/ CloseKvm \/ CloseTrace \/ UNCHANGED vars => cfg' = cfg
    BY DEF CloseVm, CloseKvm, CloseTrace, vars
  <2> QED
    BY <2>1, <2>2, <2>3 DEF Next
<1>3. cfg \in Configs /\ [Next]_vars => (cfg \in Configs)'
  BY <1>2 DEF Configs
<1> QED
  BY <1>1, <1>3, PTL DEF Spec

(* vm.c reaches guest memory through mem_init() and mem_destroy() only, in *)
(* states where GuestMem allows them: the composition implements it.       *)
THEOREM MemoryIsGuestMem == Spec => Mem!Spec
<1>1. Init => Mem!Init
  BY DEF Init
<1>2. cfg \in Configs /\ [Next]_vars => [Mem!Next]_(Mem!vars)
  BY MemSteps DEF mem, Mem!vars, Mem!destroy
<1> QED
  BY <1>1, <1>2, ConfigStays, PTL DEF Spec, Mem!Spec

(* The two instances of GuestMem are one.                                  *)
LEMMA OneMemory == Mem!Spec => Gm!Spec
<1>1. Mem!Init => Gm!Init
  BY DEF Mem!Init, Gm!Init, Mem!Slot, Gm!Slot, Mem!Nothing, Gm!Nothing, Mem!NULL, Gm!NULL
<1>2. [Mem!Next]_(Mem!vars) => [Gm!Next]_(Gm!vars)
  <2> USE DEF Mem!Addr, Gm!Addr, Mem!Slot, Gm!Slot, Mem!Used, Gm!Used,
              Mem!FirstFree, Gm!FirstFree, Mem!Plus, Gm!Plus, Mem!Gpa, Gm!Gpa,
              Mem!Size, Gm!Size, Mem!End, Gm!End, Mem!Nothing, Gm!Nothing,
              Mem!NULL, Gm!NULL, Mem!destroy, Gm!destroy
  <2>1. ASSUME NEW gpa, NEW size PROVE Mem!Acceptable(gpa, size) <=> Gm!Acceptable(gpa, size)
    BY DEF Mem!Acceptable, Gm!Acceptable
  <2>2. ASSUME NEW gpa, NEW size, NEW hva, NEW owned
        PROVE  /\ Mem!Enter(gpa, size, hva, owned) <=> Gm!Enter(gpa, size, hva, owned)
               /\ Mem!EnterRefused(gpa, size, hva, owned) <=> Gm!EnterRefused(gpa, size, hva, owned)
    BY DEF Mem!Enter, Gm!Enter, Mem!EnterRefused, Gm!EnterRefused
  <2>3. ASSUME NEW gpa, NEW size, NEW hva
        PROVE  Mem!AddRegion(gpa, size, hva) => Gm!AddRegion(gpa, size, hva)
    BY <2>1, <2>2 DEF Mem!AddRegion, Gm!AddRegion
  <2>4. ASSUME NEW size, NEW hva
        PROVE  Mem!MemInit(size, hva) => Gm!MemInit(size, hva)
    BY <2>1, <2>2 DEF Mem!MemInit, Gm!MemInit, Mem!AlignUp, Gm!AlignUp
  <2>5. Mem!MemDestroy => Gm!MemDestroy
    BY DEF Mem!MemDestroy, Gm!MemDestroy, Mem!BeginDestroy, Gm!BeginDestroy,
           Mem!SkipFree, Gm!SkipFree, Mem!Deregister, Gm!Deregister,
           Mem!Unmap, Gm!Unmap, Mem!FreeSlot, Gm!FreeSlot,
           Mem!EndDestroy, Gm!EndDestroy
  <2> QED
    BY <2>3, <2>4, <2>5 DEF Mem!Next, Gm!Next, Mem!vars, Gm!vars
<1> QED
  BY <1>1, <1>2, PTL DEF Mem!Spec, Gm!Spec


(* Behind the index of mem_destroy() no slot is used.                      *)
Freed == mem_pc = "slot" => \A s \in Mem!Used : mem_i <= s

(* So the table, KVM and the host agree in every state of the VM's life,   *)
(* and mem_destroy() leaves no slot behind (mem.c:70-77, :110-114,         *)
(* :120-139).                                                              *)
THEOREM MemoryAgrees == Spec => [](Mem!TypeOK /\ Mem!TablesAgree /\ Freed)
<1>1. Gm!Spec => []Gm!IInv
  BY GmAssumptions, Gm!Invariance
<1>2. Gm!Spec => []Gm!TablesAgree
  BY GmAssumptions, Gm!Agreed
<1>3. Gm!IInv => Mem!TypeOK
  BY DEF Gm!IInv, Gm!TypeOK, Mem!TypeOK, Gm!Slot, Mem!Slot, Gm!Addr, Mem!Addr,
         Gm!Region, Mem!Region, Gm!NULL, Mem!NULL
<1>4. Gm!TablesAgree => Mem!TablesAgree
  <2>1. Gm!Used = Mem!Used /\ Gm!Slot = Mem!Slot /\ Gm!Nothing = Mem!Nothing
    BY DEF Gm!Used, Mem!Used, Gm!Slot, Mem!Slot, Gm!Nothing, Mem!Nothing, Gm!NULL, Mem!NULL
  <2>2. Gm!Cardinality(Gm!Used) = Mem!Cardinality(Mem!Used)
    BY <2>1 DEF Gm!Cardinality, Mem!Cardinality, Gm!IsFiniteSet, Mem!IsFiniteSet
  <2> QED
    BY <2>1, <2>2 DEF Gm!TablesAgree, Mem!TablesAgree, Gm!Left, Mem!Left,
                      Gm!Unmapped, Mem!Unmapped
<1>5. Gm!IInv => Freed
  BY DEF Gm!IInv, Gm!Freed, Freed, Gm!Used, Mem!Used, Gm!Slot, Mem!Slot
<1> QED
  BY <1>1, <1>2, <1>3, <1>4, <1>5, MemoryIsGuestMem, OneMemory, PTL

-----------------------------------------------------------------------------
(* Types.                                                                  *)

LifeTypes == LifeTypeOK /\ IndexInv

(* Where the creation or the destruction is, its index, and the vCPUs.     *)
LEMMA CreateTypes ==
  ASSUME LifeTypes, CreateVcpu \/ Created, Mem!TypeOK'
  PROVE  LifeTypes'
<1> USE MaxVcpusAssumption DEF LifeTypes, LifeTypeOK, MaxVcpusAssumption, Configs
<1>1. MaxVcpus \in Nat \ {0} /\ cfg.nr \in 1 .. MaxVcpus /\ i \in 0 .. MaxVcpus
  OBVIOUS
<1>2. CASE CreateVcpu
  <2>1. pc = "vcpus" /\ i < cfg.nr /\ nr_vcpus = i
    BY <1>2 DEF CreateVcpu, IndexInv
  <2>2. fd' \in [Vcpu -> {-1, 0, 1}] /\ run' \in [Vcpu -> BOOLEAN]
    BY <1>2 DEF CreateVcpu
  <2>3. CASE nr_vcpus' = i + 1 /\ i' = i + 1 /\ pc' = pc
    BY <1>1, <1>2, <2>1, <2>2, <2>3 DEF CreateVcpu, IndexInv, Early, Released, fds
  <2>4. CASE nr_vcpus' = nr_vcpus /\ i' = 0 /\ pc' = "destroy"
    BY <1>1, <1>2, <2>1, <2>2, <2>4 DEF CreateVcpu, IndexInv, Early, Released, fds
  <2> QED
    BY <1>2, <2>3, <2>4 DEF CreateVcpu
<1>3. CASE Created
  BY <1>1, <1>3 DEF Created, At, IndexInv, Early, Released, fds, vcpu
<1> QED
  BY <1>2, <1>3

LEMMA DestroyTypes ==
  ASSUME LifeTypes, DestroyVcpu, Mem!TypeOK'
  PROVE  LifeTypes'
<1> USE MaxVcpusAssumption DEF LifeTypes, LifeTypeOK, MaxVcpusAssumption
<1>1. MaxVcpus \in Nat \ {0} /\ i \in 0 .. MaxVcpus - 1 /\ pc = "destroy"
  BY DEF DestroyVcpu, IndexInv
<1>2. fd' \in [Vcpu -> {-1, 0, 1}] /\ run' \in [Vcpu -> BOOLEAN]
  BY DEF DestroyVcpu
<1>3. closed_stdin' \in BOOLEAN
  BY DEF DestroyVcpu, Close
<1>4. CASE i < MaxVcpus - 1
  BY <1>1, <1>2, <1>3, <1>4 DEF DestroyVcpu, NextVcpu, IndexInv, Early, Released, fds
<1>5. CASE ~(i < MaxVcpus - 1)
  BY <1>1, <1>2, <1>3, <1>5 DEF DestroyVcpu, NextVcpu, IndexInv, Early, Released, fds
<1> QED
  BY <1>4, <1>5

LEMMA TypeStep ==
  ASSUME LifeTypes, [Next]_vars, Mem!TypeOK'
  PROVE  LifeTypes'
<1> USE MaxVcpusAssumption DEF LifeTypes, MaxVcpusAssumption
<1>0. cfg.nr \in Nat
  BY DEF LifeTypeOK, Configs
<1>1. CASE KvmOpen \/ Check \/ CreateVm \/ PrepareVm
  <2>1. /\ pc \in Early /\ pc' \in (Early \cup {"destroy"}) \ {"vcpus"}
        /\ kvm_fd' \in BOOLEAN /\ vm_fd' \in BOOLEAN
        /\ UNCHANGED <<i, cfg, trace, has_irqchip, vcpu, closed_stdin>>
    BY <1>1 DEF KvmOpen, Check, CreateVm, PrepareVm, At, Early, LifeTypeOK, fds
  <2> QED
    BY <2>1 DEF LifeTypeOK, IndexInv, Early, Released, vcpu
<1>2. CASE InitRam
  <2>1. pc = "ram" /\ pc' \in {"irqchip", "destroy"}
        /\ UNCHANGED <<i, cfg, fds, has_irqchip, vcpu, closed_stdin>>
    BY <1>2 DEF InitRam
  <2> QED
    BY <2>1 DEF LifeTypeOK, IndexInv, Early, Released, fds, vcpu
<1>3. CASE CreateIrqchip
  <2>1. /\ pc = "irqchip" /\ pc' \in {"vcpus", "destroy"}
        /\ has_irqchip' \in BOOLEAN
        /\ UNCHANGED <<i, cfg, fds, vcpu, closed_stdin>>
    BY <1>3 DEF CreateIrqchip, At, LifeTypeOK
  <2> QED
    BY <1>0, <2>1 DEF LifeTypeOK, IndexInv, Early, Released, fds, vcpu
<1>4. CASE Run \/ DestroyMem \/ CloseVm \/ CloseKvm \/ CloseTrace
  <2>1. /\ \/ pc = "created" /\ pc' = "destroy"
           \/ pc \in Released /\ pc' \in Released
        /\ kvm_fd' \in BOOLEAN /\ vm_fd' \in BOOLEAN /\ trace' \in BOOLEAN
        /\ UNCHANGED <<i, cfg, has_irqchip, vcpu, closed_stdin>>
    BY <1>4 DEF Run, DestroyMem, CloseVm, CloseKvm, CloseTrace, At, Released, LifeTypeOK, fds
  <2> QED
    BY <2>1 DEF LifeTypeOK, IndexInv, Early, Released, vcpu
<1>5. CASE UNCHANGED vars
  BY <1>5 DEF vars, LifeTypeOK, IndexInv, fds, vcpu
<1> QED
  BY <1>1, <1>2, <1>3, <1>4, <1>5, CreateTypes, DestroyTypes DEF Next

-----------------------------------------------------------------------------
(* Descriptors.                                                            *)

LEMMA FdStep ==
  ASSUME LifeTypes, FdInv, [Next]_vars
  PROVE  FdInv'
<1> USE DEF FdInv
<1>1. CASE KvmOpen
  BY <1>1 DEF KvmOpen, At
<1>2. CASE Check \/ PrepareVm
  BY <1>2 DEF Check, PrepareVm, At, fds
<1>3. CASE CreateVm
  BY <1>3 DEF CreateVm, At
<1>4. CASE InitRam
  <2>1. pc = "ram" /\ pc' \in {"irqchip", "destroy"} /\ UNCHANGED <<fds, closed_stdin>>
    BY <1>4 DEF InitRam
  <2> QED
    BY <2>1 DEF fds
<1>5. CASE CreateIrqchip
  BY <1>5 DEF CreateIrqchip, At, fds
<1>6. CASE CreateVcpu
  <2>1. pc = "vcpus" /\ pc' \in {"vcpus", "destroy"} /\ UNCHANGED <<fds, closed_stdin>>
    BY <1>6 DEF CreateVcpu
  <2> QED
    BY <2>1 DEF fds
<1>7. CASE Created \/ Run
  BY <1>7 DEF Created, Run, At, fds
<1>8. CASE DestroyVcpu
  <2>1. pc = "destroy" /\ pc' \in {"destroy", "mem"} /\ UNCHANGED fds
    BY <1>8 DEF DestroyVcpu, NextVcpu
  <2>2. i \in Vcpu
    BY <2>1, MaxVcpusAssumption DEF LifeTypes, LifeTypeOK, IndexInv, Vcpu, MaxVcpusAssumption
  <2>3. ~closed_stdin'
    <3>1. fd[i] \in {-1, 0, 1}
      BY <2>2 DEF LifeTypes, LifeTypeOK
    <3>2. fd[i] > 0 => fd[i] # 0
      BY <3>1
    <3>3. CASE fd[i] > 0
      <4>1. closed_stdin' = (closed_stdin \/ fd[i] = 0)
        BY <1>8, <3>3 DEF DestroyVcpu, Close
      <4> QED
        BY <3>2, <3>3, <4>1, Zenon
    <3>4. CASE ~(fd[i] > 0)
      BY <1>8, <3>4 DEF DestroyVcpu
    <3> QED
      BY <3>3, <3>4
  <2> QED
    BY <2>1, <2>3 DEF fds
<1>9. CASE DestroyMem \/ CloseVm \/ CloseKvm \/ CloseTrace
  BY <1>9 DEF DestroyMem, CloseVm, CloseKvm, CloseTrace, At, fds
<1>10. CASE UNCHANGED vars
  BY <1>10 DEF vars, fds
<1> QED
  BY <1>1, <1>2, <1>3, <1>4, <1>5, <1>6, <1>7, <1>8, <1>9, <1>10 DEF Next

-----------------------------------------------------------------------------
(* RAM.                                                                    *)

(* mem_init() maps the RAM as a region of its own, or nothing.             *)
LEMMA InitRamOwns ==
  ASSUME Mem!TypeOK, NEW hva \in Areas, NEW size \in Mem!Addr, Mem!MemInit(size, hva)
  PROVE  /\ \A s \in Mem!Used' : slots'[s].mmap_owned
         /\ mapped' # {} => ram_size' >= size
<1> DEFINE f == Mem!FirstFree
           r == [gpa |-> 0, size |-> Mem!AlignUp(size), hva |-> hva]
<1>1. slots \in [Mem!Slot -> [used : BOOLEAN, mmap_owned : BOOLEAN, region : Mem!Region]]
  BY DEF Mem!TypeOK
<1>2. PICK u \in BOOLEAN :
        slots' = [slots EXCEPT ![f] = [used |-> u, mmap_owned |-> TRUE, region |-> r]]
  BY DEF Mem!MemInit, Mem!Enter, Mem!EnterRefused
<1>3. \A s \in Mem!Slot : ~slots[s].used
  BY DEF Mem!MemInit, Mem!Used
<1> HIDE DEF f, r
<1>4. \A s \in Mem!Slot : slots'[s].used => slots'[s].mmap_owned
  <2> TAKE s \in Mem!Slot
  <2>1. CASE s = f
    BY <1>1, <1>2, <2>1
  <2>2. CASE s # f
    BY <1>1, <1>2, <1>3, <2>2
  <2> QED
    BY <2>1, <2>2
<1>5. mapped' # {} => ram_size' >= size
  <2>1. mapped' # {} => ram_size' = Mem!AlignUp(size) /\ Mem!AlignUp(size) > 0
    BY DEF Mem!MemInit
  <2>2. Mem!AlignUp(size) = Gm!AlignUp(size)
    BY DEF Mem!AlignUp, Gm!AlignUp, Mem!Plus, Gm!Plus
  <2>3. Gm!AlignUp(size) = 0 \/ Gm!AlignUp(size) >= size
    BY GmAssumptions, Gm!AlignUpGrows DEF Mem!Addr, Gm!Addr
  <2> QED
    BY <2>1, <2>2, <2>3
<1> QED
  BY <1>4, <1>5 DEF Mem!Used

(* No step of mem_destroy() maps anything or uses a slot, and after its    *)
(* last nothing is mapped.                                                 *)
LEMMA DestroyMemUnmaps ==
  ASSUME Mem!TypeOK, Mem!TablesAgree, Freed, Mem!MemDestroy
  PROVE  /\ mapped' \subseteq mapped
         /\ \A s \in Mem!Used' : s \in Mem!Used /\ slots'[s].mmap_owned = slots[s].mmap_owned
         /\ mem_pc' = "idle" => mapped' = {}
<1>1. /\ slots \in [Mem!Slot -> [used : BOOLEAN, mmap_owned : BOOLEAN, region : Mem!Region]]
      /\ mem_i \in 0 .. MaxSlots
  BY DEF Mem!TypeOK
<1>2. mapped' \subseteq mapped
  BY DEF Mem!MemDestroy, Mem!BeginDestroy, Mem!SkipFree, Mem!Deregister, Mem!Unmap,
         Mem!FreeSlot, Mem!EndDestroy
<1>3. \A s \in Mem!Used' : s \in Mem!Used /\ slots'[s].mmap_owned = slots[s].mmap_owned
  <2>1. CASE UNCHANGED slots
    BY <2>1 DEF Mem!Used
  <2>2. CASE Mem!FreeSlot
    <3>1. slots' = [slots EXCEPT ![mem_i].used = FALSE]
      BY <2>2 DEF Mem!FreeSlot
    <3>2. \A s \in Mem!Slot : slots'[s].used => slots'[s] = slots[s]
      BY <1>1, <3>1
    <3> QED
      BY <3>2 DEF Mem!Used
  <2> QED
    BY <2>1, <2>2 DEF Mem!MemDestroy, Mem!BeginDestroy, Mem!SkipFree, Mem!Deregister,
                      Mem!Unmap, Mem!EndDestroy
<1>4. mem_pc' = "idle" => mapped' = {}
  <2> SUFFICES ASSUME mem_pc' = "idle" PROVE mapped' = {}
    OBVIOUS
  <2>1. mem_pc = "slot" /\ mem_i = MaxSlots /\ mapped' = mapped
    BY DEF Mem!MemDestroy, Mem!BeginDestroy, Mem!SkipFree, Mem!Deregister, Mem!Unmap,
           Mem!FreeSlot, Mem!EndDestroy
  <2>2. Mem!Used = {}
    BY <2>1, MemAssumption DEF Freed, Mem!Used, Mem!Slot, MemAssumption
  <2> QED
    BY <2>1, <2>2 DEF Mem!TablesAgree
<1> QED
  BY <1>2, <1>3, <1>4

LEMMA RamStep ==
  ASSUME LifeTypes, FdInv, RamInv, Mem!TablesAgree, Freed, [Next]_vars
  PROVE  RamInv'
<1> USE DEF RamInv
<1>0. ASSUME UNCHANGED mem
      PROVE  /\ mapped' = mapped /\ ram_size' = ram_size
             /\ (\A s \in Mem!Used : slots[s].mmap_owned)'
  BY <1>0 DEF mem, Mem!Used
<1>1. CASE KvmOpen \/ Check \/ CreateVm \/ PrepareVm
  <2>1. /\ pc \in {"kvm_open", "check", "create_vm", "prepare"}
        /\ \/ pc' \in {"check", "create_vm", "prepare", "ram", "no_kvm"}
           \/ pc' = "destroy"
        /\ UNCHANGED mem
    BY <1>1 DEF KvmOpen, Check, CreateVm, PrepareVm, At
  <2> QED
    BY <2>1, <1>0
<1>2. CASE InitRam
  <2>1. pc = "ram" /\ mapped = {} /\ vm_fd' = vm_fd /\ vm_fd
    BY <1>2 DEF InitRam, fds, FdInv
  <2>2. CASE UNCHANGED mem /\ pc' = "destroy"
    BY <2>1, <2>2, <1>0
  <2>3. ASSUME NEW hva \in Areas, Mem!MemInit(cfg.ram, hva),
               pc' = IF mapped' # {} THEN "irqchip" ELSE "destroy"
        PROVE  RamInv'
    <3>1. Mem!TypeOK
      BY DEF LifeTypes, LifeTypeOK
    <3>2. cfg.ram \in Mem!Addr /\ cfg' = cfg
      BY <1>2, MemAssumption DEF InitRam, LifeTypes, LifeTypeOK, Configs, Mem!Addr, MemAssumption
    <3>3. /\ \A s \in Mem!Used' : slots'[s].mmap_owned
          /\ mapped' # {} => ram_size' >= cfg.ram
      BY <2>3, <3>1, <3>2, InitRamOwns
    <3> QED
      BY <2>1, <2>3, <3>2, <3>3
  <2> QED
    BY <1>2, <2>2, <2>3 DEF InitRam
<1>3. CASE CreateIrqchip
  BY <1>0, <1>3 DEF CreateIrqchip, At, fds
<1>4. CASE CreateVcpu
  <2>1. /\ pc = "vcpus" /\ pc' \in {"vcpus", "destroy"}
        /\ UNCHANGED <<cfg, fds, mem>>
    BY <1>4 DEF CreateVcpu
  <2> QED
    BY <2>1, <1>0 DEF fds
<1>5. CASE Created \/ Run
  BY <1>0, <1>5 DEF Created, Run, At, fds
<1>6. CASE DestroyVcpu
  <2>1. pc = "destroy" /\ pc' \in {"destroy", "mem"} /\ UNCHANGED <<fds, mem>>
    BY <1>6 DEF DestroyVcpu, NextVcpu
  <2> QED
    BY <2>1, <1>0 DEF fds
<1>7. CASE DestroyMem
  <2>1. /\ pc = "mem" /\ UNCHANGED fds
        /\ pc' = IF mem_pc' = "idle" THEN "close_vm" ELSE "mem"
    BY <1>7 DEF DestroyMem
  <2>2. /\ mapped' \subseteq mapped
        /\ \A s \in Mem!Used' : s \in Mem!Used /\ slots'[s].mmap_owned = slots[s].mmap_owned
        /\ mem_pc' = "idle" => mapped' = {}
    BY <1>7, DestroyMemUnmaps DEF DestroyMem, LifeTypes, LifeTypeOK
  <2> QED
    BY <2>1, <2>2 DEF fds
<1>8. CASE CloseVm \/ CloseKvm \/ CloseTrace
  BY <1>0, <1>8 DEF CloseVm, CloseKvm, CloseTrace, At
<1>9. CASE UNCHANGED vars
  BY <1>0, <1>9 DEF vars, fds
<1> QED
  BY <1>1, <1>2, <1>3, <1>4, <1>5, <1>6, <1>7, <1>8, <1>9 DEF Next

-----------------------------------------------------------------------------
(* vCPUs.                                                                  *)

(* What is known of the vCPUs depends on these variables only.             *)
LEMMA VcpuKept ==
  ASSUME LifeTypes, VcpuInv, UNCHANGED <<i, cfg, fd, run, nr_vcpus>>,
         \/ pc' = pc
         \/ pc \in Early /\ pc' \in Early \cup {"destroy"}
         \/ pc \in Released /\ pc' \in Released
         \/ pc = "created" /\ pc' = "destroy",
         (vm_fd => vm_fd') \/ pc \in Early \cup Released,
         has_irqchip => has_irqchip'
  PROVE  VcpuInv'
<1>1. \A v \in Vcpu : Has(v)' <=> Has(v)
  BY DEF Has
<1>2. pc = "created" => i = 0
  BY DEF LifeTypes, IndexInv
<1>3. pc = "created" => \A v \in Vcpu : ~(v < i)
  BY <1>2 DEF Vcpu
<1> QED
  BY <1>1, <1>3 DEF VcpuInv, Early, Released

(* The interrupt controller is there before the first vCPU is made.        *)
LEMMA IrqchipVcpus ==
  ASSUME LifeTypes, VcpuInv, CreateIrqchip
  PROVE  VcpuInv'
<1>1. /\ pc = "irqchip" /\ UNCHANGED <<i, cfg, fds, vcpu>>
      /\ \/ pc' = "vcpus" /\ (cfg.linux => has_irqchip')
         \/ pc' = "destroy" /\ has_irqchip' = has_irqchip
  BY DEF CreateIrqchip, At
<1>2. i = 0
  BY <1>1 DEF LifeTypes, IndexInv, Early
<1>3. \A v \in Vcpu : ~Has(v) /\ ~Has(v)'
  BY <1>1 DEF VcpuInv, Early, Has, vcpu
<1>4. \A v \in Vcpu : ~(v < i)
  BY <1>2 DEF Vcpu
<1> QED
  BY <1>1, <1>3, <1>4 DEF VcpuInv, Early, Released

(* vm_create_vcpu() makes the vCPU of the index, or fails and leaves none  *)
(* there.                                                                  *)
LEMMA CreateVcpuVcpus ==
  ASSUME LifeTypes, FdInv, VcpuInv, CreateVcpu
  PROVE  VcpuInv'
<1> USE DEF Has
<1>1. /\ pc = "vcpus" /\ i < cfg.nr /\ vm_fd /\ (cfg.linux => has_irqchip)
      /\ UNCHANGED <<cfg, fds, has_irqchip>>
  BY DEF CreateVcpu, FdInv, VcpuInv
<1>2. /\ cfg.nr \in 1 .. MaxVcpus /\ i \in Vcpu
      /\ fd \in [Vcpu -> {-1, 0, 1}] /\ run \in [Vcpu -> BOOLEAN]
  BY <1>1, MaxVcpusAssumption DEF LifeTypes, LifeTypeOK, Configs, Vcpu, MaxVcpusAssumption
<1>3. PICK ok \in BOOLEAN, init_ok \in BOOLEAN :
        /\ fd' = [fd EXCEPT ![i] = IF ok THEN 1 ELSE -1]
        /\ run' = [run EXCEPT ![i] = ok]
        /\ IF ok /\ init_ok THEN i' = i + 1 /\ pc' = pc
                            ELSE i' = 0 /\ pc' = "destroy"
  BY DEF CreateVcpu
<1>4. \A v \in Vcpu \ {i} : Has(v)' = Has(v) /\ run'[v] = run[v] /\ fd'[v] = fd[v]
  BY <1>2, <1>3
<1>5. /\ run'[i] = ok
      /\ fd'[i] = IF ok THEN 1 ELSE -1
  BY <1>2, <1>3
<1>6. \A v \in Vcpu : IF v < i THEN run[v] /\ fd[v] = 1 ELSE ~Has(v)
  BY <1>1 DEF VcpuInv
<1>7. \A v \in Vcpu : Has(v)' => vm_fd' /\ (cfg'.linux => has_irqchip')
  BY <1>1 DEF fds
<1>8. CASE ok /\ init_ok
  <2>1. pc' = "vcpus" /\ i' = i + 1
    BY <1>1, <1>3, <1>8
  <2>2. ASSUME NEW v \in Vcpu
        PROVE  IF v < i' THEN run'[v] /\ fd'[v] = 1 ELSE ~Has(v)'
    <3>1. v \in Int /\ i \in Int
      BY <1>2 DEF Vcpu
    <3>2. v < i' <=> v < i \/ v = i
      BY <2>1, <3>1
    <3>3. CASE v = i
      BY <1>5, <1>8, <3>2, <3>3
    <3>4. CASE v # i
      BY <1>4, <1>6, <3>2, <3>4
    <3> QED
      BY <3>3, <3>4
  <2> QED
    BY <1>1, <1>7, <2>1, <2>2 DEF VcpuInv, Early, Released
<1>9. CASE ~(ok /\ init_ok)
  <2>1. pc' = "destroy" /\ i' = 0
    BY <1>3, <1>9
  <2>2. \A v \in Vcpu : ~(v < i')
    BY <2>1 DEF Vcpu
  <2> QED
    BY <1>1, <1>7, <2>1, <2>2 DEF VcpuInv, Early, Released
<1> QED
  BY <1>8, <1>9

LEMMA CreatedVcpus ==
  ASSUME LifeTypes, VcpuInv, Created
  PROVE  VcpuInv'
<1>1. /\ pc = "vcpus" /\ pc' = "created" /\ i = cfg.nr /\ nr_vcpus = i
      /\ UNCHANGED <<cfg, fds, has_irqchip, vcpu>>
  BY DEF Created, At, LifeTypes, IndexInv
<1>2. \A v \in Vcpu : Has(v)' = Has(v)
  BY <1>1 DEF Has, vcpu
<1>3. \A v \in 0 .. cfg.nr - 1 : v \in Vcpu /\ v < i
  <2>1. cfg.nr \in 1 .. MaxVcpus /\ MaxVcpus \in Nat
    BY MaxVcpusAssumption DEF LifeTypes, LifeTypeOK, Configs, MaxVcpusAssumption
  <2> QED
    BY <1>1, <2>1 DEF Vcpu
<1>4. \A v \in 0 .. cfg.nr - 1 : run[v] /\ fd[v] = 1
  BY <1>1, <1>3 DEF VcpuInv
<1> QED
  BY <1>1, <1>2, <1>4 DEF VcpuInv, Early, Released, fds, vcpu

(* Every pass of the loop of vm_destroy() releases the vCPU of its index,  *)
(* and the loop ends after the last.                                       *)
LEMMA DestroyVcpuVcpus ==
  ASSUME LifeTypes, VcpuInv, DestroyVcpu
  PROVE  VcpuInv'
<1> USE DEF Has
<1>1. /\ pc = "destroy" /\ run' = [run EXCEPT ![i] = FALSE] /\ fd' = [fd EXCEPT ![i] = -1]
      /\ UNCHANGED <<cfg, fds, has_irqchip>>
  BY DEF DestroyVcpu
<1>2. /\ i \in Vcpu /\ MaxVcpus \in Nat \ {0}
      /\ fd \in [Vcpu -> {-1, 0, 1}] /\ run \in [Vcpu -> BOOLEAN]
  BY <1>1, MaxVcpusAssumption
     DEF LifeTypes, LifeTypeOK, IndexInv, Vcpu, MaxVcpusAssumption
<1>3. \A v \in Vcpu : Has(v)' => Has(v) /\ v # i
  BY <1>1, <1>2
<1>4. \A v \in Vcpu : v < i => ~Has(v)
  BY <1>1 DEF VcpuInv
<1>5. \A v \in Vcpu : Has(v)' => vm_fd' /\ (cfg'.linux => has_irqchip')
  BY <1>1, <1>3 DEF VcpuInv, fds
<1>6. \A v \in Vcpu : v < i + 1 => ~Has(v)'
  <2> SUFFICES ASSUME NEW v \in Vcpu, v < i + 1 PROVE ~Has(v)'
    OBVIOUS
  <2>1. v < i \/ v = i
    BY <1>2 DEF Vcpu
  <2> QED
    BY <2>1, <1>2, <1>3, <1>4 DEF Vcpu
<1>7. CASE i < MaxVcpus - 1
  <2>1. pc' = "destroy" /\ i' = i + 1
    BY <1>1, <1>7 DEF DestroyVcpu, NextVcpu
  <2> QED
    BY <2>1, <1>5, <1>6 DEF VcpuInv, Early, Released
<1>8. CASE ~(i < MaxVcpus - 1)
  <2>1. pc' = "mem"
    BY <1>8 DEF DestroyVcpu, NextVcpu
  <2>2. \A v \in Vcpu : v < i + 1
    BY <1>2, <1>8 DEF Vcpu
  <2> QED
    BY <2>1, <2>2, <1>5, <1>6 DEF VcpuInv, Early, Released
<1> QED
  BY <1>7, <1>8

LEMMA VcpuStep ==
  ASSUME LifeTypes, FdInv, VcpuInv, [Next]_vars
  PROVE  VcpuInv'
<1>1. CASE KvmOpen \/ Check \/ CreateVm \/ PrepareVm
  <2>1. /\ pc \in Early /\ pc' \in Early \cup {"destroy"}
        /\ UNCHANGED <<i, cfg, vcpu, has_irqchip>>
    BY <1>1 DEF KvmOpen, Check, CreateVm, PrepareVm, At, Early
  <2> QED
    BY <2>1, VcpuKept DEF vcpu
<1>2. CASE InitRam
  <2>1. /\ pc \in Early /\ pc' \in Early \cup {"destroy"}
        /\ UNCHANGED <<i, cfg, vcpu, has_irqchip>>
    BY <1>2 DEF InitRam, Early
  <2> QED
    BY <2>1, VcpuKept DEF vcpu
<1>3. CASE Run
  BY <1>3, VcpuKept DEF Run, At, vcpu, fds
<1>4. CASE DestroyMem \/ CloseVm \/ CloseKvm \/ CloseTrace
  <2>1. pc \in Released /\ pc' \in Released /\ UNCHANGED <<i, cfg, vcpu, has_irqchip>>
    BY <1>4 DEF DestroyMem, CloseVm, CloseKvm, CloseTrace, At, Released
  <2> QED
    BY <2>1, VcpuKept DEF vcpu
<1>5. CASE UNCHANGED vars
  BY <1>5, VcpuKept DEF vars, vcpu, fds
<1> QED
  BY <1>1, <1>2, <1>3, <1>4, <1>5, IrqchipVcpus, CreateVcpuVcpus, CreatedVcpus,
     DestroyVcpuVcpus DEF Next

-----------------------------------------------------------------------------
(* The theorems.                                                           *)

LEMMA LifeStart == Init /\ Mem!TypeOK => LifeTypes /\ FdInv /\ RamInv /\ VcpuInv
<1> SUFFICES ASSUME Init, Mem!TypeOK PROVE LifeTypes /\ FdInv /\ RamInv /\ VcpuInv
  OBVIOUS
<1>1. /\ pc = "kvm_open" /\ i = 0 /\ nr_vcpus = 0 /\ cfg \in Configs
      /\ trace \in {FALSE, cfg.traced}
      /\ kvm_fd = FALSE /\ vm_fd = FALSE /\ has_irqchip = FALSE /\ closed_stdin = FALSE
      /\ fd = [v \in Vcpu |-> 0] /\ run = [v \in Vcpu |-> FALSE]
      /\ Mem!Init
  BY DEF Init
<1>2. trace \in BOOLEAN
  BY <1>1 DEF Configs
<1>3. LifeTypes
  <2>1. fd \in [Vcpu -> {-1, 0, 1}] /\ run \in [Vcpu -> BOOLEAN]
    BY <1>1
  <2>2. i \in 0 .. MaxVcpus /\ nr_vcpus \in 0 .. MaxVcpus
    BY <1>1, MaxVcpusAssumption DEF MaxVcpusAssumption
  <2>3. LifeTypeOK
    BY <1>1, <1>2, <2>1, <2>2 DEF LifeTypeOK
  <2>4. IndexInv
    BY <1>1 DEF IndexInv, Early, Released
  <2> QED
    BY <2>3, <2>4 DEF LifeTypes
<1>4. FdInv
  BY <1>1 DEF FdInv
<1>5. RamInv
  BY <1>1 DEF RamInv, Mem!Init, Mem!Used
<1>6. VcpuInv
  BY <1>1 DEF VcpuInv, Has, Early, Released
<1> QED
  BY <1>3, <1>4, <1>5, <1>6

(* vm.c:452-638: at every statement of vm_create() and vm_destroy() it is  *)
(* known which descriptors and mappings there are, whichever calls have    *)
(* failed.                                                                 *)
THEOREM LifeInvariance == Spec => [](LifeTypeOK /\ LifeInv)
<1> DEFINE Inv == LifeTypes /\ FdInv /\ RamInv /\ VcpuInv
<1>1. Init /\ Mem!TypeOK => Inv
  BY LifeStart
<1>2. Inv /\ (Mem!TypeOK /\ Mem!TablesAgree /\ Freed)
        /\ (Mem!TypeOK /\ Mem!TablesAgree /\ Freed)' /\ [Next]_vars => Inv'
  <2> SUFFICES ASSUME Inv, Mem!TypeOK, Mem!TablesAgree, Freed, Mem!TypeOK', [Next]_vars
               PROVE  Inv'
    OBVIOUS
  <2>1. LifeTypes'
    BY TypeStep
  <2>2. FdInv'
    BY FdStep
  <2>3. RamInv'
    BY RamStep
  <2>4. VcpuInv'
    BY VcpuStep
  <2> QED
    BY <2>1, <2>2, <2>3, <2>4
<1>3. Inv => LifeTypeOK /\ LifeInv
  BY DEF LifeTypes, LifeInv
<1> HIDE DEF Inv
<1> QED
  BY <1>1, <1>2, <1>3, MemoryAgrees, PTL DEF Spec

(* The vCPUs that hold something, one by one.                              *)
LEMMA AcquiredByVcpu == Acquired = {} <=> \A v \in Vcpu : ~Has(v)
BY DEF Acquired, Has

(* vm.c:497-504, :522-524, :610-638: when vm_destroy() returns, no         *)
(* descriptor and no mapping is left, whichever step of vm_create() had    *)
(* failed; when /dev/kvm cannot be opened, nothing but the trace file is.  *)
THEOREM EverythingReleased == Spec => []NothingLeft
<1>1. LifeInv => NothingLeft
  BY AcquiredByVcpu DEF LifeInv, FdInv, RamInv, VcpuInv, NothingLeft, Early, Released
<1> QED
  BY <1>1, LifeInvariance, PTL

(* vm.c:515, :623: vm_destroy() never closes descriptor 0 for a vCPU that  *)
(* was never made.                                                         *)
THEOREM ConsoleStays == Spec => []StdinStaysOpen
<1>1. LifeInv => StdinStaysOpen
  BY DEF LifeInv, FdInv, StdinStaysOpen
<1> QED
  BY <1>1, LifeInvariance, PTL

(* mem.c:129-135, vm.c:619-634: before and after every statement of        *)
(* creation and destruction a region of KVM is mapped memory of an open    *)
(* VM, a vCPU has its VM, and a VM has /dev/kvm.                           *)
THEOREM OrderOfRelease == Spec => []ReleaseOrder
<1>1. LifeInv /\ Mem!TypeOK /\ Mem!TablesAgree => ReleaseOrder
  <2> SUFFICES ASSUME LifeInv, Mem!TypeOK, Mem!TablesAgree PROVE ReleaseOrder
    OBVIOUS
  <2>1. ASSUME NEW s \in Mem!Slot, kvm[s].hva # Mem!NULL
        PROVE  kvm[s].hva \in mapped /\ vm_fd
    <3>1. kvm[s] = IF s \in Mem!Used \ Mem!Left THEN slots[s].region ELSE Mem!Nothing
      BY DEF Mem!TablesAgree
    <3>2. Mem!Nothing.hva = Mem!NULL
      BY DEF Mem!Nothing
    <3>3. s \in Mem!Used \ Mem!Left /\ kvm[s] = slots[s].region
      BY <2>1, <3>1, <3>2
    <3>4. slots[s].mmap_owned
      BY <3>3 DEF LifeInv, RamInv
    <3>5. s \in Mem!Used \ Mem!Unmapped
      BY <3>3 DEF Mem!Left, Mem!Unmapped
    <3>6. kvm[s].hva \in mapped
      BY <3>3, <3>4, <3>5 DEF Mem!TablesAgree
    <3> QED
      BY <3>6 DEF LifeInv, RamInv
  <2>2. Acquired # {} => vm_fd
    BY AcquiredByVcpu DEF LifeInv, VcpuInv
  <2>3. vm_fd => kvm_fd
    BY DEF LifeInv, FdInv
  <2> QED
    BY <2>1, <2>2, <2>3 DEF ReleaseOrder
<1> QED
  BY <1>1, LifeInvariance, MemoryAgrees, PTL

(* vm.c:592-605, mem.c:90: vm_create() returns success for a VM with all   *)
(* its vCPUs and no less RAM than was asked for, and under Linux the       *)
(* interrupt controller came first.                                        *)
THEOREM Ready == Spec => []ReadyIsComplete
<1>1. LifeTypeOK /\ LifeInv => ReadyIsComplete
  <2> SUFFICES ASSUME LifeTypeOK, LifeInv PROVE ReadyIsComplete
    OBVIOUS
  <2>1. cfg.linux /\ Acquired # {} => has_irqchip
    BY AcquiredByVcpu DEF LifeInv, VcpuInv
  <2>2. pc = "created" =>
          /\ nr_vcpus = cfg.nr /\ \A v \in 0 .. nr_vcpus - 1 : fd[v] = 1 /\ run[v]
          /\ mapped # {} /\ ram_size >= cfg.ram
    BY DEF LifeInv, VcpuInv, RamInv
  <2> QED
    BY <2>1, <2>2 DEF ReadyIsComplete
<1> QED
  BY <1>1, LifeInvariance, PTL
===============================================================================
