----------------------------- MODULE VmLifecycle -----------------------------
(***************************************************************************)
(* vm_create() and vm_destroy() of src/vm.c with the guest RAM of GuestMem: *)
(* every step of the creation may fail, and vm_destroy() then takes apart  *)
(* whatever there is.  What happens between the two on a complete VM is    *)
(* the step Run; VmRun has its detail.                                     *)
(***************************************************************************)
EXTENDS Integers

CONSTANTS
  MaxVcpus,                       (* VMM_MAX_VCPUS                         *)
  Top, Page, MaxSlots, Areas,     (* of GuestMem                           *)
  RamSizes                        (* the values of cfg.ram_size            *)

ASSUME MaxVcpusAssumption == MaxVcpus \in Nat \ {0}

(* The assumptions of GuestMem; a RAM size is a uint64_t.                  *)
ASSUME MemAssumption ==
  /\ Top \in Nat /\ Page \in Nat \ {0} /\ Page < Top /\ Top % Page = 0
  /\ MaxSlots \in Nat \ {0} /\ Areas \subseteq Nat
  /\ RamSizes \subseteq 0 .. Top - 1

VARIABLES
  pc,            (* the next statement of vm_create() or vm_destroy()      *)
  i,             (* its loop index                                         *)
  cfg,           (* nr_vcpus; whether mode is linux; whether PIO is        *)
                 (* traced; ram_size                                       *)
  kvm_fd, vm_fd, (* open or not                                            *)
  has_irqchip,
  fd,            (* per vCPU: 0 as memset left it, 1 for an open           *)
                 (* descriptor, -1                                         *)
  run,           (* per vCPU: the kvm_run page is mapped                   *)
  nr_vcpus,
  trace,         (* the trace file is open                                 *)
  closed_stdin,  (* history: descriptor 0 was closed                       *)
  slots, nr_slots, ram_size, kvm, mapped, mem_pc, mem_i     (* of GuestMem *)

Mem == INSTANCE GuestMem

fds  == <<kvm_fd, vm_fd, trace>>
vcpu == <<fd, run, nr_vcpus>>
mem  == <<slots, nr_slots, ram_size, kvm, mapped, mem_pc, mem_i>>
vars == <<pc, i, cfg, fds, has_irqchip, vcpu, closed_stdin, mem>>

Vcpu == 0 .. MaxVcpus - 1

(* vmm_config_parse_args() accepts several vCPUs for linux only.           *)
Configs ==
  {c \in [nr : 1 .. MaxVcpus, linux : BOOLEAN, traced : BOOLEAN, ram : RamSizes] :
     c.nr > 1 => c.linux}

LifeTypeOK ==
  /\ pc \in {"kvm_open", "check", "create_vm", "prepare", "ram", "irqchip",
             "vcpus", "created", "destroy", "mem", "close_vm", "close_kvm",
             "close_trace", "gone", "no_kvm"}
  /\ i \in 0 .. MaxVcpus
  /\ cfg \in Configs
  /\ kvm_fd \in BOOLEAN /\ vm_fd \in BOOLEAN /\ trace \in BOOLEAN
  /\ has_irqchip \in BOOLEAN /\ closed_stdin \in BOOLEAN
  /\ fd \in [Vcpu -> {-1, 0, 1}] /\ run \in [Vcpu -> BOOLEAN]
  /\ nr_vcpus \in 0 .. MaxVcpus
  /\ Mem!TypeOK

Init ==
  /\ pc = "kvm_open" /\ i = 0
  /\ cfg \in Configs
  /\ kvm_fd = FALSE /\ vm_fd = FALSE
  /\ trace \in {FALSE, cfg.traced}             \* pio_trace_open() may fail
  /\ has_irqchip = FALSE /\ closed_stdin = FALSE
  /\ fd = [v \in Vcpu |-> 0] /\ run = [v \in Vcpu |-> FALSE] /\ nr_vcpus = 0
  /\ Mem!Init

-----------------------------------------------------------------------------
(* vm_create().                                                            *)

At(from, to) == pc = from /\ pc' = to

KvmOpen ==
  /\ \/ At("kvm_open", "check") /\ kvm_fd' = TRUE
     \/ At("kvm_open", "no_kvm") /\ UNCHANGED kvm_fd      \* no vm_destroy()
  /\ UNCHANGED <<i, cfg, vm_fd, trace, has_irqchip, vcpu, closed_stdin, mem>>

(* The API version, the capabilities, the vendor.                          *)
Check ==
  /\ At("check", "create_vm") \/ At("check", "destroy")
  /\ UNCHANGED <<i, cfg, fds, has_irqchip, vcpu, closed_stdin, mem>>

CreateVm ==
  /\ \/ At("create_vm", "prepare") /\ vm_fd' = TRUE
     \/ At("create_vm", "destroy") /\ UNCHANGED vm_fd
  /\ UNCHANGED <<i, cfg, kvm_fd, trace, has_irqchip, vcpu, closed_stdin, mem>>

PrepareVm ==
  /\ At("prepare", "ram") \/ At("prepare", "destroy")
  /\ UNCHANGED <<i, cfg, fds, has_irqchip, vcpu, closed_stdin, mem>>

InitRam ==
  /\ pc = "ram"
  /\ \/ /\ \E hva \in Areas : Mem!MemInit(cfg.ram, hva)
        /\ pc' = IF mapped' # {} THEN "irqchip" ELSE "destroy"
     \/ UNCHANGED mem /\ pc' = "destroy"                  \* mmap fails
  /\ UNCHANGED <<i, cfg, fds, has_irqchip, vcpu, closed_stdin>>

(* Mutant: the result of irqchip_create() is ignored.                      *)
CreateIrqchipUnchecked ==
  /\ At("irqchip", "vcpus")
  /\ \/ UNCHANGED has_irqchip
     \/ cfg.linux /\ has_irqchip' = TRUE
  /\ UNCHANGED <<i, cfg, fds, vcpu, closed_stdin, mem>>

CreateIrqchip ==
  /\ \/ ~cfg.linux /\ At("irqchip", "vcpus") /\ UNCHANGED has_irqchip
     \/ cfg.linux /\ At("irqchip", "vcpus") /\ has_irqchip' = TRUE
     \/ cfg.linux /\ At("irqchip", "destroy") /\ UNCHANGED has_irqchip
  /\ UNCHANGED <<i, cfg, fds, vcpu, closed_stdin, mem>>

(* vm_create_vcpu(vm, i): no descriptor; no run page; init_vcpu fails;     *)
(* success.                                                                *)
CreateVcpu ==
  /\ pc = "vcpus" /\ i < cfg.nr
  /\ \E mmap_ok, init_ok, fd_ok \in BOOLEAN :
       /\ fd'  = [fd EXCEPT ![i] = IF fd_ok /\ mmap_ok THEN 1 ELSE -1]
       /\ run' = [run EXCEPT ![i] = fd_ok /\ mmap_ok]
       /\ IF fd_ok /\ mmap_ok /\ init_ok
          THEN nr_vcpus' = i + 1 /\ i' = i + 1 /\ UNCHANGED pc
          ELSE UNCHANGED nr_vcpus /\ i' = 0 /\ pc' = "destroy"
  /\ UNCHANGED <<cfg, fds, has_irqchip, closed_stdin, mem>>

Created ==
  /\ i = cfg.nr /\ At("vcpus", "created")
  /\ i' = 0
  /\ UNCHANGED <<cfg, fds, has_irqchip, vcpu, closed_stdin, mem>>

(* main() from there to its label out, whichever way it takes.             *)
Run ==
  /\ At("created", "destroy")
  /\ UNCHANGED <<i, cfg, fds, has_irqchip, vcpu, closed_stdin, mem>>

-----------------------------------------------------------------------------
(* vm_destroy().                                                           *)

NextVcpu(last) ==
  IF i < last THEN i' = i + 1 /\ UNCHANGED pc ELSE i' = 0 /\ pc' = "mem"

Close(d) ==                                     \* close(d), of a vCPU's fd
  closed_stdin' = (closed_stdin \/ d = 0)

(* Mutant: only the vCPUs counted in nr_vcpus are looked at.               *)
DestroyCountedVcpus ==
  /\ pc = "destroy"
  /\ IF i < nr_vcpus
     THEN run' = [run EXCEPT ![i] = FALSE] /\ fd' = [fd EXCEPT ![i] = -1]
     ELSE UNCHANGED <<run, fd>>
  /\ NextVcpu(nr_vcpus - 1)
  /\ UNCHANGED <<cfg, fds, has_irqchip, nr_vcpus, closed_stdin, mem>>

(* Mutant: every descriptor that is not negative is closed.                *)
DestroyVcpuFromZero ==
  /\ pc = "destroy"
  /\ run' = [run EXCEPT ![i] = FALSE]
  /\ fd' = [fd EXCEPT ![i] = -1]
  /\ IF fd[i] >= 0 THEN Close(fd[i]) ELSE UNCHANGED closed_stdin
  /\ NextVcpu(MaxVcpus - 1)
  /\ UNCHANGED <<cfg, fds, has_irqchip, nr_vcpus, mem>>

DestroyVcpu ==
  /\ pc = "destroy"
  /\ run' = [run EXCEPT ![i] = FALSE]
  /\ fd' = [fd EXCEPT ![i] = -1]
  /\ IF fd[i] > 0 THEN Close(fd[i]) ELSE UNCHANGED closed_stdin
  /\ NextVcpu(MaxVcpus - 1)
  /\ UNCHANGED <<cfg, fds, has_irqchip, nr_vcpus, mem>>

(* A step of mem_destroy(), which returns in its last.                     *)
DestroyMem ==
  /\ pc = "mem"
  /\ Mem!MemDestroy
  /\ pc' = IF mem_pc' = "idle" THEN "close_vm" ELSE "mem"
  /\ UNCHANGED <<i, cfg, fds, has_irqchip, vcpu, closed_stdin>>

CloseVm ==
  /\ At("close_vm", "close_kvm") /\ vm_fd' = FALSE
  /\ UNCHANGED <<i, cfg, kvm_fd, trace, has_irqchip, vcpu, closed_stdin, mem>>

CloseKvm ==
  /\ At("close_kvm", "close_trace") /\ kvm_fd' = FALSE
  /\ UNCHANGED <<i, cfg, vm_fd, trace, has_irqchip, vcpu, closed_stdin, mem>>

CloseTrace ==
  /\ At("close_trace", "gone") /\ trace' = FALSE
  /\ UNCHANGED <<i, cfg, kvm_fd, vm_fd, has_irqchip, vcpu, closed_stdin, mem>>

Next ==
  \/ KvmOpen \/ Check \/ CreateVm \/ PrepareVm \/ InitRam \/ CreateIrqchip
  \/ CreateVcpu \/ Created \/ Run
  \/ DestroyVcpu \/ DestroyMem \/ CloseVm \/ CloseKvm \/ CloseTrace

Spec == Init /\ [][Next]_vars

-----------------------------------------------------------------------------

Acquired == {v \in Vcpu : run[v] \/ fd[v] = 1}

(* When vm_destroy() has returned nothing of the VM is left, whichever     *)
(* step of the creation had failed: every descriptor and mapping is        *)
(* released, those of a vCPU that never got as far as being counted in     *)
(* nr_vcpus included (vm.c:497-504, :610-638).  When /dev/kvm cannot be    *)
(* opened vm_destroy() is not called (vm.c:522-524), and the one thing     *)
(* left is the trace file, until the process ends.                         *)
NothingLeft ==
  pc \in {"gone", "no_kvm"} =>
    /\ Acquired = {} /\ mapped = {} /\ ~kvm_fd /\ ~vm_fd
    /\ trace => pc = "no_kvm"

(* A vCPU descriptor that was never opened is 0 in the zeroed VM and must  *)
(* not be closed: 0 is the console's stdin (vm.c:515, :623).               *)
StdinStaysOpen == ~closed_stdin

(* Nothing outlives what it depends on, between any two statements of      *)
(* creation and destruction: KVM never holds a region of unmapped memory   *)
(* or of a closed VM, a vCPU never its VM, a VM never /dev/kvm             *)
(* (mem.c:129-135, vm.c:619-634).                                          *)
ReleaseOrder ==
  /\ \A s \in Mem!Slot : kvm[s].hva # Mem!NULL => kvm[s].hva \in mapped /\ vm_fd
  /\ Acquired # {} => vm_fd
  /\ vm_fd => kvm_fd

(* A VM that vm_create() reports as ready is complete: its vCPUs are there *)
(* and at least the RAM that was asked for, however large that was and     *)
(* however rounded (mem.c:90); and under Linux the interrupt controller    *)
(* was there before the first vCPU (vm.c:592-605).                         *)
ReadyIsComplete ==
  /\ pc = "created" =>
       /\ nr_vcpus = cfg.nr /\ \A v \in 0 .. nr_vcpus - 1 : fd[v] = 1 /\ run[v]
       /\ mapped # {} /\ ram_size >= cfg.ram
  /\ cfg.linux /\ Acquired # {} => has_irqchip
=============================================================================
