------------------------------ MODULE Topology ------------------------------
(***************************************************************************)
(* How the guest learns of its processors: the CPUID tables of the vCPUs   *)
(* (kvm_get_supported_cpuid() of src/kvm_wrappers.c, smp_fixup_cpuid() of  *)
(* src/smp.c, amd_init_vcpu() of src/arch/amd/svm.c), the MP table of      *)
(* src/boot/mptable.c and the MADT of src/boot/acpi.c.                     *)
(*                                                                         *)
(* A CPUID entry holds the fields of its leaf that describe the topology;  *)
(* the entries of all other leaves are only counted.                       *)
(* External: KVM and the leaves of the host, and how the guest reads them  *)
(* (arch/x86/kernel/cpu/topology.c, amd.c and hygon.c of Linux).           *)
(***************************************************************************)
EXTENDS Naturals, Sequences, FiniteSets

CONSTANTS
  FirstNent,        (* 128, the entries of the first attempt               *)
  MaxNent,          (* 4096, the most that are asked for                   *)
  Spare             (* KVM_CPUID_SPARE                                     *)

(* Five doublings lead from the first attempt to the last, and there is    *)
(* room for the three subleaves.                                           *)
ASSUME TopologyAssumption ==
  /\ FirstNent \in Nat \ {0} /\ MaxNent = 32 * FirstNent
  /\ Spare \in Nat /\ Spare >= 3

VARIABLES
  host,             (* KVM's entries: [leaves : Seq, others : Nat]         *)
  nr_vcpus,         (* vm->cfg.nr_vcpus                                    *)
  id,               (* the vCPU amd_init_vcpu() works on                   *)
  nent,             (* the entries asked for                               *)
  table,            (* the buffer: <<>> before KVM has filled it           *)
  cpuid             (* per vCPU made so far, what KVM_SET_CPUID2 was given *)

topology == <<host, nr_vcpus, id, nent, table, cpuid>>

Leaf == {"1", "0xB", "0x1F", "0x80000008", "0x8000001D", "0x8000001E"}

CpuidEntry ==
  [fn : {"1"}, index : {0}, apicid : Nat, nlog : Nat, htt : BOOLEAN, hypervisor : BOOLEAN]
  \cup [fn : {"0xB"}, index : Nat, apicid : Nat, shift : Nat, nr_lp : Nat, type : STRING]
  \cup [fn : {"0x1F"}, index : Nat, zero : BOOLEAN]
  \cup [fn : {"0x80000008"}, index : {0}, nc : Nat, idsize : Nat]
  \cup [fn : {"0x8000001D"}, index : Nat, type : Nat, level : Nat, share : Nat]
  \cup [fn : {"0x8000001E"}, index : {0}, apicid : Nat, core : Nat, threads : Nat, node : Nat]

(* External: KVM reports no leaf twice, and on the processors amd_ops is   *)
(* for the three leaves that smp_fixup_cpuid() does not add.               *)
HostOK(h) ==
  /\ h.leaves \in Seq(CpuidEntry) /\ h.others \in Nat /\ h.fails \in BOOLEAN
  /\ \A k, j \in DOMAIN h.leaves :
       k # j => h.leaves[k].fn # h.leaves[j].fn \/ h.leaves[k].index # h.leaves[j].index
  /\ \A fn \in {"1", "0x80000008", "0x8000001E"} :
       \E k \in DOMAIN h.leaves : h.leaves[k].fn = fn

TopologyTypeOK ==
  /\ id \in 0 .. nr_vcpus
  /\ nent \in FirstNent .. MaxNent
  /\ \A k \in DOMAIN table : table[k].fn \in Leaf
  /\ DOMAIN cpuid = 0 .. id - 1

TopologyInit ==
  nr_vcpus = 1 /\ id = 0 /\ nent = FirstNent /\ table = <<>> /\ cpuid = <<>>

-----------------------------------------------------------------------------

(* The shifts of a uint32_t.                                               *)
order_base2(n) == CHOOSE b \in 0 .. 31 : 2^b >= n /\ (b = 0 \/ 2^(b - 1) < n)

(* Mutant: the host's thread count and APIC id are passed through.         *)
FixupLeafPassing(e) ==
  CASE e.fn = "0x1F"       -> [e EXCEPT !.zero = TRUE]
    [] e.fn = "0x80000008" -> [e EXCEPT !.nc = nr_vcpus - 1, !.idsize = order_base2(nr_vcpus)]
    [] e.fn = "0x8000001E" -> [e EXCEPT !.apicid = id, !.core = id, !.threads = 1, !.node = 0]
    [] OTHER               -> e

(* The loop over the entries, with cpuid_mark_hypervisor().                *)
FixupLeaf(e) ==
  CASE e.fn = "1"          -> [e EXCEPT !.apicid = id, !.nlog = nr_vcpus,
                                        !.htt = nr_vcpus > 1, !.hypervisor = TRUE]
    [] e.fn = "0x1F"       -> [e EXCEPT !.zero = TRUE]
    [] e.fn = "0x80000008" -> [e EXCEPT !.nc = nr_vcpus - 1, !.idsize = order_base2(nr_vcpus)]
    [] e.fn = "0x8000001D" -> IF e.type = 0 THEN e ELSE
                              [e EXCEPT !.share = IF e.level >= 3 THEN nr_vcpus ELSE 1]
    [] e.fn = "0x8000001E" -> [e EXCEPT !.apicid = id, !.core = id, !.threads = 1, !.node = 0]
    [] e.fn = "0xB"        -> e

(* The three subleaves of cpuid_fill_topology_leaf().                      *)
Subleaf(sub) ==
  [fn |-> "0xB", index |-> sub, apicid |-> id,
   shift |-> IF sub = 1 THEN order_base2(nr_vcpus) ELSE 0,
   nr_lp |-> CASE sub = 0 -> 1 [] sub = 1 -> nr_vcpus [] sub = 2 -> 0,
   type  |-> CASE sub = 0 -> "SMT" [] sub = 1 -> "core" [] sub = 2 -> "end"]

IsSubleaf(e, sub) == e.fn = "0xB" /\ e.index = sub

(* A subleaf of the host is overwritten, a missing one is appended while   *)
(* there is room behind the entries that were asked for.                   *)
FillTopologyLeaf(t) ==
  LET Has(sub) == \E k \in DOMAIN t : IsSubleaf(t[k], sub)
      set == [k \in DOMAIN t |->
                IF t[k].fn = "0xB" /\ t[k].index \in 0 .. 2
                   /\ \A j \in 1 .. k - 1 : ~IsSubleaf(t[j], t[k].index)
                THEN Subleaf(t[k].index) ELSE t[k]]
      Missing(sub) == IF Has(sub) THEN <<>> ELSE <<sub>>
      missing == Missing(0) \o Missing(1) \o Missing(2)
      room == IF Len(missing) <= Spare THEN Len(missing) ELSE Spare
  IN set \o [k \in 1 .. room |-> Subleaf(missing[k])]

smp_fixup_cpuid(t) == FillTopologyLeaf([k \in DOMAIN t |-> FixupLeaf(t[k])])

Entries(t) == Len(t) + host.others

(* The table of the vCPU is set, or left as KVM has it; then the next one. *)
NextVcpu(t) ==
  /\ cpuid' = [v \in 0 .. id |-> IF v = id THEN t ELSE cpuid[v]]
  /\ id' = id + 1
  /\ nent' = FirstNent
  /\ table' = <<>>
  /\ UNCHANGED <<host, nr_vcpus>>

(* Mutant: the buffer is not enlarged and the attempt given up.            *)
kvm_get_supported_cpuid_once ==
  /\ table = <<>>
  /\ \/ /\ Entries(host.leaves) <= nent
        /\ table' = host.leaves
        /\ UNCHANGED <<host, nr_vcpus, id, nent, cpuid>>
     \/ Entries(host.leaves) > nent /\ NextVcpu(<<>>)

(* One attempt.  KVM answers E2BIG when the buffer is too small, and the   *)
(* next one has twice the size; without a table the vCPU goes on without   *)
(* (the callers only warn).                                                *)
kvm_get_supported_cpuid ==
  /\ table = <<>>
  /\ \/ /\ Entries(host.leaves) <= nent
        /\ table' = host.leaves
        /\ UNCHANGED <<host, nr_vcpus, id, nent, cpuid>>
     \/ /\ Entries(host.leaves) > nent
        /\ nent * 2 <= MaxNent
        /\ nent' = nent * 2
        /\ UNCHANGED <<host, nr_vcpus, id, table, cpuid>>
     \/ /\ Entries(host.leaves) > nent
        /\ nent * 2 > MaxNent
        /\ NextVcpu(<<>>)
     \/ host.fails /\ NextVcpu(<<>>)               \* calloc, or another errno

(* smp_fixup_cpuid(), cpuid_mark_hypervisor() and KVM_SET_CPUID2, which    *)
(* may refuse the table.                                                   *)
SetCpuid ==
  /\ table # <<>>
  /\ \/ NextVcpu(smp_fixup_cpuid(table))
     \/ host.fails /\ NextVcpu(<<>>)

InitVcpu == id < nr_vcpus /\ (kvm_get_supported_cpuid \/ SetCpuid)

-----------------------------------------------------------------------------
(* The tables in memory, in bytes.                                         *)

(* mptable_setup(): what its size check adds up, and the entries it writes.*)
MpSize(n) == 16 + 44 + n * 20 + 8 + 8 + 18 * 8

MpEntries(n) ==
  [k \in 1 .. n |-> [type |-> "cpu", size |-> 20, apicid |-> k - 1, boot |-> k = 1]]
  \o << [type |-> "bus", size |-> 8], [type |-> "ioapic", size |-> 8, apicid |-> n] >>
  \o [k \in 1 .. 16 |-> [type |-> "int", size |-> 8, irq |-> k - 1, dst |-> n]]
  \o << [type |-> "extint", size |-> 8], [type |-> "nmi", size |-> 8] >>

(* Mutant: the IOAPIC has id 0, as it has without ACPI and one processor.   *)
MadtEntriesIoapic0(n) ==
  [k \in 1 .. n |-> [type |-> "cpu", size |-> 8, apicid |-> k - 1]]
  \o << [type |-> "ioapic", size |-> 12, apicid |-> 0], [type |-> "nmi", size |-> 6] >>

(* acpi_setup(): the MADT's entries and where the five tables are.         *)
MadtEntries(n) ==
  [k \in 1 .. n |-> [type |-> "cpu", size |-> 8, apicid |-> k - 1]]
  \o << [type |-> "ioapic", size |-> 12, apicid |-> n], [type |-> "nmi", size |-> 6] >>

(* The bytes s[1] .. s[n] occupy one after the other.                      *)
SizeOf(s) ==
  LET sum[k \in 0 .. Len(s)] == IF k = 0 THEN 0 ELSE sum[k - 1] + s[k].size
  IN sum[Len(s)]

Align16(x) == ((x + 15) \div 16) * 16

AcpiTables(n) ==
  LET xsdt == Align16(36)
      fadt == Align16(xsdt + 36 + 2 * 8)
      dsdt == Align16(fadt + 276)
      madt == Align16(dsdt + 36 + 14)
  IN [rsdp |-> [lo |-> 0,    hi |-> 36],
      xsdt |-> [lo |-> xsdt, hi |-> xsdt + 36 + 2 * 8],
      fadt |-> [lo |-> fadt, hi |-> fadt + 276],
      dsdt |-> [lo |-> dsdt, hi |-> dsdt + 36 + 14],
      madt |-> [lo |-> madt, hi |-> madt + 44 + SizeOf(MadtEntries(n))]]

-----------------------------------------------------------------------------

(* External: the processor as the guest reads it from a table t, by leaf   *)
(* 0xB, by 0x80000008 with the APIC id of leaf 1, and by 0x8000001E.       *)
TheLeaf(t, fn) == t[CHOOSE k \in DOMAIN t : t[k].fn = fn]
Sub(t, sub)    == t[CHOOSE k \in DOMAIN t : IsSubleaf(t[k], sub)]

ByLeafB(t) ==
  [apicid  |-> Sub(t, 0).apicid,
   package |-> Sub(t, 0).apicid \div 2^Sub(t, 1).shift,
   core    |-> (Sub(t, 0).apicid % 2^Sub(t, 1).shift) \div 2^Sub(t, 0).shift,
   cores   |-> Sub(t, 1).nr_lp \div Sub(t, 0).nr_lp]

ByLeaf8(t) ==
  LET bits == TheLeaf(t, "0x80000008").idsize
      apic == TheLeaf(t, "1").apicid
  IN [apicid |-> apic, package |-> apic \div 2^bits, core |-> apic % 2^bits,
      cores  |-> TheLeaf(t, "0x80000008").nc + 1]

ByLeaf1E(t) ==
  [apicid  |-> TheLeaf(t, "0x8000001E").apicid,
   package |-> TheLeaf(t, "0x8000001E").node,
   core    |-> TheLeaf(t, "0x8000001E").core,
   cores   |-> TheLeaf(t, "0x80000008").nc + 1]

(* smp.c:80-82, :175: every way to enumerate the processors finds one      *)
(* socket of n cores with one thread each, and vCPU v with APIC id v; so   *)
(* no two vCPUs claim the same place.                                      *)
PathsAgree ==
  \A v \in DOMAIN cpuid :
    LET t == cpuid[v]
        Me == [apicid |-> v, package |-> 0, core |-> v, cores |-> nr_vcpus]
    IN t # <<>> =>
         /\ ByLeafB(t) = Me /\ ByLeaf8(t) = Me /\ ByLeaf1E(t) = Me
         /\ \E k \in DOMAIN t : IsSubleaf(t[k], 2) /\ t[k].type = "end"

(* kvm_wrappers.c:157-177, smp.c:115-121: a host whose leaves fit in the   *)
(* largest buffer gets its table through, when neither memory nor KVM      *)
(* fails; the table loses no entry of the host and holds no subleaf twice. *)
TableFits ==
  \A v \in DOMAIN cpuid :
    LET t == cpuid[v] IN
      /\ ~host.fails /\ Entries(host.leaves) <= MaxNent => t # <<>>
      /\ t # <<>> => Len(host.leaves) <= Len(t)
      /\ \A k, j \in DOMAIN t :
           k # j => t[k].fn # t[j].fn \/ t[k].index # t[j].index

Ids(s, type) == {s[k].apicid : k \in {j \in DOMAIN s : s[j].type = type}}

(* mptable.c:125, acpi.c:251: CPUID, MP table and MADT name the same       *)
(* processors; both tables have one IOAPIC whose id is nobody's APIC id    *)
(* and the MP table routes all interrupts to it; the size mptable_setup()  *)
(* checks is the one it writes, and no two ACPI tables overlap.            *)
FirmwareAgrees ==
  id = nr_vcpus =>
    LET mp == MpEntries(nr_vcpus)
        ma == MadtEntries(nr_vcpus)
        t  == AcpiTables(nr_vcpus)
    IN /\ Ids(mp, "cpu") = Ids(ma, "cpu")
       /\ \A v \in DOMAIN cpuid :
            cpuid[v] # <<>> => TheLeaf(cpuid[v], "1").apicid \in Ids(ma, "cpu")
       /\ Ids(mp, "ioapic") = Ids(ma, "ioapic")
       /\ Ids(mp, "ioapic") \cap Ids(mp, "cpu") = {}
       /\ \A k \in DOMAIN mp : mp[k].type = "int" => mp[k].dst \in Ids(mp, "ioapic")
       /\ 16 + 44 + SizeOf(mp) = MpSize(nr_vcpus)
       /\ \A a, b \in DOMAIN t : a # b => t[a].hi <= t[b].lo \/ t[b].hi <= t[a].lo
=============================================================================
