-------------------------------- MODULE Boot --------------------------------
(***************************************************************************)
(* From the command line to the first instruction of the guest: main() and *)
(* boot_linux() of src/main.c, with what they call: the parser             *)
(* (CommandLine), vm_create() with the CPUID tables (Topology), the kernel *)
(* loaders (KernelLoad), src/boot/zeropage.c, and the GDT, page tables     *)
(* (PageTable) and registers of src/boot/gdt_pgtable.c.                    *)
(*                                                                         *)
(* Guest-physical addresses are in units of 512 bytes, eight to a page.    *)
(* The state is what lies where in RAM.  A failure ends in vm_destroy(),   *)
(* which is VmLifecycle's; so are the failures of vm_create() other than   *)
(* through the configuration, which host.fails stands for here.            *)
(***************************************************************************)
EXTENDS CommandLine, Topology, KernelLoad, PageTable, FiniteSetsExt

CONSTANT Inputs     (* the command lines, hosts and files to start from    *)

VARIABLES
  stage,            (* the function main() has come to                     *)
  data,             (* the initrd, or the payload of the other modes: what *)
                    (* stat() says, its size when it is opened, and what   *)
                    (* can be read of it                                   *)
  placed,           (* what the boot code has put where, the kernel aside  *)
  bp,               (* boot_params: the memory map and the initrd          *)
  regs              (* the registers of the boot vCPU                      *)

boot == <<stage, data, placed, bp, regs>>
vars == <<cmdline_vars, topology, kernel, boot>>

(* Addresses and sizes of include/boot/{gdt_pgtable,zeropage,mptable,acpi}.h. *)
BootParams == 56      (* 0x7000                                            *)
CmdlineGpa == 256     (* 0x20000                                           *)
EbdaStart  == 1278    (* 0x9fc00, also the MP table                        *)
AcpiGpa    == 1792    (* 0xe0000                                           *)
AcpiSize   == 128     (* ACPI_TABLES_MAX                                   *)
ThreeGiB   == 6291456
DefaultTop == 1835008 (* ZP_INITRD_ADDR_MAX + 1                            *)
Page       == 8
TwoMiB     == 4096

ASSUME BootAssumption ==
  /\ ThreeGiB + DefaultMap <= Top /\ DefaultMap \in Nat
  /\ DefaultTop <= DefaultMap
  /\ AcpiGpa + AcpiSize <= HighMem
  /\ CmdlineMax \in Nat /\ CmdlineMax <= 512 * (EbdaStart - CmdlineGpa)
  /\ DefaultRam \in 0 .. Top - Page /\ LongPayload \in Addr /\ DefaultCmdline \in Nat

(* The values of the options that are numbers.  A larger --mem cannot be   *)
(* rounded up to pages.                                                    *)
ArgOK(a) ==
  a.val # Malformed =>
    /\ a.opt = "mem" => a.val \in 0 .. Top - Page
    /\ a.opt \in {"load", "map"} => a.val \in Addr
    /\ a.opt \in {"cmdline", "append"} => a.val \in Nat

(* read() into a buffer of the file's size returns no more than that.      *)
DataOK(d) ==
  /\ d.stat # None => d.stat \in Addr
  /\ d.size # None => d.size \in Addr
  /\ d.size \notin {None, 0} /\ d.read # None => d.read \in 0 .. d.size

ASSUME InputsAssumption ==
  \A i \in Inputs :
    /\ Len(i.argv) \in Nat /\ \A k \in 1 .. Len(i.argv) : ArgOK(i.argv[k])
    /\ i.file \in KernelFile /\ DataOK(i.data) /\ HostOK(i.host)

Region(what, from, n) == [what |-> what, lo |-> from, hi |-> from + n]
Regions == placed \cup {Region("kernel", r.lo, r.hi - r.lo) : r \in loaded}

BootInit ==
  /\ \E i \in Inputs : argv = i.argv /\ host = i.host /\ file = i.file /\ data = i.data
  /\ CmdlineInit /\ TopologyInit /\ KernelInit /\ ram = 0
  /\ stage = "parse" /\ placed = {} /\ regs = None
  /\ bp = [e820 |-> <<>>, initrd |-> None]

Stages == {"parse", "create", "vcpus", "kernel", "mptable", "acpi", "zeropage", "initrd",
           "payload", "real16", "tables", "registers", "run", "failed", "help"}

BootTypeOK ==
  /\ CmdlineTypeOK /\ TopologyTypeOK /\ KernelTypeOK
  /\ stage \in Stages
  /\ placed \subseteq [what : {"mptable", "acpi", "boot_params", "cmdline", "initrd",
                               "payload", "tables", "pts", "gdt"}, lo : Addr, hi : Addr]
  /\ regs = None <=> stage # "run"

Fails == stage' = "failed" /\ UNCHANGED <<placed, bp, regs>>

-----------------------------------------------------------------------------

Parse ==
  /\ stage = "parse" /\ CmdlineNext
  /\ stage' = CASE parsing' = "args" -> "parse"
                [] parsing' = "ok"   -> "create"
                [] OTHER             -> parsing'
  /\ UNCHANGED <<topology, kernel, data, placed, bp, regs>>

RoundUp(x, a)   == ((x + a - 1) \div a) * a
RoundDown(x, a) == (x \div a) * a

(* vm_create() up to the vCPUs: mmap() refuses a size of 0.                *)
vm_create ==
  /\ stage = "create"
  /\ \/ /\ cfg.mem # 0
        /\ stage' = "vcpus" /\ ram' = RoundUp(cfg.mem, Page) /\ nr_vcpus' = cfg.smp
     \/ /\ cfg.mem = 0 \/ host.fails
        /\ stage' = "failed" /\ UNCHANGED <<ram, nr_vcpus>>
  /\ UNCHANGED <<cmdline_vars, host, id, nent, table, cpuid, file, step, ph, lo, hi,
                 entry, found, reads, loaded, image, data, placed, bp, regs>>

InitVcpus ==
  /\ stage = "vcpus" /\ InitVcpu
  /\ stage' = CASE id' < nr_vcpus        -> "vcpus"
                [] id' = nr_vcpus /\ cfg.mode = "linux" -> "kernel"
                [] id' = nr_vcpus /\ cfg.mode # "linux" -> "payload"
  /\ UNCHANGED <<cmdline_vars, kernel, data, placed, bp, regs>>

(* boot_linux() wants the whole kernel above 1 MiB.                        *)
LoadKernel ==
  /\ stage = "kernel"
  /\ KernelNext
  /\ stage' = CASE step' # "done"                         -> "kernel"
                [] step' = "done" /\ image'.fmt = "failed"    -> "failed"
                [] step' = "done" /\ image'.fmt # "failed"    ->
                     IF image'.lo < HighMem THEN "failed" ELSE "mptable"
  /\ UNCHANGED <<cmdline_vars, topology, data, placed, bp, regs>>

-----------------------------------------------------------------------------

mptable_setup ==
  /\ stage = "mptable"
  /\ IF nr_vcpus \in 1 .. 254 /\ MpSize(nr_vcpus) <= 1024 /\ InRam(EbdaStart, 2)
     THEN /\ stage' = "acpi"
          /\ placed' = placed \cup {Region("mptable", EbdaStart, 2)}
          /\ UNCHANGED <<bp, regs>>
     ELSE Fails

acpi_setup ==
  /\ stage = "acpi"
  /\ IF InRam(AcpiGpa, AcpiSize) /\ AcpiTables(nr_vcpus).madt.hi <= AcpiSize * 512
     THEN /\ stage' = "zeropage"
          /\ placed' = placed \cup {Region("acpi", AcpiGpa, AcpiSize)}
          /\ UNCHANGED <<bp, regs>>
     ELSE Fails

(* Mutant: conventional memory goes up to 640 KiB.                         *)
E820To640K(size) ==
  << [lo |-> 0, hi |-> 1280, type |-> "RAM"],
     [lo |-> 1280, hi |-> HighMem, type |-> "reserved"],
     [lo |-> HighMem, hi |-> size, type |-> "RAM"] >>

E820(size) ==
  << [lo |-> 0, hi |-> EbdaStart, type |-> "RAM"],
     [lo |-> EbdaStart, hi |-> HighMem, type |-> "reserved"],
     [lo |-> HighMem, hi |-> size, type |-> "RAM"] >>

(* zeropage_setup() up to the initrd.                                      *)
zeropage_setup ==
  /\ stage = "zeropage"
  /\ LET cl_size == RoundUp(cfg.cmdline + 1, 512) \div 512 IN
     IF /\ HighMem < ram /\ ram <= ThreeGiB
        /\ InRam(BootParams, Page) /\ InRam(CmdlineGpa, cl_size)
        /\ cfg.cmdline + 1 <= CmdlineMax
        /\ image.fmt = "bzImage" => cfg.cmdline <= file.cmdline_size
     THEN /\ stage' = "initrd"
          /\ placed' = placed \cup {Region("boot_params", BootParams, Page),
                                    Region("cmdline", CmdlineGpa, cl_size)}
          /\ bp' = [e820 |-> E820(ram), initrd |-> None]
          /\ UNCHANGED regs
     ELSE Fails

(* mem_load_file() of the initrd or the payload.                           *)
CanLoad(gpa) ==
  /\ data.size \notin {None, 0}
  /\ InRam(gpa, data.size)
  /\ data.read # None

(* What the kernel's header says, 0 for none, clamped by boot_linux().     *)
HeaderTop == IF image.fmt = "bzImage" THEN file.initrd_top ELSE 0

(* Mutant: boot_linux() does not clamp.                                    *)
InitrdTopUnclamped ==
  Min({ram, IF HeaderTop = 0 THEN DefaultTop ELSE HeaderTop})

(* Where the initrd has to end.                                            *)
InitrdTop ==
  Min({ram, IF HeaderTop = 0 THEN DefaultTop ELSE Min({HeaderTop, DefaultMap})})

(* Mutant: the size is that of the earlier stat().                         *)
RamdiskAsStat(gpa) == [image |-> gpa, size |-> data.stat]

Ramdisk(gpa) == [image |-> gpa, size |-> data.read]

load_initrd ==
  /\ stage = "initrd"
  /\ IF data.stat # None /\ data.stat <= InitrdTop
     THEN LET gpa == RoundDown(InitrdTop - data.stat, TwoMiB) IN
          IF gpa >= image.hi /\ CanLoad(gpa)
          THEN /\ stage' = "tables"
               /\ placed' = placed \cup {Region("initrd", gpa, data.read)}
               /\ bp' = [bp EXCEPT !.initrd = Ramdisk(gpa)]
               /\ UNCHANGED regs
          ELSE Fails
     ELSE Fails

-----------------------------------------------------------------------------
(* The modes without a kernel.                                             *)

LoadPayload ==
  /\ stage = "payload"
  /\ IF CanLoad(cfg.load)
     THEN /\ stage' = IF cfg.mode = "real16" THEN "real16" ELSE "tables"
          /\ placed' = {Region("payload", cfg.load, data.read)}
          /\ UNCHANGED <<bp, regs>>
     ELSE Fails

(* IP has 16 bits.                                                         *)
boot_setup_real_mode ==
  /\ stage = "real16"
  /\ \/ /\ cfg.entry < 128
        /\ stage' = "run"
        /\ regs' = [rip |-> cfg.entry, rsp |-> 64, rsi |-> 0]
        /\ UNCHANGED <<placed, bp>>
     \/ (cfg.entry >= 128 \/ host.fails) /\ Fails

-----------------------------------------------------------------------------
(* Long mode: the tables, the GDT and the registers.                       *)

MapSize == IF cfg.mode = "long64" THEN cfg.map ELSE DefaultMap

layout ==                                                     \* in pages
  [gdt |-> 1, pml4 |-> 2, pdpt |-> 3, pd |-> 4, pt |-> 5,
   gran |-> IF cfg.mode = "long64" THEN cfg.gran ELSE "2m",
   map |-> MapSize \div Page]

(* GDT and tables, as far as they may reach.                               *)
TableArea == Region("tables", Page * layout.gdt, Page * (TableTop(layout) - layout.gdt))

boot_layout_validate ==
  /\ MapSize % TwoMiB = 0 /\ layout.map <= Fanout * Gib
  /\ InRam(TableArea.lo, TableArea.hi - TableArea.lo)

check_payload_overlap ==
  \/ data.read = 0
  \/ cfg.load >= TableArea.hi
  \/ TableArea.lo >= cfg.load + data.read

(* What boot_build_page_table() writes: three pages, and a PT for 2 MiB.   *)
Tables ==
  {Region("tables", Page * page, Page) : page \in {layout.pml4, layout.pdpt, layout.pd}}
  \cup IF layout.gran = "2m" THEN {}
       ELSE {Region("pts", Page * layout.pt, Page * (layout.map \div Fanout))}

boot_build_page_table ==
  /\ stage = "tables"
  /\ IF /\ boot_layout_validate
        /\ cfg.mode = "long64" => check_payload_overlap
        /\ layout.map <= Gib
        /\ \A t \in Tables : t.lo < t.hi => InRam(t.lo, t.hi - t.lo)
     THEN /\ stage' = "registers"
          /\ placed' = placed \cup Tables
          /\ UNCHANGED <<bp, regs>>
     ELSE Fails

(* boot_setup_linux64(), or boot_build_gdt() and boot_setup_long_mode().   *)
setup_long_mode ==
  /\ stage = "registers"
  /\ \/ /\ InRam(Page * layout.gdt, 1)
        /\ stage' = "run"
        /\ placed' = placed \cup {Region("gdt", Page * layout.gdt, 1)}
        /\ regs' = [rip |-> IF cfg.mode = "linux" THEN image.entry ELSE cfg.entry,
                    rsp |-> TwoMiB,
                    rsi |-> IF cfg.mode = "linux" THEN BootParams ELSE 0]
        /\ UNCHANGED bp
     \/ (host.fails \/ ~InRam(Page * layout.gdt, 1)) /\ Fails

Build ==
  /\ \/ mptable_setup \/ acpi_setup \/ zeropage_setup \/ load_initrd
     \/ LoadPayload \/ boot_setup_real_mode
     \/ boot_build_page_table \/ setup_long_mode
  /\ UNCHANGED <<cmdline_vars, topology, kernel, data>>

BootNext == Parse \/ vm_create \/ InitVcpus \/ LoadKernel \/ Build

BootSpec == BootInit /\ [][BootNext]_vars

-----------------------------------------------------------------------------

Disjoint(r, s) == r.lo = r.hi \/ s.lo = s.hi \/ r.hi <= s.lo \/ s.hi <= r.lo

(* include/boot/gdt_pgtable.h:26, zeropage.h:19, main.c:353-354, :407: what *)
(* the boot code puts into RAM lies there, and nothing is put over         *)
(* anything else (the segments of a kernel file are its own affair).       *)
RegionsDisjoint ==
  /\ \A r \in Regions : r.hi <= ram
  /\ stage # "failed" =>
       \A r, s \in Regions : r.what # s.what => Disjoint(r, s)

EntersLinux == stage = "run" /\ cfg.mode = "linux"

PageOf(x) == x \div Page

(* Where what the code looked at ends: of an initrd that has grown since   *)
(* stat() it is the size that stat() told.                                 *)
Needs(what) == what \in {"kernel", "boot_params", "cmdline", "initrd"}
NeededEnd(r) ==
  IF r.what = "initrd" /\ data.read > data.stat THEN r.lo + data.stat ELSE r.hi

(* include/boot/zeropage.h:4-5: when Linux is entered (it is always by the *)
(* default layout) the kernel, the boot_params, the command line and the   *)
(* initrd are mapped to themselves, and so is the entry; of an initrd that *)
(* has grown since stat(), as much as stat() told.  The code does not look *)
(* whether a bzImage has the 0x200 bytes its entry lies above its load     *)
(* address: if not, the entry may be beyond the map.                       *)
IdentityMapCovers ==
  EntersLinux =>
    /\ (image.fmt = "bzImage" => regs.rip < image.hi)
       => Walk(layout, PageOf(regs.rip)) = PageOf(regs.rip)
    /\ \A r \in Regions :
         Needs(r.what) /\ r.lo < NeededEnd(r) =>
           \A p \in {PageOf(r.lo), PageOf(NeededEnd(r) - 1)} : Walk(layout, p) = p

(* Pages where an index of the walk changes, or the map ends.              *)
Probes ==
  {0, 1, Fanout - 1, Fanout, layout.map - 1, layout.map, Gib - 1, Gib, Fanout * Gib}
  \cap Linear

(* gdt_pgtable.c:136, :104-106: a guest that is entered with paging sees   *)
(* every address of the map as itself, and nothing beyond the map.         *)
PagingIsIdentity ==
  stage = "run" /\ cfg.mode # "real16" =>
    \A gva \in Probes : MappedToItself(layout, gva)

(* zeropage.c:156-158, mptable.h:21, acpi.h:22: the memory map has no gap  *)
(* and no overlap; a guest that keeps to it allocates over neither the MP  *)
(* table nor the ACPI tables, and finds everything else in RAM.            *)
MemoryMap ==
  EntersLinux =>
    LET m == bp.e820
        In(r, type) == \E k \in DOMAIN m :
                         m[k].type = type /\ m[k].lo <= r.lo /\ r.hi <= m[k].hi
    IN /\ m[1].lo = 0 /\ m[Len(m)].hi = ram
       /\ \A k \in 1 .. Len(m) - 1 : m[k].lo < m[k].hi /\ m[k].hi = m[k + 1].lo
       /\ \A r \in Regions :
            In(r, IF r.what \in {"mptable", "acpi"} THEN "reserved" ELSE "RAM")

(* zeropage.c:31-33, main.c:432-433: the initrd the guest is told of is    *)
(* what was read, above the kernel, on a 2 MiB boundary, the highest that  *)
(* leaves room for the size of stat(); if the file has not grown since, it *)
(* ends in RAM and below both the kernel's limit and 1 GiB.                *)
InitrdFits ==
  EntersLinux =>
    LET i   == bp.initrd
        top == Min({ram, DefaultMap, IF HeaderTop = 0 THEN DefaultTop ELSE HeaderTop})
    IN /\ Region("initrd", i.image, i.size) \in placed
       /\ i.image % TwoMiB = 0 /\ i.image >= image.hi
       /\ i.image + data.stat <= top /\ top < i.image + TwoMiB + data.stat
       /\ data.read <= data.stat => i.image + i.size <= top

(* gdt_pgtable.c:335, "2MiB 处向下growing，够 payload 用": the memory below *)
(* the stack pointer of a long mode payload is not that of the tables.     *)
StackIsFree ==
  stage = "run" /\ cfg.mode = "long64" =>
    \A r \in placed :
      r.what # "payload" => Disjoint(r, Region("stack", regs.rsp - Page, Page))
=============================================================================
