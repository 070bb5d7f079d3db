----------------------------- MODULE KernelLoad -----------------------------
(***************************************************************************)
(* kernel_load(): src/boot/kernel_loader.c, elf_loader.c and bzimage.c.    *)
(*                                                                         *)
(* Addresses, sizes and offsets are uint64_t fields of the file, in        *)
(* sectors of 512 bytes; sums of them wrap at Top.  A file is a record of  *)
(* the fields the loaders look at; the setup header is reduced to one flag *)
(* for each group of checks on a field of its own.  The file does not      *)
(* change while it is mapped.  What a history variable calls a range is    *)
(* counted in Nat: a wrapped sum is not a range of the file or of RAM.     *)
(***************************************************************************)
EXTENDS Naturals, Sequences

CONSTANTS
  Top,            (* addresses are 0 .. Top - 1: 2^64                      *)
  EhdrSize,       (* sizeof(Elf64_Ehdr)                                    *)
  PhdrSize,       (* sizeof(Elf64_Phdr)                                    *)
  HighMem         (* ZP_HIGH_MEM_START, also BZ_DEFAULT_LOAD               *)

ASSUME KernelAssumption ==
  /\ Top \in Nat /\ EhdrSize \in Nat /\ PhdrSize \in Nat
  /\ HighMem \in 1 .. Top - 1

VARIABLES
  file,           (* the kernel file                                       *)
  ram,            (* vm->mem.ram_size                                      *)
  step,           (* where kernel_load() is                                *)
  ph, lo, hi, entry, found,     (* the locals of elf_load_vmlinux()        *)
  reads,          (* history: ranges of the file that were read            *)
  loaded,         (* history: ranges of RAM that were written              *)
  image           (* the result: *img                                      *)

kernel == <<file, ram, step, ph, lo, hi, entry, found, reads, loaded, image>>

Addr == 0 .. Top - 1

Segment == [load : BOOLEAN, offset : Addr, filesz : Addr, vaddr : Addr,
            paddr : Addr, memsz : Addr]

KernelFile ==
  [kind : {"unreadable", "other"}]
  \cup [kind : {"elf"}, size : Addr, x86_64 : BOOLEAN, phoff : Addr,
        phs : Seq(Segment), entry : Addr]
  \cup [kind : {"bzImage"}, size : Addr, header : BOOLEAN, sects : Addr,
        syssize : Addr, pref : Addr, aligned : BOOLEAN, init_size : Addr,
        initrd_top : Addr, cmdline_size : Nat]

(* A range of n units from x.                                              *)
Span(x, n) == [lo |-> x, hi |-> x + n]
Extent == [lo : Nat, hi : Nat]

KernelTypeOK ==
  /\ file \in KernelFile
  /\ ram \in Addr
  /\ step \in {"open", "ehdr", "phdrs", "bzImage", "done"}
  /\ ph \in Nat \ {0}
  /\ lo \in Addr /\ hi \in Addr /\ entry \in Addr /\ found \in BOOLEAN
  /\ reads \subseteq Extent /\ loaded \subseteq Extent
  /\ image \in [fmt : {"none", "failed"}]
       \cup [fmt : {"elf", "bzImage"}, lo : Addr, hi : Addr, entry : Addr]

KernelInit ==
  /\ step = "open"
  /\ ph = 1 /\ lo = Top - 1 /\ hi = 0 /\ entry = 0 /\ found = FALSE
  /\ reads = {} /\ loaded = {} /\ image = [fmt |-> "none"]

-----------------------------------------------------------------------------
(* uint64_t arithmetic.                                                    *)

Plus(a, b)  == IF a + b >= Top THEN a + b - Top ELSE a + b
Minus(a, b) == IF a >= b THEN a - b ELSE a + Top - b

(* gpa_to_hva() # NULL, with the one slot of RAM.                          *)
InRam(gpa, len) ==
  /\ len # 0
  /\ Plus(gpa, len) >= gpa
  /\ gpa < ram
  /\ Plus(gpa, len) <= ram

Fail ==
  /\ step' = "done" /\ image' = [fmt |-> "failed"]
  /\ UNCHANGED <<file, ram, ph, lo, hi, entry, found, reads, loaded>>

(* The first bytes of the file decide which loader gets it.                *)
kernel_load ==
  /\ step = "open"
  /\ \/ file.kind \in {"unreadable", "other"} /\ Fail
     \/ /\ file.kind = "elf"
        /\ step' = "ehdr"
        /\ UNCHANGED <<file, ram, ph, lo, hi, entry, found, reads, loaded, image>>
     \/ /\ file.kind = "bzImage"
        /\ step' = "bzImage"
        /\ UNCHANGED <<file, ram, ph, lo, hi, entry, found, reads, loaded, image>>

-----------------------------------------------------------------------------
(* vmlinux.                                                                *)

(* Mutant: the sum the comment above check_ehdr() warns of.                *)
TableInFileBySum == Plus(file.phoff, Len(file.phs) * PhdrSize) <= file.size

TableInFile ==
  /\ file.phoff <= file.size
  /\ Len(file.phs) * PhdrSize <= file.size - file.phoff

check_ehdr ==
  /\ step = "ehdr"
  /\ IF file.size >= EhdrSize /\ file.x86_64 /\ TableInFile
     THEN /\ step' = "phdrs"
          /\ entry' = file.entry
          /\ reads' = {Span(0, EhdrSize), Span(file.phoff, Len(file.phs) * PhdrSize)}
          /\ UNCHANGED <<file, ram, ph, lo, hi, found, loaded, image>>
     ELSE Fail

BadSegment(p) ==
  \/ p.filesz > p.memsz
  \/ p.offset > file.size
  \/ p.filesz > file.size - p.offset

(* Is x in the memsz bytes from start, as the code computes it?            *)
Within(x, start, memsz) == start <= x /\ x < Plus(start, memsz)

(* The entry is looked for until it is found, physically, then virtually.  *)
FindEntry(p) ==
  IF ~found /\ ~Within(entry, p.paddr, p.memsz) /\ Within(entry, p.vaddr, p.memsz)
  THEN found' = TRUE /\ entry' = Plus(Minus(entry, p.vaddr), p.paddr)
  ELSE /\ found' = (found \/ Within(entry, p.paddr, p.memsz))
       /\ UNCHANGED entry

(* Mutant: the extent is that of the last segment.                         *)
WidenToLast(p) == lo' = p.paddr /\ hi' = Plus(p.paddr, p.memsz)

Widen(p) ==
  /\ lo' = IF p.paddr < lo THEN p.paddr ELSE lo
  /\ hi' = IF Plus(p.paddr, p.memsz) > hi THEN Plus(p.paddr, p.memsz) ELSE hi

(* One turn of the loop over the program headers.                          *)
LoadSegment ==
  /\ step = "phdrs" /\ ph <= Len(file.phs)
  /\ LET p == file.phs[ph]
         skipped == ~p.load \/ p.memsz = 0
     IN \/ /\ skipped
           /\ ph' = ph + 1
           /\ UNCHANGED <<file, ram, step, lo, hi, entry, found, reads, loaded, image>>
        \/ /\ ~skipped /\ (BadSegment(p) \/ ~InRam(p.paddr, p.memsz))
           /\ Fail
        \/ /\ ~skipped /\ ~BadSegment(p) /\ InRam(p.paddr, p.memsz)
           /\ ph' = ph + 1
           /\ reads' = reads \cup {Span(p.offset, p.filesz)}
           /\ loaded' = loaded \cup {Span(p.paddr, p.memsz)}
           /\ Widen(p) /\ FindEntry(p)
           /\ UNCHANGED <<file, ram, step, image>>

FinishElf ==
  /\ step = "phdrs" /\ ph > Len(file.phs)
  /\ IF loaded # {} /\ found                     \* nr_load, entry_found
     THEN /\ step' = "done"
          /\ image' = [fmt |-> "elf", lo |-> lo, hi |-> hi, entry |-> entry]
          /\ UNCHANGED <<file, ram, ph, lo, hi, entry, found, reads, loaded>>
     ELSE Fail

-----------------------------------------------------------------------------
(* bzImage.                                                                *)

(* The protected-mode part starts after the boot sector and the setup      *)
(* sectors, 4 when the header says 0.                                      *)
SetupEnd == 1 + (IF file.sects = 0 THEN 4 ELSE file.sects)

LoadAddress == IF file.pref # 0 THEN file.pref ELSE HighMem

(* The memory the kernel needs from its load address: init_size, or the    *)
(* protected-mode part if that is larger.                                  *)
Needed ==
  IF file.init_size > file.size - SetupEnd THEN file.init_size
                                           ELSE file.size - SetupEnd

bzimage_load ==
  /\ step = "bzImage"
  /\ IF /\ file.header               \* size, version, XLF_KERNEL_64, LOADED_HIGH
        /\ SetupEnd < file.size
        /\ file.syssize <= file.size - SetupEnd
        /\ file.aligned              \* or not relocatable
        /\ LoadAddress >= HighMem
        /\ InRam(LoadAddress, Needed)
     THEN /\ step' = "done"
          /\ reads' = {Span(SetupEnd, file.size - SetupEnd)}
          /\ loaded' = {Span(LoadAddress, Needed)}
          /\ image' = [fmt   |-> "bzImage", lo |-> LoadAddress,
                       hi    |-> Plus(LoadAddress, Needed),
                       entry |-> Plus(LoadAddress, 1)]         \* + 0x200
          /\ UNCHANGED <<file, ram, ph, lo, hi, entry, found>>
     ELSE Fail

KernelNext ==
  \/ kernel_load \/ check_ehdr \/ LoadSegment \/ FinishElf \/ bzimage_load

KernelSpec ==
  /\ KernelInit /\ ram \in Addr /\ file \in KernelFile
  /\ [][KernelNext]_kernel

-----------------------------------------------------------------------------

(* elf_loader.c:43-47, :105-108: whatever offsets, sizes and counts the    *)
(* file holds, only bytes of the file are read from its mapping.           *)
ReadsInFile == \A r \in reads : r.hi <= file.size

Image == INSTANCE KernelImage

(* kernel_loader.c:27-68: success hands boot_linux() an image that lies in *)
(* RAM, whose extent is that of the ranges written, entered at a loaded    *)
(* byte; a failure hands it none, and nothing is written outside RAM.      *)
IsKernelImage == Image!Spec
=============================================================================
