----------------------------- MODULE Boot_proofs -----------------------------
(***************************************************************************)
(* Proofs about the boot process, for every command line, kernel, initrd   *)
(* and payload with numbers of the right width, and every size of RAM.     *)
(* First its three parts: kernel_load(), for every file and every width of *)
(* an address; the page tables of boot_build_page_table(), for every       *)
(* layout and both granularities; the tables that describe the processors, *)
(* for every host and number of vCPUs.  Then main() as a whole.            *)
(***************************************************************************)
EXTENDS Boot, WellFoundedInduction, TLAPS

-----------------------------------------------------------------------------
(* kernel_load().                                                          *)

Segments == 1 .. Len(file.phs)

(* uint64_t sums stay in the width.                                        *)
LEMMA Sums ==
  ASSUME NEW a \in Addr, NEW b \in Addr
  PROVE  /\ Plus(a, b) \in Addr
         /\ Minus(a, b) \in Addr
         /\ Plus(a, b) >= a => Plus(a, b) = a + b
BY KernelAssumption DEF Plus, Minus, Addr, KernelAssumption

(* What gpa_to_hva() accepts is a range of RAM, and its end did not wrap.  *)
LEMMA Accepted ==
  ASSUME ram \in Addr, NEW gpa \in Addr, NEW len \in Addr, InRam(gpa, len)
  PROVE  /\ Plus(gpa, len) = gpa + len
         /\ gpa < gpa + len /\ gpa + len <= ram /\ gpa < Top - 1
BY KernelAssumption, Sums DEF InRam, Addr, KernelAssumption

(* An entry in the memsz bytes from start is less than memsz above it.     *)
LEMMA Inside ==
  ASSUME NEW x \in Addr, NEW start \in Addr, NEW memsz \in Addr,
         Within(x, start, memsz)
  PROVE  Minus(x, start) = x - start /\ x - start \in 0 .. memsz - 1
<1>1. Plus(start, memsz) \in Addr /\ (Plus(start, memsz) >= start => Plus(start, memsz) = start + memsz)
  BY Sums
<1> QED
  BY <1>1, KernelAssumption DEF Within, Minus, Addr, KernelAssumption

(* The fields of the two kinds of file a loader looks into.                *)
LEMMA ElfFile ==
  ASSUME file \in KernelFile, file.kind = "elf"
  PROVE  /\ file.size \in Addr /\ file.phoff \in Addr /\ file.entry \in Addr
         /\ file.phs \in Seq(Segment) /\ Len(file.phs) \in Nat
         /\ \A k \in Segments : file.phs[k] \in Segment
<1>1. file.size \in Addr /\ file.phoff \in Addr /\ file.entry \in Addr /\ file.phs \in Seq(Segment)
  BY DEF KernelFile
<1> QED
  BY <1>1 DEF Segments

LEMMA BzFile ==
  ASSUME file \in KernelFile, file.kind = "bzImage"
  PROVE  /\ file.size \in Addr /\ file.sects \in Addr /\ file.pref \in Addr
         /\ file.syssize \in Addr /\ file.init_size \in Addr
BY DEF KernelFile

LEMMA Products == \A a, b \in Nat : a * b \in Nat
OBVIOUS

-----------------------------------------------------------------------------
(* Types, and what each step knows of the file.                            *)

KindInv ==
  /\ step \in {"ehdr", "phdrs"} => file.kind = "elf"
  /\ step = "bzImage" => file.kind = "bzImage"

TypeInv == KernelTypeOK /\ KindInv

(* What bzimage_load() computes before it looks at RAM.                    *)
LEMMA BzNumbers ==
  ASSUME KernelTypeOK, file.kind = "bzImage", SetupEnd < file.size
  PROVE  /\ SetupEnd \in Nat /\ Needed \in Addr /\ LoadAddress \in Addr
         /\ file.size - SetupEnd \in Addr
BY BzFile, KernelAssumption
   DEF KernelTypeOK, SetupEnd, Needed, LoadAddress, Addr, KernelAssumption

LEMMA TypeStart == KernelInit /\ ram \in Addr /\ file \in KernelFile => TypeInv
<1> SUFFICES ASSUME KernelInit, ram \in Addr, file \in KernelFile PROVE TypeInv
  OBVIOUS
<1>1. Top - 1 \in Addr /\ 0 \in Addr
  BY KernelAssumption DEF Addr, KernelAssumption
<1>2. [fmt |-> "none"] \in [fmt : {"none", "failed"}]
  OBVIOUS
<1>3. found \in BOOLEAN
  BY Zenon DEF KernelInit
<1>4. KindInv
  BY DEF KernelInit, KindInv
<1> QED
  BY <1>1, <1>2, <1>3, <1>4 DEF KernelInit, TypeInv, KernelTypeOK

LEMMA TypeStep == TypeInv /\ [KernelNext]_kernel => TypeInv'
<1> SUFFICES ASSUME TypeInv, [KernelNext]_kernel PROVE TypeInv'
  OBVIOUS
<1> USE DEF TypeInv, KindInv
<1>0. CASE UNCHANGED kernel
  BY <1>0 DEF kernel, KernelTypeOK
<1>1. CASE kernel_load
  BY <1>1 DEF kernel_load, Fail, KernelTypeOK
<1>2. CASE check_ehdr
  <2>1. file.kind = "elf" /\ file.phoff \in Addr /\ file.entry \in Addr /\ Len(file.phs) \in Nat
    BY <1>2, ElfFile DEF check_ehdr, KernelTypeOK
  <2>2. Len(file.phs) * PhdrSize \in Nat
    BY <2>1, Products, KernelAssumption DEF KernelAssumption
  <2>3. /\ Span(0, EhdrSize) \in Extent
        /\ Span(file.phoff, Len(file.phs) * PhdrSize) \in Extent
    BY <2>1, <2>2, KernelAssumption DEF Span, Extent, Addr, KernelAssumption
  <2> QED
    BY <1>2, <2>1, <2>3 DEF check_ehdr, Fail, KernelTypeOK
<1>3. CASE LoadSegment
  <2> DEFINE p == file.phs[ph]
  <2>1. p \in Segment /\ ph' \in Nat \ {0} /\ file.kind = "elf"
    BY <1>3, ElfFile DEF LoadSegment, Segments, KernelTypeOK, Fail
  <2>2. /\ p.offset \in Addr /\ p.filesz \in Addr /\ p.vaddr \in Addr
        /\ p.paddr \in Addr /\ p.memsz \in Addr
    BY <2>1 DEF Segment
  <2>3. Span(p.offset, p.filesz) \in Extent /\ Span(p.paddr, p.memsz) \in Extent
    BY <2>2 DEF Span, Extent, Addr
  <2>4. CASE Fail
    BY <1>3, <2>1, <2>4 DEF Fail, KernelTypeOK
  <2>5. CASE UNCHANGED <<file, ram, step, lo, hi, entry, found, reads, loaded, image>>
    BY <2>1, <2>5 DEF KernelTypeOK
  <2>6. CASE /\ Widen(p) /\ FindEntry(p)
             /\ reads' = reads \cup {Span(p.offset, p.filesz)}
             /\ loaded' = loaded \cup {Span(p.paddr, p.memsz)}
             /\ UNCHANGED <<file, ram, step, image>>
    <3>1. lo' \in Addr /\ hi' \in Addr
      BY <2>2, <2>6, Sums DEF Widen, KernelTypeOK
    <3>2. entry' \in Addr /\ found' \in BOOLEAN
      <4>1. Plus(Minus(entry, p.vaddr), p.paddr) \in Addr
        BY <2>2, Sums DEF KernelTypeOK
      <4>2. Within(entry, p.paddr, p.memsz) \in BOOLEAN
        BY DEF Within
      <4> QED
        BY <2>6, <4>1, <4>2 DEF FindEntry, KernelTypeOK
    <3> QED
      BY <2>1, <2>3, <2>6, <3>1, <3>2 DEF KernelTypeOK
  <2> QED
    BY <1>3, <2>4, <2>5, <2>6 DEF LoadSegment
<1>4. CASE FinishElf
  BY <1>4 DEF FinishElf, Fail, KernelTypeOK
<1>5. CASE bzimage_load
  <2>1. CASE Fail
    BY <2>1 DEF Fail, KernelTypeOK
  <2>2. CASE ~Fail
    <3>1. file.kind = "bzImage" /\ SetupEnd < file.size
      BY <1>5, <2>2 DEF bzimage_load
    <3>2. /\ SetupEnd \in Nat /\ Needed \in Addr /\ LoadAddress \in Addr
          /\ file.size - SetupEnd \in Addr
      BY <3>1, BzNumbers
    <3>3. /\ Plus(LoadAddress, Needed) \in Addr /\ Plus(LoadAddress, 1) \in Addr
      <4>1. 1 \in Addr
        BY KernelAssumption DEF Addr, KernelAssumption
      <4> QED
        BY <3>2, <4>1, Sums
    <3>4. Span(SetupEnd, file.size - SetupEnd) \in Extent /\ Span(LoadAddress, Needed) \in Extent
      BY <3>2 DEF Span, Extent, Addr
    <3> QED
      BY <1>5, <2>2, <3>2, <3>3, <3>4 DEF bzimage_load, KernelTypeOK
  <2> QED
    BY <2>1, <2>2
<1> QED
  BY <1>0, <1>1, <1>2, <1>3, <1>4, <1>5 DEF KernelNext

(* kernel_loader.c, elf_loader.c, bzimage.c: every value the loaders       *)
(* compute stays in the width of its variable, the sums with wrap-around.  *)
THEOREM KernelType == KernelSpec => []KernelTypeOK
<1>1. KernelInit /\ ram \in Addr /\ file \in KernelFile => TypeInv
  BY TypeStart
<1>2. TypeInv /\ [KernelNext]_kernel => TypeInv'
  BY TypeStep
<1>3. TypeInv => KernelTypeOK
  BY DEF TypeInv
<1> QED
  BY <1>1, <1>2, <1>3, PTL DEF KernelSpec

-----------------------------------------------------------------------------
(* Reads from the mapped file.                                             *)

ReadsInv == TypeInv /\ ReadsInFile

LEMMA ReadsStep == ReadsInv /\ [KernelNext]_kernel => ReadsInv'
<1> SUFFICES ASSUME TypeInv, ReadsInFile, [KernelNext]_kernel PROVE ReadsInFile'
  BY TypeStep DEF ReadsInv
<1> USE DEF ReadsInFile
<1>0. CASE UNCHANGED <<file, reads>>
  BY <1>0
<1>1. CASE check_ehdr
  <2>1. file.kind = "elf" /\ file.size \in Nat /\ file.phoff \in Nat
    BY <1>1, ElfFile DEF check_ehdr, TypeInv, KindInv, KernelTypeOK, Addr
  <2>2. Len(file.phs) * PhdrSize \in Nat /\ EhdrSize \in Nat
    BY <2>1, ElfFile, Products, KernelAssumption DEF TypeInv, KernelTypeOK, KernelAssumption
  <2>3. CASE Fail
    BY <2>3 DEF Fail
  <2> DEFINE n == Len(file.phs) * PhdrSize
  <2>4. CASE /\ file.size >= EhdrSize /\ TableInFile /\ file' = file
             /\ reads' = {Span(0, EhdrSize), Span(file.phoff, n)}
    <3>1. EhdrSize <= file.size /\ n <= file.size - file.phoff
      BY <2>4 DEF TableInFile
    <3>2. n \in Nat /\ EhdrSize \in Nat
      BY <2>2
    <3>3. reads' = {Span(0, EhdrSize), Span(file.phoff, n)} /\ file' = file
      BY <2>4
    <3> HIDE DEF n
    <3> QED
      BY <2>1, <3>1, <3>2, <3>3 DEF Span
  <2> QED
    BY <1>1, <2>3, <2>4 DEF check_ehdr
<1>2. CASE LoadSegment
  <2> DEFINE p == file.phs[ph]
  <2>1. p \in Segment /\ file.size \in Nat
    BY <1>2, ElfFile DEF LoadSegment, Segments, TypeInv, KindInv, KernelTypeOK, Addr
  <2>2. p.offset \in Nat /\ p.filesz \in Nat
    BY <2>1 DEF Segment, Addr
  <2>3. CASE ~BadSegment(p) /\ reads' = reads \cup {Span(p.offset, p.filesz)} /\ file' = file
    BY <2>1, <2>2, <2>3 DEF BadSegment, Span
  <2> QED
    BY <1>0, <1>2, <2>3 DEF LoadSegment, Fail
<1>3. CASE bzimage_load
  <2>1. CASE Fail
    BY <1>0, <2>1 DEF Fail
  <2>2. CASE ~Fail
    <3>1. file.kind = "bzImage" /\ SetupEnd < file.size /\ file' = file
          /\ reads' = {Span(SetupEnd, file.size - SetupEnd)}
      BY <1>3, <2>2 DEF bzimage_load, TypeInv, KindInv
    <3>2. SetupEnd \in Nat /\ file.size \in Nat
      BY <3>1, BzNumbers, BzFile DEF TypeInv, KernelTypeOK, Addr
    <3> QED
      BY <3>1, <3>2 DEF Span
  <2> QED
    BY <2>1, <2>2
<1>4. CASE kernel_load \/ FinishElf
  BY <1>0, <1>4 DEF kernel_load, FinishElf, Fail
<1> QED
  BY <1>0, <1>1, <1>2, <1>3, <1>4 DEF KernelNext, kernel

(* elf_loader.c:43-47, :105-108: for every file whatever it holds, and     *)
(* every width in which offset and size are added, no byte beyond the end  *)
(* of the mapped file is read.                                             *)
THEOREM FileReads == KernelSpec => []ReadsInFile
<1>1. KernelInit /\ ram \in Addr /\ file \in KernelFile => ReadsInv
  BY TypeStart DEF KernelInit, ReadsInv, ReadsInFile
<1>2. ReadsInv /\ [KernelNext]_kernel => ReadsInv'
  BY ReadsStep
<1>3. ReadsInv => ReadsInFile
  BY DEF ReadsInv
<1> QED
  BY <1>1, <1>2, <1>3, PTL DEF KernelSpec

-----------------------------------------------------------------------------
(* The image.                                                              *)

(* While segments are being loaded: lo and hi are the extent of the ranges *)
(* written, which lie in RAM, and an entry that is found is in one.        *)
Extents ==
  /\ \A r \in loaded : r.lo < r.hi /\ r.hi <= ram /\ lo <= r.lo /\ r.hi <= hi
  /\ loaded = {} => lo = Top - 1 /\ hi = 0
  /\ loaded # {} => (\E r \in loaded : r.lo = lo) /\ (\E r \in loaded : r.hi = hi)
  /\ found => \E r \in loaded : Image!InRange(entry, r)

ImageInv ==
  /\ TypeInv
  /\ step # "done" => image = [fmt |-> "none"]
  /\ step \in {"open", "ehdr", "bzImage"} => loaded = {}
  /\ step \in {"open", "ehdr", "phdrs", "bzImage"} => Extents

LEMMA ImageStart == KernelInit /\ ram \in Addr /\ file \in KernelFile => ImageInv
BY TypeStart DEF KernelInit, ImageInv, Extents

(* One more range.                                                         *)
LEMMA Widened ==
  ASSUME KernelTypeOK, Extents, NEW p \in Segment, InRam(p.paddr, p.memsz),
         Widen(p), FindEntry(p), ram' = ram,
         loaded' = loaded \cup {Span(p.paddr, p.memsz)}
  PROVE  Extents'
<1> DEFINE r == Span(p.paddr, p.memsz)
<1>1. /\ p.paddr \in Addr /\ p.memsz \in Addr /\ p.vaddr \in Addr /\ entry \in Addr
      /\ lo \in Addr /\ hi \in Addr /\ ram \in Addr
  BY DEF Segment, KernelTypeOK
<1>2. /\ Plus(p.paddr, p.memsz) = p.paddr + p.memsz
      /\ p.paddr < p.paddr + p.memsz /\ p.paddr + p.memsz <= ram /\ p.paddr < Top - 1
  BY <1>1, Accepted
<1>3. r.lo = p.paddr /\ r.hi = p.paddr + p.memsz /\ r \in loaded'
  BY DEF Span
<1>4. \A s \in loaded : s.lo \in Nat /\ s.hi \in Nat
  BY DEF KernelTypeOK, Extent
<1>5. \A s \in loaded' : s.lo < s.hi /\ s.hi <= ram' /\ lo' <= s.lo /\ s.hi <= hi'
  BY <1>1, <1>2, <1>3, <1>4 DEF Extents, Widen, Addr
<1>6. (\E s \in loaded' : s.lo = lo') /\ (\E s \in loaded' : s.hi = hi')
  <2>1. CASE loaded = {}
    BY <1>1, <1>2, <1>3, <2>1 DEF Extents, Widen, Addr
  <2>2. CASE loaded # {}
    BY <1>2, <1>3, <2>2 DEF Extents, Widen
  <2> QED
    BY <2>1, <2>2
<1>7. found' => \E s \in loaded' : Image!InRange(entry', s)
  <2>1. CASE found
    BY <2>1, Zenon DEF Extents, FindEntry
  <2>2. CASE ~found /\ Within(entry, p.paddr, p.memsz)
    <3>1. entry' = entry
      BY <2>2 DEF FindEntry
    <3>2. Image!InRange(entry, r)
      BY <1>2, <1>3, <2>2 DEF Within, Image!InRange
    <3> QED
      BY <1>3, <3>1, <3>2
  <2>3. CASE ~found /\ ~Within(entry, p.paddr, p.memsz) /\ Within(entry, p.vaddr, p.memsz)
    <3>1. entry' = Plus(Minus(entry, p.vaddr), p.paddr)
      BY <2>3 DEF FindEntry
    <3>2. /\ Minus(entry, p.vaddr) = entry - p.vaddr
          /\ entry - p.vaddr \in 0 .. p.memsz - 1
      BY <1>1, <2>3, Inside
    <3>3. entry' = (entry - p.vaddr) + p.paddr
      BY <1>1, <1>2, <3>1, <3>2, KernelAssumption DEF Plus, Addr, KernelAssumption
    <3>4. Image!InRange(entry', r)
      BY <1>1, <1>2, <1>3, <3>2, <3>3 DEF Image!InRange, Addr
    <3> QED
      BY <1>3, <3>4
  <2>4. CASE ~found /\ ~Within(entry, p.paddr, p.memsz) /\ ~Within(entry, p.vaddr, p.memsz)
    BY <2>4, Zenon DEF FindEntry
  <2> QED
    BY <2>1, <2>2, <2>3, <2>4
<1> QED
  BY <1>3, <1>5, <1>6, <1>7 DEF Extents

(* A step of the loaders keeps the invariant and is one of KernelImage.    *)
LEMMA ImageStep ==
  ImageInv /\ [KernelNext]_kernel => ImageInv' /\ [Image!Next]_<<ram, loaded, image>>
<1> SUFFICES ASSUME ImageInv, [KernelNext]_kernel
             PROVE  ImageInv' /\ [Image!Next]_<<ram, loaded, image>>
  OBVIOUS
<1>a. TypeInv /\ TypeInv' /\ KernelTypeOK
  BY TypeStep DEF ImageInv, TypeInv
<1>0. CASE UNCHANGED kernel
  BY <1>0, <1>a DEF kernel, ImageInv, Extents, Image!InRange
<1>1. ASSUME Fail, step \in {"open", "ehdr", "phdrs", "bzImage"}
      PROVE  ImageInv' /\ [Image!Next]_<<ram, loaded, image>>
  <2>1. ImageInv'
    BY <1>1, <1>a DEF Fail, ImageInv
  <2>2. Image!Finish
    BY <1>1 DEF Fail, ImageInv, Image!Finish
  <2> QED
    BY <2>1, <2>2 DEF Image!Next
<1>2. ASSUME UNCHANGED <<ram, lo, hi, entry, found, loaded, image>>,
             step \in {"open", "ehdr", "phdrs", "bzImage"},
             step' = step \/ loaded = {}
      PROVE  ImageInv' /\ [Image!Next]_<<ram, loaded, image>>
  <2>1. Extents /\ image' = [fmt |-> "none"]
    BY <1>2 DEF ImageInv
  <2>2. Extents'
    BY <1>2, <2>1 DEF Extents, Image!InRange
  <2> QED
    BY <1>2, <1>a, <2>1, <2>2 DEF ImageInv
<1>3. CASE kernel_load
  BY <1>1, <1>2, <1>3 DEF kernel_load, ImageInv
<1>4. CASE check_ehdr
  <2>1. CASE Fail
    BY <1>1, <1>4, <2>1 DEF check_ehdr
  <2>2. CASE ~Fail
    <3>1. step = "ehdr" /\ step' = "phdrs" /\ UNCHANGED <<ram, lo, hi, found, loaded, image>>
      BY <1>4, <2>2 DEF check_ehdr
    <3>2. Extents /\ loaded = {}
      BY <3>1 DEF ImageInv
    <3>3. Extents'
      BY <3>1, <3>2 DEF Extents
    <3>4. UNCHANGED <<ram, loaded, image>>
      BY <3>1
    <3> QED
      BY <3>1, <3>3, <3>4, <1>a DEF ImageInv
  <2> QED
    BY <2>1, <2>2
<1>5. CASE LoadSegment
  <2> DEFINE p == file.phs[ph]
  <2>1. step = "phdrs" /\ p \in Segment /\ image = [fmt |-> "none"] /\ Extents
    BY <1>5, <1>a, ElfFile DEF LoadSegment, Segments, TypeInv, KindInv, KernelTypeOK, ImageInv
  <2>2. CASE Fail
    BY <1>1, <2>1, <2>2
  <2>3. CASE UNCHANGED <<file, ram, step, lo, hi, entry, found, reads, loaded, image>>
    BY <1>2, <2>1, <2>3
  <2>4. CASE /\ InRam(p.paddr, p.memsz) /\ Widen(p) /\ FindEntry(p)
             /\ loaded' = loaded \cup {Span(p.paddr, p.memsz)}
             /\ UNCHANGED <<file, ram, step, image>>
    <3>1. Extents'
      BY <1>a, <2>1, <2>4, Widened
    <3>2. ImageInv'
      BY <1>a, <2>1, <2>4, <3>1 DEF ImageInv
    <3>3. Image!Load
      BY <2>1, <2>4, <3>1 DEF Extents, Image!Load
    <3> QED
      BY <3>2, <3>3 DEF Image!Next
  <2> QED
    BY <1>5, <2>2, <2>3, <2>4 DEF LoadSegment
<1>6. CASE FinishElf
  <2>1. step = "phdrs" /\ image = [fmt |-> "none"] /\ Extents
    BY <1>6 DEF FinishElf, ImageInv
  <2>2. CASE Fail
    BY <1>1, <2>1, <2>2
  <2>3. CASE ~Fail
    <3> DEFINE i == [fmt |-> "elf", lo |-> lo, hi |-> hi, entry |-> entry]
    <3>1. /\ loaded # {} /\ found /\ step' = "done" /\ image' = i
          /\ UNCHANGED <<ram, loaded>>
      BY <1>6, <2>3 DEF FinishElf
    <3>2. ImageInv'
      BY <3>1, <1>a DEF ImageInv
    <3>3. PICK a \in loaded : a.lo = lo
      BY <2>1, <3>1 DEF Extents
    <3>4. PICK b \in loaded : b.hi = hi
      BY <2>1, <3>1 DEF Extents
    <3>5. lo < hi /\ hi <= ram
      BY <1>a, <2>1, <3>3, <3>4 DEF Extents, KernelTypeOK, Extent, Addr
    <3>6. Image!Valid(i, loaded, ram)
      BY <2>1, <3>1, <3>3, <3>4, <3>5 DEF Extents, Image!Valid
    <3>7. Image!Finish
      BY <2>1, <3>1, <3>6 DEF Image!Finish
    <3> QED
      BY <3>2, <3>7 DEF Image!Next
  <2> QED
    BY <2>2, <2>3
<1>7. CASE bzimage_load
  <2>1. step = "bzImage" /\ image = [fmt |-> "none"] /\ Extents
    BY <1>7 DEF bzimage_load, ImageInv
  <2>2. CASE Fail
    BY <1>1, <2>1, <2>2
  <2>3. CASE ~Fail
    <3> DEFINE r == Span(LoadAddress, Needed)
    <3> DEFINE i == [fmt   |-> "bzImage", lo |-> LoadAddress,
                     hi    |-> Plus(LoadAddress, Needed),
                     entry |-> Plus(LoadAddress, 1)]
    <3>1. /\ SetupEnd < file.size /\ InRam(LoadAddress, Needed) /\ step' = "done"
          /\ loaded' = {r} /\ image' = i /\ ram' = ram
      BY <1>7, <2>3 DEF bzimage_load
    <3>2. LoadAddress \in Addr /\ Needed \in Addr /\ ram \in Addr
      BY <1>7, <1>a, <3>1, BzNumbers DEF bzimage_load, TypeInv, KindInv, KernelTypeOK
    <3>3. /\ i.hi = LoadAddress + Needed /\ LoadAddress < i.hi /\ i.hi <= ram
      BY <3>1, <3>2, Accepted
    <3>4. r.lo = i.lo /\ r.hi = i.hi
      BY <3>3 DEF Span
    <3>5. loaded = {}
      BY <1>7 DEF bzimage_load, ImageInv
    <3>6. Image!Valid(i, loaded', ram)
      BY <3>1, <3>2, <3>3, <3>4 DEF Image!Valid, Addr
    <3>7. Image!Finish
      BY <2>1, <3>1, <3>5, <3>6 DEF Image!Finish
    <3>8. ImageInv'
      BY <3>1, <1>a DEF ImageInv
    <3> QED
      BY <3>7, <3>8 DEF Image!Next
  <2> QED
    BY <2>2, <2>3
<1> QED
  BY <1>0, <1>3, <1>4, <1>5, <1>6, <1>7 DEF KernelNext

(* kernel_loader.c:27-68: for every file and every RAM kernel_load()       *)
(* implements KernelImage: it writes inside RAM only, and what it returns  *)
(* is the exact extent of what was written, entered at a loaded byte.      *)
THEOREM GivesImage == KernelSpec => IsKernelImage
<1>1. KernelInit /\ ram \in Addr /\ file \in KernelFile => ImageInv
  BY ImageStart
<1>2. ImageInv /\ [KernelNext]_kernel => ImageInv' /\ [Image!Next]_<<ram, loaded, image>>
  BY ImageStep
<1>3. KernelInit /\ ram \in Addr => Image!Init
  BY DEF KernelInit, Image!Init, Addr
<1> QED
  BY <1>1, <1>2, <1>3, PTL DEF KernelSpec, IsKernelImage, Image!Spec

-----------------------------------------------------------------------------
(* The page tables map every address below map_size to itself and no other *)
(* address.                                                                *)

(* Below 1 GiB the upper two levels are at their first entry.              *)
LEMMA UpperIndex ==
  ASSUME NEW gva \in Nat, gva < Gib
  PROVE  (gva \div (Fanout * Gib)) % Fanout = 0 /\ (gva \div Gib) % Fanout = 0
<1>1. gva \div (Fanout * Gib) = 0
  BY SMT DEF Fanout, Gib
<1>2. gva \div Gib = 0
  BY SMT DEF Fanout, Gib
<1> QED
  BY <1>1, <1>2, SMT DEF Fanout

(* A page is below the end of the map exactly if its large page is.        *)
LEMMA InMap ==
  ASSUME NEW gva \in Nat, NEW map \in Nat, map % Fanout = 0
  PROVE  gva < map <=> gva \div Fanout < map \div Fanout
BY SMT DEF Fanout

(* Above 1 GiB one of the upper two levels is not at its first entry.      *)
LEMMA UpperIndexAbove ==
  ASSUME NEW gva \in Linear, gva >= Gib
  PROVE  (gva \div (Fanout * Gib)) % Fanout # 0 \/ (gva \div Gib) % Fanout # 0
<1>1. Gib = 262144 /\ Fanout * Gib = 134217728 /\ Fanout = 512
  BY SMT DEF Fanout, Gib
<1>2. gva \in Nat /\ gva \div 134217728 < 512
  BY <1>1 DEF Linear
<1>3. CASE gva >= 134217728
  <2>1. /\ gva \div 134217728 \in Nat
        /\ 1 <= gva \div 134217728
    BY <1>2, <1>3, SMT
  <2>2. (gva \div 134217728) % 512 # 0
    BY <1>2, <2>1, SMT
  <2> QED
    BY <1>1, <2>2
<1>4. CASE gva < 134217728
  <2>1. /\ gva \div 262144 \in Nat
        /\ 1 <= gva \div 262144 /\ gva \div 262144 < 512
    BY <1>1, <1>2, <1>4, SMT
  <2>2. (gva \div 262144) % 512 # 0
    BY <2>1, SMT
  <2> QED
    BY <1>1, <2>2
<1> QED
  BY <1>2, <1>3, <1>4, SMT

(* The fields of an entry.                                                 *)
LEMMA Fields ==
  ASSUME NEW x
  PROVE  /\ Table(x).p /\ ~Table(x).ps /\ Table(x).page = x
         /\ Large(x).p /\ Large(x).ps /\ Large(x).page = x
         /\ ~Absent.p
BY SMT DEF Table, Large, Absent

(* What the entries of the four tables are; the tables are distinct pages. *)
LEMMA EntryValue ==
  ASSUME NEW l \in Layout, NEW idx \in Nat
  PROVE  /\ Entry(l, l.pml4, idx) = IF idx = 0 THEN Table(l.pdpt) ELSE Absent
         /\ Entry(l, l.pdpt, idx) = IF idx = 0 THEN Table(l.pd) ELSE Absent
         /\ Entry(l, l.pd, idx) = Pde(l, idx)
         /\ \A n \in Nat : Entry(l, l.pt + n, idx) = Table((Fanout * n) + idx)
<1>1. l.pml4 \in Nat /\ l.pdpt \in Nat /\ l.pd \in Nat /\ l.pt \in Nat
  BY DEF Layout
<1>2. l.pml4 < l.pdpt /\ l.pdpt < l.pd /\ l.pd < l.pt
  BY DEF Layout, Apart
<1>3. l.pml4 # l.pdpt /\ l.pml4 # l.pd /\ l.pdpt # l.pd
  BY <1>1, <1>2, SMT
<1>4. ASSUME NEW n \in Nat
      PROVE  Entry(l, l.pt + n, idx) = Table((Fanout * n) + idx)
  <2>1. l.pt + n # l.pml4 /\ l.pt + n # l.pdpt /\ l.pt + n # l.pd
    BY <1>1, <1>2, SMT
  <2>2. (l.pt + n) - l.pt = n
    BY <1>1, SMT
  <2> QED
    BY <2>1, <2>2 DEF Entry, Pte
<1> QED
  BY <1>3, <1>4 DEF Entry

(* gdt_pgtable.c:136-142: GVA = GPA below map_size, and no other address   *)
(* is mapped, for every layout and map size boot_build_page_table()        *)
(* accepts and for both granularities.                                     *)
THEOREM IdentityMap ==
  ASSUME NEW l \in Layout, Supported(l), NEW gva \in Linear
  PROVE  MappedToItself(l, gva)
<1> DEFINE pml4e == Entry(l, l.pml4, (gva \div (Fanout * Gib)) % Fanout)
           pdpe  == Entry(l, pml4e.page, (gva \div Gib) % Fanout)
           pde   == Entry(l, pdpe.page, (gva \div Fanout) % Fanout)
           pte   == Entry(l, pde.page, gva % Fanout)
<1>1. /\ gva \in Nat /\ l.map \in Nat /\ l.map <= Gib /\ l.map % Fanout = 0
      /\ l.gran \in {"2m", "4k"}
  BY DEF Linear, Layout, Supported
<1>2. /\ (gva \div (Fanout * Gib)) % Fanout \in Nat
      /\ (gva \div Gib) % Fanout \in Nat
      /\ (gva \div Fanout) % Fanout \in Nat
      /\ gva % Fanout \in Nat
  BY <1>1, SMT DEF Fanout, Gib
<1>3. CASE gva >= Gib
  <2>1. ~(gva < l.map)
    BY <1>1, <1>3, SMT DEF Gib, Fanout
  <2>2. CASE (gva \div (Fanout * Gib)) % Fanout # 0
    <3>1. ~pml4e.p
      BY <2>2, <1>2, EntryValue DEF Absent
    <3> HIDE DEF pml4e, pdpe, pde, pte
    <3>2. Walk(l, gva) = Fault
      BY <3>1 DEF Walk, pml4e, pdpe, pde, pte
    <3> QED
      BY <3>2, <2>1 DEF MappedToItself
  <2>3. CASE /\ (gva \div (Fanout * Gib)) % Fanout = 0
             /\ (gva \div Gib) % Fanout # 0
    <3>1. pml4e.p /\ pml4e.page = l.pdpt
      BY <2>3, <1>2, EntryValue, Fields
    <3>2. ~pdpe.p
      BY <3>1, <2>3, <1>2, EntryValue DEF Absent
    <3>3. Walk(l, gva) = Fault
      BY <3>1, <3>2 DEF Walk
    <3> QED
      BY <3>3, <2>1 DEF MappedToItself
  <2> QED
    BY <2>2, <2>3, <1>3, UpperIndexAbove
<1>4. CASE gva < Gib
  <2> DEFINE i == gva \div Fanout
  <2>1. /\ i \in Nat /\ (gva \div Fanout) % Fanout = i
        /\ gva = (Fanout * i) + (gva % Fanout)
    BY <1>1, <1>4, SMT DEF Gib, Fanout
  <2>2. pml4e.p /\ pml4e.page = l.pdpt
    <3>1. pml4e = Table(l.pdpt)
      BY <1>1, <1>2, <1>4, UpperIndex, EntryValue
    <3> QED
      BY <3>1, Fields
  <2>3. pdpe.p /\ ~pdpe.ps /\ pdpe.page = l.pd
    <3>1. pdpe = Table(l.pd)
      BY <2>2, <1>1, <1>2, <1>4, UpperIndex, EntryValue
    <3> QED
      BY <3>1, Fields
  <2>4. pde = Pde(l, i)
    BY <2>1, <2>3, EntryValue
  <2>5. gva < l.map <=> i < l.map \div Fanout
    BY <1>1, InMap
  <2>6. CASE ~(i < l.map \div Fanout)
    <3>1. ~pde.p
      BY <2>4, <2>6, <2>1, <1>1, SMT DEF Pde, Absent, Fanout
    <3>2. Walk(l, gva) = Fault
      BY <2>2, <2>3, <3>1 DEF Walk
    <3> QED
      BY <3>2, <2>5, <2>6 DEF MappedToItself
  <2>7. CASE i < l.map \div Fanout /\ l.gran = "2m"
    <3>1. pde.p /\ pde.ps /\ pde.page = Fanout * i
      BY <2>4, <2>7, <2>1, <1>1, SMT DEF Pde, Large, Fanout
    <3>2. Walk(l, gva) = pde.page + (gva % Fanout)
      BY <2>2, <2>3, <3>1 DEF Walk
    <3> QED
      BY <3>1, <3>2, <2>1, <2>5, <2>7 DEF MappedToItself
  <2>8. CASE i < l.map \div Fanout /\ l.gran = "4k"
    <3>1. pde.p /\ ~pde.ps /\ pde.page = l.pt + i
      BY <2>4, <2>8, <2>1, <1>1, SMT DEF Pde, Table, Fanout
    <3>2. pte.p /\ pte.page = (Fanout * i) + (gva % Fanout)
      <4>1. pte = Table((Fanout * i) + (gva % Fanout))
        BY <3>1, <2>1, <1>2, EntryValue
      <4> QED
        BY <4>1, Fields
    <3>3. Walk(l, gva) = pte.page
      BY <2>2, <2>3, <3>1, <3>2 DEF Walk
    <3> QED
      BY <3>2, <3>3, <2>1, <2>5, <2>8 DEF MappedToItself
  <2> QED
    BY <2>6, <2>7, <2>8, <1>1
<1> QED
  BY <1>1, <1>3, <1>4, SMT DEF Gib, Fanout

-----------------------------------------------------------------------------
(* The CPUID tables.                                                       *)

Orders == 0 .. 31

LEMMA Powers == \A b \in Orders : 2^b \in Nat
<1>1. /\ 2^0 \in Nat /\ 2^1 \in Nat /\ 2^2 \in Nat /\ 2^3 \in Nat /\ 2^4 \in Nat /\ 2^5 \in Nat
      /\ 2^6 \in Nat /\ 2^7 \in Nat /\ 2^8 \in Nat /\ 2^9 \in Nat /\ 2^10 \in Nat /\ 2^11 \in Nat
      /\ 2^12 \in Nat /\ 2^13 \in Nat /\ 2^14 \in Nat /\ 2^15 \in Nat /\ 2^16 \in Nat
      /\ 2^17 \in Nat /\ 2^18 \in Nat /\ 2^19 \in Nat /\ 2^20 \in Nat /\ 2^21 \in Nat
      /\ 2^22 \in Nat /\ 2^23 \in Nat /\ 2^24 \in Nat /\ 2^25 \in Nat /\ 2^26 \in Nat
      /\ 2^27 \in Nat /\ 2^28 \in Nat /\ 2^29 \in Nat /\ 2^30 \in Nat /\ 2^31 \in Nat
  OBVIOUS
<1>2. \A b \in Orders :
        \/ b = 0 \/ b = 1 \/ b = 2 \/ b = 3 \/ b = 4 \/ b = 5 \/ b = 6 \/ b = 7 \/ b = 8
        \/ b = 9 \/ b = 10 \/ b = 11 \/ b = 12 \/ b = 13 \/ b = 14 \/ b = 15 \/ b = 16
        \/ b = 17 \/ b = 18 \/ b = 19 \/ b = 20 \/ b = 21 \/ b = 22 \/ b = 23 \/ b = 24
        \/ b = 25 \/ b = 26 \/ b = 27 \/ b = 28 \/ b = 29 \/ b = 30 \/ b = 31
  BY DEF Orders
<1> QED
  BY <1>1, <1>2, ZenonT(60)

(* The order is that of the least power of two that is not less.           *)
LEMMA OrderOf ==
  ASSUME NEW n \in 1 .. 255
  PROVE  /\ order_base2(n) \in Orders
         /\ 2^order_base2(n) \in Nat /\ n <= 2^order_base2(n)
<1>1. /\ 2^0 = 1 /\ 2^1 = 2 /\ 2^2 = 4 /\ 2^3 = 8 /\ 2^4 = 16 /\ 2^5 = 32
      /\ 2^6 = 64 /\ 2^7 = 128 /\ 2^8 = 256
  OBVIOUS
<1>2. PICK c \in 0 .. 8 : 2^c >= n /\ (c = 0 \/ 2^(c - 1) < n)
  <2>1. n = 1 \/ n = 2 \/ n \in 3 .. 4 \/ n \in 5 .. 8 \/ n \in 9 .. 16 \/ n \in 17 .. 32
        \/ n \in 33 .. 64 \/ n \in 65 .. 128 \/ n \in 129 .. 255
    OBVIOUS
  <2> QED
    BY <1>1, <2>1
<1>3. \E b \in 0 .. 31 : 2^b >= n /\ (b = 0 \/ 2^(b - 1) < n)
  BY <1>2
<1>4. order_base2(n) \in 0 .. 31 /\ 2^order_base2(n) >= n
  BY <1>3 DEF order_base2
<1> QED
  BY <1>4, Powers DEF Orders

LEMMA Less ==
  ASSUME NEW p \in Nat, NEW v \in Nat, v < p
  PROVE  v \div p = 0 /\ v % p = v
OBVIOUS

(* What the loop of smp_fixup_cpuid() makes of an entry.                   *)
LEMMA FixedLeaf ==
  ASSUME NEW e \in CpuidEntry
  PROVE  /\ FixupLeaf(e).fn = e.fn /\ FixupLeaf(e).index = e.index
         /\ e.fn = "1" => FixupLeaf(e).apicid = id
         /\ e.fn = "0x80000008" =>
              FixupLeaf(e).nc = nr_vcpus - 1 /\ FixupLeaf(e).idsize = order_base2(nr_vcpus)
         /\ e.fn = "0x8000001E" =>
              FixupLeaf(e).apicid = id /\ FixupLeaf(e).core = id /\ FixupLeaf(e).node = 0
<1>1. CASE e.fn = "1"
  <2>1. e \in [fn : {"1"}, index : {0}, apicid : Nat, nlog : Nat, htt : BOOLEAN,
               hypervisor : BOOLEAN]
    BY <1>1 DEF CpuidEntry
  <2> QED
    BY <1>1, <2>1 DEF FixupLeaf
<1>2. CASE e.fn = "0xB"
  BY <1>2 DEF FixupLeaf
<1>3. CASE e.fn = "0x1F"
  <2>1. e \in [fn : {"0x1F"}, index : Nat, zero : BOOLEAN]
    BY <1>3 DEF CpuidEntry
  <2> QED
    BY <1>3, <2>1 DEF FixupLeaf
<1>4. CASE e.fn = "0x80000008"
  <2>1. e \in [fn : {"0x80000008"}, index : {0}, nc : Nat, idsize : Nat]
    BY <1>4 DEF CpuidEntry
  <2> QED
    BY <1>4, <2>1 DEF FixupLeaf
<1>5. CASE e.fn = "0x8000001D"
  <2>1. e \in [fn : {"0x8000001D"}, index : Nat, type : Nat, level : Nat, share : Nat]
    BY <1>5 DEF CpuidEntry
  <2> QED
    BY <1>5, <2>1 DEF FixupLeaf
<1>6. CASE e.fn = "0x8000001E"
  <2>1. e \in [fn : {"0x8000001E"}, index : {0}, apicid : Nat, core : Nat, threads : Nat,
               node : Nat]
    BY <1>6 DEF CpuidEntry
  <2> QED
    BY <1>6, <2>1 DEF FixupLeaf
<1>7. e.fn \in {"1", "0xB", "0x1F", "0x80000008", "0x8000001D", "0x8000001E"}
  BY DEF CpuidEntry
<1> QED
  BY <1>1, <1>2, <1>3, <1>4, <1>5, <1>6, <1>7

(* The leaves of a table are told by function and index.                   *)
NoneTwice(t) ==
  \A k, j \in DOMAIN t : k # j => t[k].fn # t[j].fn \/ t[k].index # t[j].index

LEMMA Subleaves ==
  ASSUME NEW sub \in 0 .. 2
  PROVE  /\ Subleaf(sub).fn = "0xB" /\ Subleaf(sub).index = sub /\ Subleaf(sub).apicid = id
         /\ sub = 0 => Subleaf(sub).shift = 0 /\ Subleaf(sub).nr_lp = 1
         /\ sub = 1 => Subleaf(sub).shift = order_base2(nr_vcpus)
                       /\ Subleaf(sub).nr_lp = nr_vcpus
         /\ sub = 2 => Subleaf(sub).type = "end"
BY DEF Subleaf
(* The two halves of a sequence.                                           *)
Joined(S, s, r, c) ==
  /\ c \in Seq(S) /\ Len(c) = Len(s) + Len(r)
  /\ \A k \in 1 .. Len(s) : c[k] = s[k]
  /\ \A k \in 1 .. Len(r) : c[Len(s) + k] = r[k]

LEMMA Halves ==
  ASSUME NEW S, NEW s \in Seq(S), NEW r \in Seq(S)
  PROVE  Joined(S, s, r, s \o r)
BY DEF Joined

(* A sequence of one element or none.                                      *)
LEMMA AtMostOne ==
  ASSUME NEW a \in BOOLEAN, NEW x \in 0 .. 2, NEW s, s = IF a THEN <<>> ELSE <<x>>
  PROVE  /\ s \in Seq(0 .. 2) /\ Len(s) = IF a THEN 0 ELSE 1
         /\ ~a => s[1] = x
<1>1. CASE a
  BY <1>1
<1>2. CASE ~a
  BY <1>2
<1> QED
  BY <1>1, <1>2

(* The subleaves that are missing, in order.                               *)
OnesMissing(a, b, c, m) ==
  /\ m \in Seq(0 .. 2) /\ Len(m) \in 0 .. 3
  /\ \A i, j \in 1 .. Len(m) : i # j => m[i] # m[j]
  /\ \A i \in 1 .. Len(m) : (m[i] = 0 /\ ~a) \/ (m[i] = 1 /\ ~b) \/ (m[i] = 2 /\ ~c)
  /\ ~a => \E i \in 1 .. Len(m) : m[i] = 0
  /\ ~b => \E i \in 1 .. Len(m) : m[i] = 1
  /\ ~c => \E i \in 1 .. Len(m) : m[i] = 2

LEMMA MissingOnes ==
  ASSUME NEW a \in BOOLEAN, NEW b \in BOOLEAN, NEW c \in BOOLEAN, NEW m,
         m = (IF a THEN <<>> ELSE << 0 >>) \o (IF b THEN <<>> ELSE << 1 >>)
             \o (IF c THEN <<>> ELSE << 2 >>)
  PROVE  OnesMissing(a, b, c, m)
<1> DEFINE x == IF a THEN <<>> ELSE << 0 >>
           y == IF b THEN <<>> ELSE <<1>>
           z == IF c THEN <<>> ELSE <<2>>
<1>1. x \in Seq(0 .. 2) /\ Len(x) = (IF a THEN 0 ELSE 1) /\ (~a => x[1] = 0)
  BY AtMostOne
<1>2. y \in Seq(0 .. 2) /\ Len(y) = (IF b THEN 0 ELSE 1) /\ (~b => y[1] = 1)
  BY AtMostOne
<1>3. z \in Seq(0 .. 2) /\ Len(z) = (IF c THEN 0 ELSE 1) /\ (~c => z[1] = 2)
  BY AtMostOne
<1>4. m = x \o y \o z
  OBVIOUS
<1> HIDE DEF x, y, z
<1> DEFINE w == x \o y
<1>5. /\ w \in Seq(0 .. 2) /\ Len(w) = Len(x) + Len(y)
      /\ \A k \in 1 .. Len(x) : w[k] = x[k]
      /\ \A k \in 1 .. Len(y) : w[Len(x) + k] = y[k]
  <2>1. Joined(0 .. 2, x, y, w)
    BY <1>1, <1>2, Halves, Zenon
  <2> QED
    BY <2>1 DEF Joined
<1>6. m = w \o z
  BY <1>4
<1> HIDE DEF w
<1>7. /\ m \in Seq(0 .. 2) /\ Len(m) = Len(w) + Len(z)
      /\ \A k \in 1 .. Len(w) : m[k] = w[k]
      /\ \A k \in 1 .. Len(z) : m[Len(w) + k] = z[k]
  <2>1. Joined(0 .. 2, w, z, m)
    BY <1>3, <1>5, <1>6, Halves, Zenon
  <2> QED
    BY <2>1 DEF Joined
<1>8. CASE a
  <2>1. CASE b
    BY <1>1, <1>2, <1>3, <1>5, <1>7, <1>8, <2>1 DEF OnesMissing
  <2>2. CASE ~b
    BY <1>1, <1>2, <1>3, <1>5, <1>7, <1>8, <2>2 DEF OnesMissing
  <2> QED
    BY <2>1, <2>2
<1>9. CASE ~a
  <2>1. CASE b
    BY <1>1, <1>2, <1>3, <1>5, <1>7, <1>9, <2>1 DEF OnesMissing
  <2>2. CASE ~b
    BY <1>1, <1>2, <1>3, <1>5, <1>7, <1>9, <2>2 DEF OnesMissing
  <2> QED
    BY <2>1, <2>2
<1> QED
  BY <1>8, <1>9

(* cpuid_fill_topology_leaf() on a table without duplicates: every entry   *)
(* of leaf 0xB up to subleaf 2 is overwritten, the missing ones are        *)
(* appended, and nothing else is changed.                                  *)
FilledFrom(T, t) ==
  /\ DOMAIN T = 1 .. Len(T) /\ Len(T) \in Nat /\ Len(T) >= Len(t)
  /\ NoneTwice(T)
  /\ \A k \in DOMAIN T :
       \/ \E sub \in 0 .. 2 : T[k] = Subleaf(sub)
       \/ \E j \in DOMAIN t : T[k] = t[j] /\ \A sub \in 0 .. 2 : ~IsSubleaf(t[j], sub)
  /\ \A j \in DOMAIN t : t[j].fn # "0xB" => \E k \in DOMAIN T : T[k] = t[j]
  /\ \A sub \in 0 .. 2 : \E k \in DOMAIN T : T[k] = Subleaf(sub)

LEMMA Filled ==
  ASSUME NEW S, NEW t \in Seq(S), NoneTwice(t)
  PROVE  FilledFrom(FillTopologyLeaf(t), t)
<1> DEFINE n      == Len(t)
           Has(sub) == \E k \in DOMAIN t : IsSubleaf(t[k], sub)
           mine   == [k \in DOMAIN t |->
                        IF t[k].fn = "0xB" /\ t[k].index \in 0 .. 2
                           /\ \A j \in 1 .. k - 1 : ~IsSubleaf(t[j], t[k].index)
                        THEN Subleaf(t[k].index) ELSE t[k]]
           Missing(sub) == IF Has(sub) THEN <<>> ELSE <<sub>>
           m      == Missing(0) \o Missing(1) \o Missing(2)
           room   == IF Len(m) <= Spare THEN Len(m) ELSE Spare
           rest   == [k \in 1 .. room |-> Subleaf(m[k])]
           T      == FillTopologyLeaf(t)
           R      == S \cup {Subleaf(sub) : sub \in 0 .. 2}
<1>1. T = mine \o rest
  BY DEF FillTopologyLeaf
<1>2. n \in Nat /\ DOMAIN t = 1 .. n /\ \A k \in 1 .. n : t[k] \in S
  OBVIOUS
<1>3. /\ m \in Seq(0 .. 2) /\ Len(m) \in 0 .. 3
      /\ \A i, j \in 1 .. Len(m) : i # j => m[i] # m[j]
      /\ \A i \in 1 .. Len(m) : m[i] \in 0 .. 2 /\ ~Has(m[i])
      /\ \A sub \in 0 .. 2 : ~Has(sub) => \E i \in 1 .. Len(m) : m[i] = sub
  <2>1. Has(0) \in BOOLEAN /\ Has(1) \in BOOLEAN /\ Has(2) \in BOOLEAN
    BY DEF IsSubleaf
  <2> HIDE DEF Has
  <2>2. m = (IF Has(0) THEN <<>> ELSE <<0>>) \o (IF Has(1) THEN <<>> ELSE <<1>>)
            \o (IF Has(2) THEN <<>> ELSE <<2>>)
    OBVIOUS
  <2> HIDE DEF m
  <2>3. OnesMissing(Has(0), Has(1), Has(2), m)
    BY <2>1, <2>2, MissingOnes, Zenon
  <2>4. \A sub \in 0 .. 2 : sub = 0 \/ sub = 1 \/ sub = 2
    OBVIOUS
  <2> QED
    BY <2>3, <2>4 DEF OnesMissing
<1>4. room = Len(m)
  BY <1>3, TopologyAssumption DEF TopologyAssumption
<1>5. \A k \in 1 .. n :
        IF \E sub \in 0 .. 2 : IsSubleaf(t[k], sub)
        THEN t[k].fn = "0xB" /\ t[k].index \in 0 .. 2 /\ mine[k] = Subleaf(t[k].index)
        ELSE mine[k] = t[k]
  <2> SUFFICES ASSUME NEW k \in 1 .. n
               PROVE  IF \E sub \in 0 .. 2 : IsSubleaf(t[k], sub)
                      THEN /\ t[k].fn = "0xB" /\ t[k].index \in 0 .. 2
                           /\ mine[k] = Subleaf(t[k].index)
                      ELSE mine[k] = t[k]
    OBVIOUS
  <2>1. CASE \E sub \in 0 .. 2 : IsSubleaf(t[k], sub)
    <3>1. t[k].fn = "0xB" /\ t[k].index \in 0 .. 2
      BY <2>1 DEF IsSubleaf
    <3>2. \A j \in 1 .. k - 1 : ~IsSubleaf(t[j], t[k].index)
      BY <1>2, <3>1 DEF IsSubleaf, NoneTwice
    <3> QED
      BY <1>2, <2>1, <3>1, <3>2
  <2>2. CASE ~\E sub \in 0 .. 2 : IsSubleaf(t[k], sub)
    BY <1>2, <2>2 DEF IsSubleaf
  <2> QED
    BY <2>1, <2>2
<1>6. mine \in Seq(R) /\ Len(mine) = n
  <2>1. mine = [k \in 1 .. n |-> mine[k]]
    BY <1>2
  <2>2. \A k \in 1 .. n : mine[k] \in R
    BY <1>2, <1>5
  <2> HIDE DEF mine, R
  <2> QED
    BY <1>2, <2>1, <2>2
<1>7. /\ rest \in Seq(R) /\ Len(rest) = Len(m)
      /\ \A k \in 1 .. Len(m) : rest[k] = Subleaf(m[k])
  <2>1. rest = [k \in 1 .. Len(m) |-> Subleaf(m[k])]
    BY <1>4
  <2>2. \A k \in 1 .. Len(m) : Subleaf(m[k]) \in R
    BY <1>3
  <2> HIDE DEF m, R, rest
  <2> QED
    BY <1>3, <2>1, <2>2
<1> HIDE DEF n, Has, mine, Missing, m, room, rest, R
<1>8. /\ T \in Seq(R) /\ Len(T) = n + Len(m)
      /\ \A k \in 1 .. n : T[k] = mine[k]
      /\ \A k \in 1 .. Len(m) : T[n + k] = Subleaf(m[k])
  <2> DEFINE c == mine \o rest
  <2>1. /\ c \in Seq(R) /\ Len(c) = Len(mine) + Len(rest)
        /\ \A k \in 1 .. Len(mine) : c[k] = mine[k]
        /\ \A k \in 1 .. Len(rest) : c[Len(mine) + k] = rest[k]
    <3>1. Joined(R, mine, rest, c)
      BY <1>6, <1>7, Halves, Zenon
    <3> QED
      BY <3>1 DEF Joined
  <2>2. T = c
    BY <1>1
  <2> HIDE DEF c, T
  <2> QED
    BY <1>6, <1>7, <2>1, <2>2
<1> HIDE DEF T
<1>9. DOMAIN T = 1 .. Len(T) /\ Len(T) \in Nat /\ Len(T) >= n
  BY <1>2, <1>3, <1>8
<1> DEFINE l == Len(m)
           Ours(k) == \E sub \in 0 .. 2 : IsSubleaf(t[k], sub)
<1>10. l \in 0 .. 3 /\ DOMAIN T = 1 .. n + l
  BY <1>3, <1>8, <1>9
<1>11. \A k \in 1 .. n : /\ T[k].fn = t[k].fn /\ T[k].index = t[k].index
                         /\ Ours(k) => T[k] = Subleaf(t[k].index) /\ t[k].index \in 0 .. 2
                         /\ ~Ours(k) => T[k] = t[k]
  BY <1>5, <1>8, Subleaves
<1>12. \A k \in 1 .. l : /\ m[k] \in 0 .. 2 /\ T[n + k] = Subleaf(m[k])
                         /\ T[n + k].fn = "0xB" /\ T[n + k].index = m[k]
                         /\ \A j \in 1 .. n : ~IsSubleaf(t[j], m[k])
  <2> SUFFICES ASSUME NEW k \in 1 .. l
               PROVE  /\ m[k] \in 0 .. 2 /\ T[n + k] = Subleaf(m[k])
                      /\ T[n + k].fn = "0xB" /\ T[n + k].index = m[k]
                      /\ \A j \in 1 .. n : ~IsSubleaf(t[j], m[k])
    OBVIOUS
  <2>1. m[k] \in 0 .. 2 /\ ~Has(m[k]) /\ T[n + k] = Subleaf(m[k])
    BY <1>3, <1>8
  <2>2. \A j \in 1 .. n : ~IsSubleaf(t[j], m[k])
    BY <1>2, <2>1 DEF Has
  <2> QED
    BY <2>1, <2>2, Subleaves
<1>13. \A k, j \in 1 .. l : k # j => m[k] # m[j]
  BY <1>3
<1> HIDE DEF l
<1>14. \A k \in DOMAIN T : k \in 1 .. n \/ \E i \in 1 .. l : k = n + i
  <2> SUFFICES ASSUME NEW k \in DOMAIN T, k \notin 1 .. n PROVE \E i \in 1 .. l : k = n + i
    OBVIOUS
  <2>1. k - n \in 1 .. l /\ k = n + (k - n)
    BY <1>2, <1>10
  <2> QED
    BY <2>1
<1>15. NoneTwice(T)
  <2> SUFFICES ASSUME NEW k \in DOMAIN T, NEW j \in DOMAIN T, k # j,
                      T[k].fn = T[j].fn, T[k].index = T[j].index
               PROVE  FALSE
    BY DEF NoneTwice
  <2>1. CASE k \in 1 .. n /\ j \in 1 .. n
    BY <1>2, <1>11, <2>1 DEF NoneTwice
  <2>2. CASE k \in 1 .. n /\ j \notin 1 .. n
    BY <1>11, <1>12, <1>14, <2>2 DEF IsSubleaf
  <2>3. CASE k \notin 1 .. n /\ j \in 1 .. n
    BY <1>11, <1>12, <1>14, <2>3 DEF IsSubleaf
  <2>4. CASE k \notin 1 .. n /\ j \notin 1 .. n
    BY <1>12, <1>13, <1>14, <2>4
  <2> QED
    BY <2>1, <2>2, <2>3, <2>4
<1>16. \A k \in DOMAIN T :
         \/ \E sub \in 0 .. 2 : T[k] = Subleaf(sub)
         \/ \E j \in DOMAIN t : T[k] = t[j] /\ \A sub \in 0 .. 2 : ~IsSubleaf(t[j], sub)
  <2> SUFFICES ASSUME NEW k \in DOMAIN T
               PROVE  \/ \E sub \in 0 .. 2 : T[k] = Subleaf(sub)
                      \/ \E j \in DOMAIN t : T[k] = t[j] /\ \A sub \in 0 .. 2 : ~IsSubleaf(t[j], sub)
    OBVIOUS
  <2>1. CASE k \in 1 .. n
    BY <1>2, <1>11, <2>1
  <2>2. CASE \E i \in 1 .. l : k = n + i
    BY <1>12, <2>2
  <2> QED
    BY <1>14, <2>1, <2>2
<1>17. \A j \in DOMAIN t : t[j].fn # "0xB" => \E k \in DOMAIN T : T[k] = t[j]
  <2> SUFFICES ASSUME NEW j \in DOMAIN t, t[j].fn # "0xB" PROVE \E k \in DOMAIN T : T[k] = t[j]
    OBVIOUS
  <2>1. ~Ours(j)
    BY DEF IsSubleaf
  <2>2. j \in 1 .. n /\ j \in DOMAIN T
    BY <1>2, <1>10
  <2> QED
    BY <1>11, <2>1, <2>2
<1>18. \A sub \in 0 .. 2 : \E k \in DOMAIN T : T[k] = Subleaf(sub)
  <2> SUFFICES ASSUME NEW sub \in 0 .. 2 PROVE \E k \in DOMAIN T : T[k] = Subleaf(sub)
    OBVIOUS
  <2>1. CASE Has(sub)
    <3>1. PICK k \in 1 .. n : IsSubleaf(t[k], sub)
      BY <1>2, <2>1 DEF Has
    <3>2. k \in DOMAIN T /\ Ours(k) /\ t[k].index = sub
      BY <1>2, <1>10, <3>1 DEF IsSubleaf
    <3> QED
      BY <1>11, <3>1, <3>2
  <2>2. CASE ~Has(sub)
    <3>1. PICK i \in 1 .. l : m[i] = sub
      BY <1>3, <2>2 DEF l
    <3>2. n + i \in DOMAIN T
      BY <1>2, <1>10
    <3> QED
      BY <1>12, <3>1, <3>2
  <2> QED
    BY <2>1, <2>2
<1> QED
  BY <1>9, <1>15, <1>16, <1>17, <1>18 DEF FilledFrom, n, T

(* The table of vCPU v of n, from a host with l entries: what the entries  *)
(* that tell the topology say, and that they are there.                    *)
EntryOf(e, v, n) ==
  /\ e.fn = "1" => e.apicid = v
  /\ e.fn = "0x80000008" => e.nc = n - 1 /\ e.idsize = order_base2(n)
  /\ e.fn = "0x8000001E" => e.apicid = v /\ e.core = v /\ e.node = 0
  /\ IsSubleaf(e, 0) => e.apicid = v /\ e.shift = 0 /\ e.nr_lp = 1
  /\ IsSubleaf(e, 1) => e.shift = order_base2(n) /\ e.nr_lp = n
  /\ IsSubleaf(e, 2) => e.type = "end"

Described(t, v, n, l) ==
  /\ DOMAIN t = 1 .. Len(t) /\ Len(t) \in Nat /\ Len(t) >= l /\ t # <<>>
  /\ NoneTwice(t)
  /\ \A k \in DOMAIN t : EntryOf(t[k], v, n)
  /\ \A fn \in {"1", "0x80000008", "0x8000001E"} : \E k \in DOMAIN t : t[k].fn = fn
  /\ \A sub \in 0 .. 2 : \E k \in DOMAIN t : IsSubleaf(t[k], sub)

LEMMA FixupDescribes ==
  ASSUME HostOK(host)
  PROVE  Described(smp_fixup_cpuid(host.leaves), id, nr_vcpus, Len(host.leaves))
<1> DEFINE h == host.leaves
           n == Len(h)
           f == [k \in DOMAIN h |-> FixupLeaf(h[k])]
           F == {FixupLeaf(e) : e \in CpuidEntry}
           T == FillTopologyLeaf(f)
<1>1. h \in Seq(CpuidEntry) /\ n \in Nat /\ DOMAIN h = 1 .. n
  BY DEF HostOK
<1>2. \A k \in 1 .. n : h[k] \in CpuidEntry
  BY <1>1
<1>3. f \in Seq(F) /\ Len(f) = n /\ DOMAIN f = 1 .. n /\ \A k \in 1 .. n : f[k] = FixupLeaf(h[k])
  <2>1. f = [k \in 1 .. n |-> FixupLeaf(h[k])] /\ \A k \in 1 .. n : FixupLeaf(h[k]) \in F
    BY <1>1, <1>2
  <2> HIDE DEF h, n, F
  <2> QED
    BY <1>1, <2>1
<1>4. smp_fixup_cpuid(h) = T
  BY DEF smp_fixup_cpuid
<1>5. \A k \in 1 .. n : f[k].fn = h[k].fn /\ f[k].index = h[k].index
  BY <1>2, <1>3, FixedLeaf
<1>6. NoneTwice(f)
  <2>1. \A k, j \in 1 .. n : k # j => h[k].fn # h[j].fn \/ h[k].index # h[j].index
    BY <1>1 DEF HostOK
  <2> HIDE DEF f
  <2> QED
    BY <1>3, <1>5, <2>1 DEF NoneTwice
<1>7. FilledFrom(T, f)
  BY <1>3, <1>6, Filled
<1> HIDE DEF f, F, T
<1>8. \A k \in 1 .. n : (\A sub \in 0 .. 2 : ~IsSubleaf(f[k], sub)) => EntryOf(f[k], id, nr_vcpus)
  BY <1>2, <1>3, <1>5, FixedLeaf DEF EntryOf
<1>9. \A sub \in 0 .. 2 : EntryOf(Subleaf(sub), id, nr_vcpus) /\ IsSubleaf(Subleaf(sub), sub)
  BY Subleaves DEF EntryOf, IsSubleaf
<1>10. \A k \in DOMAIN T : EntryOf(T[k], id, nr_vcpus)
  BY <1>3, <1>7, <1>8, <1>9 DEF FilledFrom
<1>11. \A sub \in 0 .. 2 : \E k \in DOMAIN T : IsSubleaf(T[k], sub)
  BY <1>7, <1>9 DEF FilledFrom
<1>12. \A fn \in {"1", "0x80000008", "0x8000001E"} : \E k \in DOMAIN T : T[k].fn = fn
  <2> SUFFICES ASSUME NEW fn \in {"1", "0x80000008", "0x8000001E"}
               PROVE  \E k \in DOMAIN T : T[k].fn = fn
    OBVIOUS
  <2>1. PICK j \in 1 .. n : h[j].fn = fn
    BY <1>1 DEF HostOK
  <2>2. f[j].fn = fn /\ fn # "0xB" /\ j \in DOMAIN f
    BY <1>3, <1>5, <2>1
  <2> QED
    BY <1>7, <2>2 DEF FilledFrom
<1>13. T # <<>>
  BY <1>11
<1> QED
  BY <1>3, <1>4, <1>7, <1>10, <1>11, <1>12, <1>13 DEF Described, FilledFrom, h, n

(* Every way to enumerate the processors leads from such a table to v.     *)
LEMMA Paths ==
  ASSUME nr_vcpus \in 1 .. 255, NEW v \in 0 .. nr_vcpus - 1, NEW t, NEW l,
         Described(t, v, nr_vcpus, l)
  PROVE  /\ ByLeafB(t) = [apicid |-> v, package |-> 0, core |-> v, cores |-> nr_vcpus]
         /\ ByLeaf8(t) = [apicid |-> v, package |-> 0, core |-> v, cores |-> nr_vcpus]
         /\ ByLeaf1E(t) = [apicid |-> v, package |-> 0, core |-> v, cores |-> nr_vcpus]
         /\ \E k \in DOMAIN t : IsSubleaf(t[k], 2) /\ t[k].type = "end"
         /\ TheLeaf(t, "1").apicid = v
<1> DEFINE p == 2^order_base2(nr_vcpus)
<1>1. \A fn \in {"1", "0x80000008", "0x8000001E"} :
        TheLeaf(t, fn).fn = fn /\ EntryOf(TheLeaf(t, fn), v, nr_vcpus)
  BY DEF Described, TheLeaf
<1>2. \A sub \in 0 .. 2 : IsSubleaf(Sub(t, sub), sub) /\ EntryOf(Sub(t, sub), v, nr_vcpus)
  BY DEF Described, Sub
<1>3. /\ TheLeaf(t, "1").apicid = v
      /\ TheLeaf(t, "0x80000008").nc = nr_vcpus - 1
      /\ TheLeaf(t, "0x80000008").idsize = order_base2(nr_vcpus)
      /\ TheLeaf(t, "0x8000001E").apicid = v
      /\ TheLeaf(t, "0x8000001E").core = v
      /\ TheLeaf(t, "0x8000001E").node = 0
  BY <1>1 DEF EntryOf
<1>4. /\ Sub(t, 0).apicid = v /\ Sub(t, 0).shift = 0 /\ Sub(t, 0).nr_lp = 1
      /\ Sub(t, 1).shift = order_base2(nr_vcpus) /\ Sub(t, 1).nr_lp = nr_vcpus
  BY <1>2 DEF EntryOf
<1>5. p \in Nat /\ v < p /\ nr_vcpus \in Nat /\ v \in Nat
  BY OrderOf
<1> HIDE DEF p
<1>6. v \div p = 0 /\ v % p = v
  BY <1>5, Less
<1>7. nr_vcpus - 1 + 1 = nr_vcpus /\ nr_vcpus \div 1 = nr_vcpus /\ v \div 1 = v /\ 2^0 = 1
  BY <1>5
<1>8. ByLeafB(t) = [apicid |-> v, package |-> 0, core |-> v, cores |-> nr_vcpus]
  BY <1>4, <1>6, <1>7 DEF ByLeafB, p
<1>9. ByLeaf8(t) = [apicid |-> v, package |-> 0, core |-> v, cores |-> nr_vcpus]
  BY <1>3, <1>6, <1>7 DEF ByLeaf8, p
<1>10. ByLeaf1E(t) = [apicid |-> v, package |-> 0, core |-> v, cores |-> nr_vcpus]
  BY <1>3, <1>7 DEF ByLeaf1E
<1>11. \E k \in DOMAIN t : IsSubleaf(t[k], 2) /\ t[k].type = "end"
  BY DEF Described, EntryOf
<1> QED
  BY <1>3, <1>8, <1>9, <1>10, <1>11

-----------------------------------------------------------------------------
(* The tables in memory.                                                   *)

(* A set of numbers with a member has a least one.                         *)
LEMMA LeastNumber ==
  ASSUME NEW T \in SUBSET Nat, T # {}
  PROVE  \E x \in T : \A y \in T : x <= y
<1> DEFINE R == OpToRel(<, Nat)
<1>1. \A x, y \in Nat : y < x => <<y, x>> \in R
  BY DEF OpToRel
<1>2. IsWellFoundedOn(R, Nat)
  BY NatLessThanWellFounded, Zenon
<1> HIDE DEF R
<1>3. PICK x \in T : \A y \in T : <<y, x>> \notin R
  BY <1>2, WFMin
<1>4. \A y \in T : ~(y < x)
  BY <1>1, <1>3
<1>5. \A y \in T : x <= y
  BY <1>4
<1> QED
  BY <1>5

(* Running sums that have the right steps are the sizes.                   *)
LEMMA SizeIs ==
  ASSUME NEW s, Len(s) \in Nat, NEW g,
         g = [k \in 0 .. Len(s) |-> IF k = 0 THEN 0 ELSE g[k - 1] + s[k].size]
  PROVE  SizeOf(s) = g[Len(s)]
<1> DEFINE n == Len(s)
           IsSum(f) == f = [k \in 0 .. n |-> IF k = 0 THEN 0 ELSE f[k - 1] + s[k].size]
           sum == CHOOSE f : IsSum(f)
<1>1. SizeOf(s) = sum[n]
  BY DEF SizeOf
<1>2. IsSum(sum)
  BY Zenon
<1> HIDE DEF sum
<1> DEFINE Differ == {k \in 0 .. n : sum[k] # g[k]}
<1>3. Differ = {}
  <2> SUFFICES ASSUME Differ # {} PROVE FALSE
    OBVIOUS
  <2>1. Differ \in SUBSET Nat
    OBVIOUS
  <2>2. PICK k \in Differ : \A j \in Differ : k <= j
    BY <2>1, LeastNumber
  <2>3. k \in 0 .. n /\ k # 0
    BY <1>2, <2>2
  <2>4. k - 1 \in 0 .. n /\ k - 1 \notin Differ
    BY <2>2, <2>3
  <2>5. sum[k] = sum[k - 1] + s[k].size
    BY <1>2, <2>3
  <2>6. g[k] = g[k - 1] + s[k].size
    BY <2>3
  <2>7. sum[k] # g[k] /\ sum[k - 1] = g[k - 1]
    BY <2>2, <2>4
  <2> QED
    BY <2>5, <2>6, <2>7
<1>4. n \in 0 .. n
  OBVIOUS
<1> HIDE DEF n
<1> QED
  BY <1>1, <1>3, <1>4 DEF n

(* The entries of the MP table one by one.                                 *)
MpLooks(n, mp) ==
  /\ Len(mp) = n + 20 /\ DOMAIN mp = 1 .. n + 20
  /\ \A k \in 1 .. n : mp[k].type = "cpu" /\ mp[k].size = 20 /\ mp[k].apicid = k - 1
  /\ \A k \in n + 1 .. n + 20 : mp[k].size = 8
  /\ mp[n + 1].type = "bus"
  /\ mp[n + 2].type = "ioapic" /\ mp[n + 2].apicid = n
  /\ \A k \in n + 3 .. n + 18 : mp[k].type = "int" /\ mp[k].dst = n
  /\ mp[n + 19].type = "extint" /\ mp[n + 20].type = "nmi"

LEMMA MpFields == \A n \in 1 .. 255 : MpLooks(n, MpEntries(n))
<1> TAKE n \in 1 .. 255
<1> DEFINE cpus == [k \in 1 .. n |-> [type |-> "cpu", size |-> 20, apicid |-> k - 1,
                                      boot |-> k = 1]]
           io   == << [type |-> "bus", size |-> 8], [type |-> "ioapic", size |-> 8,
                                                     apicid |-> n] >>
           ints == [k \in 1 .. 16 |-> [type |-> "int", size |-> 8, irq |-> k - 1, dst |-> n]]
           last == << [type |-> "extint", size |-> 8], [type |-> "nmi", size |-> 8] >>
           R    == {cpus[k] : k \in 1 .. n} \cup {io[k] : k \in 1 .. 2}
                   \cup {ints[k] : k \in 1 .. 16} \cup {last[k] : k \in 1 .. 2}
           mp   == MpEntries(n)
<1>1. mp = cpus \o io \o ints \o last
  BY DEF MpEntries
<1>2. cpus \in Seq(R) /\ Len(cpus) = n
  <2>1. n \in Nat /\ cpus = [k \in 1 .. n |-> cpus[k]] /\ \A k \in 1 .. n : cpus[k] \in R
    OBVIOUS
  <2> HIDE DEF cpus, R
  <2> QED
    BY <2>1
<1>3. ints \in Seq(R) /\ Len(ints) = 16
  <2>1. ints = [k \in 1 .. 16 |-> ints[k]] /\ \A k \in 1 .. 16 : ints[k] \in R
    OBVIOUS
  <2> HIDE DEF ints, R
  <2> QED
    BY <2>1
<1>4. io \in Seq(R) /\ Len(io) = 2
  <2>1. io[1] \in R /\ io[2] \in R
    OBVIOUS
  <2> HIDE DEF R
  <2> QED
    BY <2>1
<1>5. last \in Seq(R) /\ Len(last) = 2
  <2>1. last[1] \in R /\ last[2] \in R
    OBVIOUS
  <2> HIDE DEF R
  <2> QED
    BY <2>1
<1>6. \A k \in 1 .. n : cpus[k].type = "cpu" /\ cpus[k].size = 20 /\ cpus[k].apicid = k - 1
  OBVIOUS
<1>7. \A k \in 1 .. 16 : ints[k].type = "int" /\ ints[k].size = 8 /\ ints[k].dst = n
  OBVIOUS
<1>8. /\ io[1].type = "bus" /\ io[1].size = 8
      /\ io[2].type = "ioapic" /\ io[2].size = 8 /\ io[2].apicid = n
      /\ last[1].type = "extint" /\ last[1].size = 8
      /\ last[2].type = "nmi" /\ last[2].size = 8
  OBVIOUS
<1> DEFINE a == cpus \o io
           b == a \o ints
           c == b \o last
<1>9. mp = c
  BY <1>1
<1> HIDE DEF cpus, io, ints, last, R, mp
<1>10. Joined(R, cpus, io, a)
  BY <1>2, <1>4, Halves, Zenon
<1> HIDE DEF a
<1>11. Joined(R, a, ints, b)
  <2>1. a \in Seq(R)
    BY <1>10 DEF Joined
  <2> QED
    BY <1>3, <2>1, Halves, Zenon
<1> HIDE DEF b
<1>12. Joined(R, b, last, c)
  <2>1. b \in Seq(R)
    BY <1>11 DEF Joined
  <2> QED
    BY <1>5, <2>1, Halves, Zenon
<1> HIDE DEF c
<1>13. n \in Nat
  OBVIOUS
<1>14. /\ Len(a) = n + 2 /\ a[n + 1] = io[1] /\ a[n + 2] = io[2]
       /\ \A k \in 1 .. n : a[k] = cpus[k]
  BY <1>2, <1>4, <1>10, <1>13 DEF Joined
<1>15. /\ Len(b) = n + 18 /\ \A k \in 1 .. n + 2 : b[k] = a[k]
       /\ \A k \in 1 .. 16 : b[n + 2 + k] = ints[k]
  BY <1>3, <1>11, <1>13, <1>14 DEF Joined
<1>16. /\ Len(c) = n + 20 /\ \A k \in 1 .. n + 18 : c[k] = b[k]
       /\ c[n + 19] = last[1] /\ c[n + 20] = last[2]
  BY <1>5, <1>12, <1>13, <1>15 DEF Joined
<1>17. \A k \in n + 3 .. n + 18 : c[k].type = "int" /\ c[k].size = 8 /\ c[k].dst = n
  <2> SUFFICES ASSUME NEW k \in n + 3 .. n + 18
               PROVE  c[k].type = "int" /\ c[k].size = 8 /\ c[k].dst = n
    OBVIOUS
  <2>1. k - (n + 2) \in 1 .. 16 /\ n + 2 + (k - (n + 2)) = k /\ k \in 1 .. n + 18
    BY <1>13
  <2>2. c[k] = ints[k - (n + 2)]
    BY <1>15, <1>16, <2>1
  <2> QED
    BY <1>7, <2>1, <2>2
<1>18. \A k \in 1 .. n : c[k].type = "cpu" /\ c[k].size = 20 /\ c[k].apicid = k - 1
  <2>1. \A k \in 1 .. n : k \in 1 .. n + 2 /\ k \in 1 .. n + 18
    BY <1>13
  <2> QED
    <3>1. \A k \in 1 .. n : c[k] = cpus[k]
      BY <1>14, <1>15, <1>16, <2>1
    <3> QED
      BY <1>6, <3>1
<1>19. /\ c[n + 1] = io[1] /\ c[n + 2] = io[2]
  <2>1. n + 1 \in 1 .. n + 2 /\ n + 2 \in 1 .. n + 2 /\ n + 1 \in 1 .. n + 18
        /\ n + 2 \in 1 .. n + 18
    BY <1>13
  <2> QED
    BY <1>14, <1>15, <1>16, <2>1
<1>20. \A k \in n + 1 .. n + 20 : c[k].size = 8
  <2>1. \A k \in n + 1 .. n + 20 : k = n + 1 \/ k = n + 2 \/ k \in n + 3 .. n + 18
                                   \/ k = n + 19 \/ k = n + 20
    BY <1>13
  <2> QED
    BY <1>8, <1>16, <1>17, <1>19, <2>1
<1>21. DOMAIN c = 1 .. n + 20
  BY <1>12, <1>16 DEF Joined
<1>22. /\ c[n + 1].type = "bus" /\ c[n + 2].type = "ioapic" /\ c[n + 2].apicid = n
       /\ c[n + 19].type = "extint" /\ c[n + 20].type = "nmi"
  BY <1>8, <1>9, <1>16, <1>19
<1>23. MpLooks(n, c)
  BY <1>16, <1>17, <1>18, <1>20, <1>21, <1>22 DEF MpLooks
<1> QED
  BY <1>9, <1>23 DEF mp

LEMMA MpPlaces ==
  ASSUME NEW n \in 1 .. 255
  PROVE  \A k \in DOMAIN MpEntries(n) :
           k \in 1 .. n \/ k = n + 1 \/ k = n + 2 \/ k \in n + 3 .. n + 18
           \/ k = n + 19 \/ k = n + 20
<1>1. \A k \in 1 .. n + 20 : k \in 1 .. n \/ k = n + 1 \/ k = n + 2 \/ k \in n + 3 .. n + 18
                             \/ k = n + 19 \/ k = n + 20
  OBVIOUS
<1>2. DOMAIN MpEntries(n) = 1 .. n + 20
  BY MpFields, Zenon DEF MpLooks
<1> QED
  BY <1>1, <1>2

(* mptable_setup() checks the size it writes.                              *)
LEMMA MpSizeIsWritten ==
  ASSUME NEW n \in 1 .. 255
  PROVE  16 + 44 + SizeOf(MpEntries(n)) = MpSize(n)
<1> DEFINE mp == MpEntries(n)
           g  == [k \in 0 .. n + 20 |-> IF k <= n THEN 20 * k ELSE 20 * n + 8 * (k - n)]
<1>1. /\ Len(mp) = n + 20
      /\ \A k \in 1 .. n : mp[k].size = 20
      /\ \A k \in n + 1 .. n + 20 : mp[k].size = 8
  <2>1. MpLooks(n, mp)
    BY MpFields, Zenon
  <2> HIDE DEF mp
  <2> QED
    BY <2>1 DEF MpLooks
<1> HIDE DEF mp
<1>2. n \in Nat /\ n + 20 \in Nat
  OBVIOUS
<1>3. \A k \in 1 .. n + 20 : g[k] = g[k - 1] + mp[k].size
  <2> SUFFICES ASSUME NEW k \in 1 .. n + 20 PROVE g[k] = g[k - 1] + mp[k].size
    OBVIOUS
  <2>1. CASE k <= n
    BY <1>1, <1>2, <2>1
  <2>2. CASE k > n
    BY <1>1, <1>2, <2>2
  <2> QED
    BY <1>2, <2>1, <2>2
<1>4. g[0] = 0 /\ g[n + 20] = 20 * n + 160
  BY <1>2
<1>5. g = [k \in 0 .. n + 20 |-> g[k]]
  OBVIOUS
<1> HIDE DEF g
<1>6. g = [k \in 0 .. n + 20 |-> IF k = 0 THEN 0 ELSE g[k - 1] + mp[k].size]
  <2>1. \A k \in 0 .. n + 20 : g[k] = IF k = 0 THEN 0 ELSE g[k - 1] + mp[k].size
    <3>1. \A k \in 0 .. n + 20 : k = 0 \/ (k \in 1 .. n + 20 /\ k # 0)
      BY <1>2
    <3> QED
      BY <1>3, <1>4, <3>1
  <2> QED
    BY <1>5, <2>1
<1>7. SizeOf(mp) = 20 * n + 160
  <2>1. Len(mp) \in Nat
    BY <1>1, <1>2
  <2>2. g = [k \in 0 .. Len(mp) |-> IF k = 0 THEN 0 ELSE g[k - 1] + mp[k].size]
    BY <1>1, <1>6
  <2>3. SizeOf(mp) = g[Len(mp)]
    BY <2>1, <2>2, SizeIs, Zenon
  <2> QED
    BY <1>1, <1>4, <2>3
<1> QED
  BY <1>2, <1>7 DEF MpSize, mp

(* The entries of the MADT.                                                *)
LEMMA MadtFields ==
  ASSUME NEW n \in 1 .. 255
  PROVE  /\ DOMAIN MadtEntries(n) = 1 .. n + 2
         /\ \A k \in 1 .. n : /\ MadtEntries(n)[k].type = "cpu"
                              /\ MadtEntries(n)[k].apicid = k - 1
         /\ MadtEntries(n)[n + 1].type = "ioapic" /\ MadtEntries(n)[n + 1].apicid = n
         /\ MadtEntries(n)[n + 2].type = "nmi"
<1> DEFINE cpus == [k \in 1 .. n |-> [type |-> "cpu", size |-> 8, apicid |-> k - 1]]
           io   == << [type |-> "ioapic", size |-> 12, apicid |-> n],
                      [type |-> "nmi", size |-> 6] >>
           R    == {cpus[k] : k \in 1 .. n} \cup {io[k] : k \in 1 .. 2}
           ma   == MadtEntries(n)
<1>1. ma = cpus \o io
  BY DEF MadtEntries
<1>2. cpus \in Seq(R) /\ Len(cpus) = n
  <2>1. n \in Nat /\ cpus = [k \in 1 .. n |-> cpus[k]] /\ \A k \in 1 .. n : cpus[k] \in R
    OBVIOUS
  <2> HIDE DEF cpus, R
  <2> QED
    BY <2>1
<1>3. io \in Seq(R) /\ Len(io) = 2
  <2>1. io[1] \in R /\ io[2] \in R
    OBVIOUS
  <2> HIDE DEF R
  <2> QED
    BY <2>1
<1>4. \A k \in 1 .. n : cpus[k].type = "cpu" /\ cpus[k].apicid = k - 1
  OBVIOUS
<1>5. io[1].type = "ioapic" /\ io[1].apicid = n /\ io[2].type = "nmi"
  OBVIOUS
<1> HIDE DEF cpus, io, R, ma
<1>6. Joined(R, cpus, io, ma)
  BY <1>1, <1>2, <1>3, Halves, Zenon
<1>7. n \in Nat
  OBVIOUS
<1>8. /\ Len(ma) = n + 2 /\ DOMAIN ma = 1 .. n + 2 /\ ma[n + 1] = io[1] /\ ma[n + 2] = io[2]
      /\ \A k \in 1 .. n : ma[k] = cpus[k]
  BY <1>2, <1>3, <1>6, <1>7 DEF Joined
<1>9. /\ \A k \in 1 .. n : ma[k].type = "cpu" /\ ma[k].apicid = k - 1
      /\ ma[n + 1].type = "ioapic" /\ ma[n + 1].apicid = n /\ ma[n + 2].type = "nmi"
  <2> HIDE DEF cpus, io
  <2>1. \A k \in 1 .. n : ma[k].type = "cpu" /\ ma[k].apicid = k - 1
    BY <1>4, <1>8
  <2> QED
    BY <1>5, <1>8, <2>1
<1> QED
  BY <1>8, <1>9 DEF ma

(* A table that starts with its processors, numbered from 0, and has no    *)
(* others.                                                                 *)
CpusFirst(e, n, d) ==
  /\ n \in Nat /\ d \in Nat /\ DOMAIN e = 1 .. n + d
  /\ \A k \in 1 .. n : e[k].type = "cpu" /\ e[k].apicid = k - 1
  /\ \A k \in n + 1 .. n + d : e[k].type # "cpu"

LEMMA CpuIds ==
  ASSUME NEW n, NEW d, NEW e, CpusFirst(e, n, d)
  PROVE  Ids(e, "cpu") = 0 .. n - 1
<1> USE DEF CpusFirst
<1> DEFINE D == {j \in DOMAIN e : e[j].type = "cpu"}
<1>1. \A k \in 1 .. n : k \in D
  <2>1. \A k \in 1 .. n : k \in 1 .. n + d
    OBVIOUS
  <2> QED
    BY <2>1
<1>2. \A k \in D : k \in 1 .. n
  <2>1. \A k \in 1 .. n + d : k \in 1 .. n \/ k \in n + 1 .. n + d
    OBVIOUS
  <2> QED
    BY <2>1
<1>3. Ids(e, "cpu") = {e[k].apicid : k \in D}
  BY DEF Ids
<1> HIDE DEF D
<1>4. ASSUME NEW i \in Ids(e, "cpu") PROVE i \in 0 .. n - 1
  <2>1. PICK k \in D : i = e[k].apicid
    BY <1>3, <1>4
  <2>2. k \in 1 .. n /\ e[k].apicid = k - 1
    BY <1>2, <2>1
  <2> QED
    BY <2>1, <2>2
<1>5. ASSUME NEW i \in 0 .. n - 1 PROVE i \in Ids(e, "cpu")
  <2>1. i + 1 \in 1 .. n /\ (i + 1) - 1 = i
    OBVIOUS
  <2>2. i + 1 \in D /\ e[i + 1].apicid = i
    BY <1>1, <2>1
  <2> QED
    BY <1>3, <2>2
<1> QED
  BY <1>4, <1>5

(* Both tables name processors 0 to n - 1 and IOAPIC n.                    *)
LEMMA IdsOf ==
  ASSUME NEW n \in 1 .. 255
  PROVE  /\ Ids(MpEntries(n), "cpu") = 0 .. n - 1 /\ Ids(MadtEntries(n), "cpu") = 0 .. n - 1
         /\ Ids(MpEntries(n), "ioapic") = {n} /\ Ids(MadtEntries(n), "ioapic") = {n}
<1> DEFINE mp == MpEntries(n)
           ma == MadtEntries(n)
<1>1. n \in Nat
  OBVIOUS
<1>2. /\ DOMAIN mp = 1 .. n + 20
      /\ \A k \in 1 .. n : mp[k].type = "cpu" /\ mp[k].apicid = k - 1
      /\ mp[n + 2].type = "ioapic" /\ mp[n + 2].apicid = n
      /\ \A k \in n + 1 .. n + 20 : mp[k].type # "cpu"
      /\ \A k \in 1 .. n + 20 : mp[k].type = "ioapic" => k = n + 2
  <2>1. \A k \in 1 .. n + 20 : k \in 1 .. n \/ k = n + 1 \/ k = n + 2 \/ k \in n + 3 .. n + 18
                               \/ k = n + 19 \/ k = n + 20
    OBVIOUS
  <2>2. \A k \in n + 1 .. n + 20 : k \in 1 .. n + 20 /\ k \notin 1 .. n
    OBVIOUS
  <2>3. /\ DOMAIN mp = 1 .. n + 20
        /\ \A k \in 1 .. n : mp[k].type = "cpu" /\ mp[k].apicid = k - 1
        /\ mp[n + 1].type = "bus" /\ mp[n + 2].type = "ioapic" /\ mp[n + 2].apicid = n
        /\ \A k \in n + 3 .. n + 18 : mp[k].type = "int"
        /\ mp[n + 19].type = "extint" /\ mp[n + 20].type = "nmi"
    <3>1. MpLooks(n, mp)
      BY MpFields, Zenon
    <3> HIDE DEF mp
    <3> QED
      BY <3>1 DEF MpLooks
  <2> HIDE DEF mp
  <2>4. \A k \in n + 1 .. n + 20 : mp[k].type # "cpu"
    BY <2>1, <2>2, <2>3
  <2>5. \A k \in 1 .. n + 20 : mp[k].type = "ioapic" => k = n + 2
    BY <2>1, <2>3
  <2> QED
    BY <2>3, <2>4, <2>5
<1>3. /\ DOMAIN ma = 1 .. n + 2
      /\ \A k \in 1 .. n : ma[k].type = "cpu" /\ ma[k].apicid = k - 1
      /\ ma[n + 1].type = "ioapic" /\ ma[n + 1].apicid = n
      /\ \A k \in n + 1 .. n + 2 : ma[k].type # "cpu"
      /\ \A k \in 1 .. n + 2 : ma[k].type = "ioapic" => k = n + 1
  <2>1. \A k \in 1 .. n + 2 : k \in 1 .. n \/ k = n + 1 \/ k = n + 2
    OBVIOUS
  <2>2. \A k \in n + 1 .. n + 2 : k = n + 1 \/ k = n + 2
    OBVIOUS
  <2> QED
    BY <2>1, <2>2, MadtFields
<1> HIDE DEF mp, ma
<1>6. n + 2 \in 1 .. n + 20 /\ n + 1 \in 1 .. n + 2
  BY <1>1
<1>7. Ids(mp, "cpu") = 0 .. n - 1
  <2>1. CpusFirst(mp, n, 20)
    BY <1>1, <1>2 DEF CpusFirst
  <2> QED
    BY <2>1, CpuIds, Zenon
<1>8. Ids(ma, "cpu") = 0 .. n - 1
  <2>1. CpusFirst(ma, n, 2)
    BY <1>1, <1>3 DEF CpusFirst
  <2> QED
    BY <2>1, CpuIds, Zenon
<1>9. Ids(mp, "ioapic") = {n}
  <2>1. {j \in DOMAIN mp : mp[j].type = "ioapic"} = {n + 2}
    BY <1>2, <1>6
  <2> QED
    BY <1>2, <2>1 DEF Ids
<1>10. Ids(ma, "ioapic") = {n}
  <2>1. {j \in DOMAIN ma : ma[j].type = "ioapic"} = {n + 1}
    BY <1>3, <1>6
  <2> QED
    BY <1>3, <2>1 DEF Ids
<1> QED
  BY <1>7, <1>8, <1>9, <1>10 DEF mp, ma

(* acpi_setup() puts its tables behind one another.                        *)
LEMMA AcpiApart ==
  ASSUME NEW n \in 1 .. 255, NEW a \in DOMAIN AcpiTables(n), NEW b \in DOMAIN AcpiTables(n), a # b
  PROVE  AcpiTables(n)[a].hi <= AcpiTables(n)[b].lo \/ AcpiTables(n)[b].hi <= AcpiTables(n)[a].lo
<1> DEFINE t == AcpiTables(n)
<1>1. /\ t.rsdp.lo = 0 /\ t.rsdp.hi = 36
      /\ t.xsdt.lo = 48 /\ t.xsdt.hi = 100
      /\ t.fadt.lo = 112 /\ t.fadt.hi = 388
      /\ t.dsdt.lo = 400 /\ t.dsdt.hi = 450
      /\ t.madt.lo = 464
  BY DEF AcpiTables, Align16
<1>2. DOMAIN t = {"rsdp", "xsdt", "fadt", "dsdt", "madt"}
  BY DEF AcpiTables
<1> HIDE DEF t
<1>3. a \in {"rsdp", "xsdt", "fadt", "dsdt", "madt"} /\ b \in {"rsdp", "xsdt", "fadt", "dsdt", "madt"}
  BY <1>2 DEF t
<1>4. t[a].hi <= t[b].lo \/ t[b].hi <= t[a].lo
  BY <1>1, <1>3
<1> QED
  BY <1>4 DEF t

-----------------------------------------------------------------------------
(* The vCPUs one after the other.                                          *)

Attempts == {FirstNent, 2 * FirstNent, 4 * FirstNent, 8 * FirstNent, 16 * FirstNent,
             32 * FirstNent}

(* A vCPU has its table, or there was a reason that it has none.           *)
TablesInv ==
  /\ HostOK(host) /\ nr_vcpus \in 1 .. 255 /\ id \in 0 .. nr_vcpus
  /\ nent \in Attempts
  /\ table = <<>> \/ table = host.leaves
  /\ DOMAIN cpuid = 0 .. id - 1
  /\ \A v \in 0 .. id - 1 :
       IF cpuid[v] = <<>> THEN host.fails \/ Entries(host.leaves) > MaxNent
       ELSE Described(cpuid[v], v, nr_vcpus, Len(host.leaves))

LEMMA EntriesAreNat == HostOK(host) => Entries(host.leaves) \in Nat /\ Len(host.leaves) \in Nat
BY DEF HostOK, Entries

LEMMA NextVcpuKeeps ==
  ASSUME TablesInv, id < nr_vcpus, NEW t, NextVcpu(t),
         IF t = <<>> THEN host.fails \/ Entries(host.leaves) > MaxNent
         ELSE Described(t, id, nr_vcpus, Len(host.leaves))
  PROVE  TablesInv'
<1>1. /\ cpuid' = [v \in 0 .. id |-> IF v = id THEN t ELSE cpuid[v]]
      /\ id' = id + 1 /\ nent' = FirstNent /\ table' = <<>> /\ host' = host /\ nr_vcpus' = nr_vcpus
  BY DEF NextVcpu
<1>2. id \in Nat /\ nr_vcpus \in Nat /\ id' \in 0 .. nr_vcpus /\ id' - 1 = id
  BY <1>1 DEF TablesInv
<1>3. DOMAIN cpuid' = 0 .. id' - 1
  BY <1>1, <1>2
<1>4. ASSUME NEW v \in 0 .. id' - 1
      PROVE  IF cpuid'[v] = <<>> THEN host.fails \/ Entries(host.leaves) > MaxNent
             ELSE Described(cpuid'[v], v, nr_vcpus, Len(host.leaves))
  <2>1. CASE v = id
    BY <1>1, <1>2, <2>1
  <2>2. CASE v # id
    <3>1. v \in 0 .. id - 1 /\ v \in 0 .. id
      <4>1. v \in 0 .. id
        BY <1>2
      <4> QED
        BY <1>2, <2>2, <4>1
    <3>2. cpuid'[v] = cpuid[v]
      BY <1>1, <2>2, <3>1
    <3> QED
      BY <3>1, <3>2 DEF TablesInv
  <2> QED
    BY <2>1, <2>2
<1>5. (HostOK(host) /\ nr_vcpus \in 1 .. 255)'
  BY <1>1 DEF TablesInv
<1>6. nent' \in Attempts
  BY <1>1 DEF Attempts
<1>7. Entries(host.leaves)' = Entries(host.leaves)
  BY <1>1 DEF Entries
<1> QED
  BY <1>1, <1>2, <1>3, <1>4, <1>5, <1>6, <1>7 DEF TablesInv

LEMMA InitVcpuKeeps ==
  ASSUME TablesInv, InitVcpu
  PROVE  TablesInv'
<1>1. id < nr_vcpus /\ HostOK(host) /\ Entries(host.leaves) \in Nat
  BY EntriesAreNat DEF InitVcpu, TablesInv
<1>2. CASE kvm_get_supported_cpuid
  <2>1. CASE /\ table' = host.leaves
             /\ UNCHANGED <<host, nr_vcpus, id, nent, cpuid>>
    BY <2>1 DEF TablesInv, Entries
  <2>2. CASE /\ nent * 2 <= MaxNent /\ nent' = nent * 2
             /\ UNCHANGED <<host, nr_vcpus, id, table, cpuid>>
    <3>1. nent' \in Attempts
      BY <2>2, TopologyAssumption DEF TopologyAssumption, Attempts, TablesInv
    <3> QED
      BY <2>2, <3>1 DEF TablesInv, Entries
  <2>3. CASE Entries(host.leaves) > nent /\ nent * 2 > MaxNent /\ NextVcpu(<<>>)
    <3>1. nent = MaxNent
      BY <2>3, TopologyAssumption DEF TopologyAssumption, Attempts, TablesInv
    <3>2. Entries(host.leaves) > MaxNent
      BY <2>3, <3>1
    <3> QED
      BY <1>1, <2>3, <3>2, NextVcpuKeeps
  <2>4. CASE host.fails /\ NextVcpu(<<>>)
    BY <1>1, <2>4, NextVcpuKeeps
  <2> QED
    BY <1>2, <2>1, <2>2, <2>3, <2>4 DEF kvm_get_supported_cpuid
<1>3. CASE SetCpuid
  <2>1. CASE NextVcpu(smp_fixup_cpuid(table))
    <3>1. table = host.leaves
      BY <1>3 DEF SetCpuid, TablesInv
    <3>2. Described(smp_fixup_cpuid(host.leaves), id, nr_vcpus, Len(host.leaves))
      BY <1>1, FixupDescribes
    <3>3. smp_fixup_cpuid(host.leaves) # <<>>
      BY <3>2 DEF Described
    <3> QED
      BY <1>1, <2>1, <3>1, <3>2, <3>3, NextVcpuKeeps
  <2>2. CASE host.fails /\ NextVcpu(<<>>)
    BY <1>1, <2>2, NextVcpuKeeps
  <2> QED
    BY <1>3, <2>1, <2>2 DEF SetCpuid
<1> QED
  BY <1>2, <1>3 DEF InitVcpu

(* What the invariant says of the three properties.                        *)
LEMMA FitsOf == TablesInv => TableFits
<1> SUFFICES ASSUME TablesInv, NEW v \in DOMAIN cpuid
             PROVE  /\ ~host.fails /\ Entries(host.leaves) <= MaxNent => cpuid[v] # <<>>
                    /\ cpuid[v] # <<>> => Len(host.leaves) <= Len(cpuid[v])
                    /\ NoneTwice(cpuid[v])
  BY DEF TableFits, NoneTwice
<1>1. v \in 0 .. id - 1 /\ Entries(host.leaves) \in Nat /\ MaxNent \in Nat
      /\ Len(host.leaves) \in Nat
  BY EntriesAreNat, TopologyAssumption DEF TablesInv, TopologyAssumption
<1>2. CASE cpuid[v] = <<>>
  BY <1>1, <1>2 DEF TablesInv, NoneTwice
<1>3. CASE cpuid[v] # <<>>
  BY <1>1, <1>3 DEF TablesInv, Described
<1> QED
  BY <1>2, <1>3

LEMMA TableOf ==
  ASSUME TablesInv, NEW v \in DOMAIN cpuid, cpuid[v] # <<>>
  PROVE  /\ nr_vcpus \in 1 .. 255 /\ v \in 0 .. nr_vcpus - 1
         /\ Described(cpuid[v], v, nr_vcpus, Len(host.leaves))
<1>1. v \in 0 .. id - 1 /\ id \in 0 .. nr_vcpus /\ nr_vcpus \in 1 .. 255
  BY DEF TablesInv
<1>2. v \in 0 .. nr_vcpus - 1
  BY <1>1
<1>3. Described(cpuid[v], v, nr_vcpus, Len(host.leaves))
  BY <1>1 DEF TablesInv
<1> QED
  BY <1>1, <1>2, <1>3

LEMMA PathsOf == TablesInv => PathsAgree
<1> SUFFICES ASSUME TablesInv, NEW v \in DOMAIN cpuid, cpuid[v] # <<>>
             PROVE  LET t  == cpuid[v]
                        Me == [apicid |-> v, package |-> 0, core |-> v, cores |-> nr_vcpus]
                    IN  /\ ByLeafB(t) = Me /\ ByLeaf8(t) = Me /\ ByLeaf1E(t) = Me
                        /\ \E k \in DOMAIN t : IsSubleaf(t[k], 2) /\ t[k].type = "end"
  BY DEF PathsAgree
<1>1. /\ nr_vcpus \in 1 .. 255 /\ v \in 0 .. nr_vcpus - 1
      /\ Described(cpuid[v], v, nr_vcpus, Len(host.leaves))
  BY TableOf
<1> QED
  BY <1>1, Paths

(* Firmware tables and CPUID name the same processors.                     *)
LEMMA FirmwareOf ==
  ASSUME TablesInv
  PROVE  FirmwareAgrees
<1> SUFFICES ASSUME id = nr_vcpus PROVE FirmwareAgrees
  BY DEF FirmwareAgrees
<1> DEFINE mp == MpEntries(nr_vcpus)
           ma == MadtEntries(nr_vcpus)
<1>1. /\ Ids(mp, "cpu") = 0 .. nr_vcpus - 1 /\ Ids(ma, "cpu") = 0 .. nr_vcpus - 1
      /\ Ids(mp, "ioapic") = {nr_vcpus} /\ Ids(ma, "ioapic") = {nr_vcpus}
  BY IdsOf DEF TablesInv
<1>2. \A v \in DOMAIN cpuid : cpuid[v] # <<>> => TheLeaf(cpuid[v], "1").apicid = v
  <2> SUFFICES ASSUME NEW v \in DOMAIN cpuid, cpuid[v] # <<>>
               PROVE  TheLeaf(cpuid[v], "1").apicid = v
    OBVIOUS
  <2>1. /\ nr_vcpus \in 1 .. 255 /\ v \in 0 .. nr_vcpus - 1
        /\ Described(cpuid[v], v, nr_vcpus, Len(host.leaves))
    BY TableOf
  <2> QED
    BY <2>1, Paths
<1>3. \A k \in DOMAIN mp : mp[k].type = "int" => mp[k].dst = nr_vcpus
  <2>1. \A k \in DOMAIN mp :
          k \in 1 .. nr_vcpus \/ k = nr_vcpus + 1 \/ k = nr_vcpus + 2
          \/ k \in nr_vcpus + 3 .. nr_vcpus + 18 \/ k = nr_vcpus + 19 \/ k = nr_vcpus + 20
    BY MpPlaces DEF TablesInv
  <2>2. /\ \A k \in 1 .. nr_vcpus : mp[k].type = "cpu"
        /\ \A k \in nr_vcpus + 3 .. nr_vcpus + 18 : mp[k].dst = nr_vcpus
        /\ mp[nr_vcpus + 1].type = "bus" /\ mp[nr_vcpus + 2].type = "ioapic"
        /\ mp[nr_vcpus + 19].type = "extint" /\ mp[nr_vcpus + 20].type = "nmi"
    <3>1. nr_vcpus \in 1 .. 255
      BY DEF TablesInv
    <3>2. MpLooks(nr_vcpus, mp)
      BY <3>1, MpFields, Zenon
    <3> HIDE DEF mp
    <3> QED
      BY <3>1, <3>2 DEF MpLooks
  <2> HIDE DEF mp
  <2> QED
    BY <2>1, <2>2
<1>4. {nr_vcpus} \cap (0 .. nr_vcpus - 1) = {}
  BY DEF TablesInv
<1>5. 16 + 44 + SizeOf(mp) = MpSize(nr_vcpus)
  BY MpSizeIsWritten DEF TablesInv
<1>6. \A a, b \in DOMAIN AcpiTables(nr_vcpus) :
        a # b => \/ AcpiTables(nr_vcpus)[a].hi <= AcpiTables(nr_vcpus)[b].lo
                 \/ AcpiTables(nr_vcpus)[b].hi <= AcpiTables(nr_vcpus)[a].lo
  BY AcpiApart DEF TablesInv
<1>7. \A v \in DOMAIN cpuid : cpuid[v] # <<>> => TheLeaf(cpuid[v], "1").apicid \in Ids(ma, "cpu")
  <2>1. \A v \in DOMAIN cpuid : v \in 0 .. nr_vcpus - 1
    BY DEF TablesInv
  <2> QED
    BY <1>1, <1>2, <2>1
<1>8. \A k \in DOMAIN mp : mp[k].type = "int" => mp[k].dst \in Ids(mp, "ioapic")
  BY <1>1, <1>3
<1>9. Ids(mp, "ioapic") \cap Ids(mp, "cpu") = {}
  BY <1>1, <1>4
<1> QED
  BY <1>1, <1>5, <1>6, <1>7, <1>8, <1>9 DEF FirmwareAgrees

-----------------------------------------------------------------------------
(* The numbers the command line leaves in cfg.                             *)

CfgInv ==
  /\ DOMAIN cfg = Option /\ arg \in Nat \ {0}
  /\ cfg.mode \in Mode /\ cfg.gran \in {"2m", "4k"}
  /\ cfg.smp \in 1 .. MaxVcpus /\ cfg.mem \in 0 .. Top - Page /\ cfg.map \in Addr
  /\ cfg.load # Unset => cfg.load \in Addr
  /\ parsing = "args" =>
       /\ cfg.cmdline # None => cfg.cmdline \in Nat
       /\ cfg.append # None => cfg.append \in Nat
  /\ parsing = "ok" =>
       /\ cfg.load \in Addr
       /\ cfg.mode = "linux" => cfg.cmdline \in Nat

ArgsOK == Len(argv) \in Nat /\ \A k \in 1 .. Len(argv) : ArgOK(argv[k])

LEMMA Numbers ==
  /\ Top \in Nat /\ ThreeGiB = 6291456 /\ Page = 8 /\ TwoMiB = 4096
  /\ ThreeGiB + DefaultMap <= Top /\ DefaultMap \in Nat
  /\ HighMem \in Nat /\ 1920 <= HighMem /\ HighMem < Top
  /\ CmdlineMax \in Nat /\ CmdlineMax <= 523264
  /\ DefaultRam \in 0 .. Top - Page /\ LongPayload \in Addr /\ DefaultCmdline \in Nat
BY BootAssumption, KernelAssumption
   DEF BootAssumption, KernelAssumption, ThreeGiB, Page, TwoMiB, AcpiGpa, AcpiSize,
       EbdaStart, CmdlineGpa

LEMMA CfgStart == CmdlineInit => CfgInv
<1> SUFFICES ASSUME CmdlineInit PROVE CfgInv
  OBVIOUS
<1>1. DefaultMap \in Addr
  BY Numbers DEF Addr
<1> QED
  BY <1>1, Numbers, MaxVcpusAssumption
     DEF CmdlineInit, CfgInv, Default, Option, Mode, MaxVcpusAssumption

LEMMA SetOption ==
  ASSUME CfgInv, parsing = "args", NEW a, ArgOK(a), ~Refused(a), a.opt # "help", Set(a),
         arg' = arg + 1, parsing' = parsing
  PROVE  CfgInv'
<1>1. a.opt \in Option /\ a.val # Malformed
  BY DEF Refused
<1>2. \A o \in Option : cfg'[o] = IF o = a.opt THEN a.val ELSE cfg[o]
  BY <1>1 DEF Set, CfgInv
<1>3. DOMAIN cfg' = Option
  BY DEF Set, CfgInv
<1>4. {"mode", "gran", "smp", "mem", "map", "load", "cmdline", "append"} \subseteq Option
  BY DEF Option, Default
<1>5. /\ a.opt = "mode" => a.val \in Mode
      /\ a.opt = "gran" => a.val \in {"2m", "4k"}
      /\ a.opt = "smp" => a.val \in 1 .. MaxVcpus
  BY DEF Refused
<1>6. /\ a.opt = "mem" => a.val \in 0 .. Top - Page
      /\ a.opt \in {"load", "map"} => a.val \in Addr
      /\ a.opt \in {"cmdline", "append"} => a.val \in Nat
  BY <1>1 DEF ArgOK
<1> QED
  BY <1>2, <1>3, <1>4, <1>5, <1>6 DEF CfgInv

LEMMA CompletedFields ==
  ASSUME NEW c, DOMAIN c = Option
  PROVE  LET d == Completed(c)
             load == IF c.load = Unset THEN PayloadGpa(c.mode) ELSE c.load
         IN /\ DOMAIN d = Option
            /\ d.mode = c.mode /\ d.gran = c.gran /\ d.smp = c.smp /\ d.mem = c.mem /\ d.map = c.map
            /\ d.load = load
            /\ d.cmdline = IF c.mode = "linux" THEN CmdlineLen(c) ELSE None
            /\ d.entry = IF c.entry = Unset THEN load ELSE c.entry
<1> DEFINE load == IF c.load = Unset THEN PayloadGpa(c.mode) ELSE c.load
           len == IF c.mode = "linux" THEN CmdlineLen(c) ELSE None
           entr == IF c.entry = Unset THEN load ELSE c.entry
           d == [opt \in DOMAIN c |->
        CASE opt = "cmdline" -> len
          [] opt = "load"    -> load
          [] opt = "entry"   -> entr
          [] OTHER           -> c[opt]]
<1> HIDE DEF len, entr, d
<1>2. Completed(c) = d
  BY Zenon DEF Completed, load, len, entr, d
<1>3. {"mode", "gran", "smp", "mem", "map", "load", "cmdline", "entry"} \subseteq Option
  BY DEF Option, Default
<1> HIDE DEF load
<1>4. /\ DOMAIN d = Option
      /\ d.mode = c.mode /\ d.gran = c.gran /\ d.smp = c.smp /\ d.mem = c.mem /\ d.map = c.map
      /\ d.load = load /\ d.cmdline = len /\ d.entry = entr
  BY <1>3 DEF d
<1> QED
  BY <1>2, <1>4 DEF len, entr, load

LEMMA CfgStep == CfgInv /\ ArgsOK /\ CmdlineNext => CfgInv'
<1> SUFFICES ASSUME CfgInv, ArgsOK, CmdlineNext PROVE CfgInv'
  OBVIOUS
<1>1. CASE ParseArg
  <2>1. CASE cfg' = cfg /\ arg' = arg /\ parsing' \in {"failed", "help"}
    BY <2>1 DEF CfgInv
  <2>2. ASSUME NEW a, a = argv[arg], ~Refused(a), a.opt # "help", Set(a),
               arg' = arg + 1, parsing' = parsing, parsing = "args", ArgOK(a)
        PROVE  CfgInv'
    BY <2>2, SetOption
  <2> QED
    <3>1. parsing = "args" /\ arg <= Len(argv)
      BY <1>1 DEF ParseArg
    <3>2. ArgOK(argv[arg])
      BY <3>1 DEF ArgsOK, CfgInv
    <3> QED
      BY <1>1, <3>1, <3>2, <2>1, <2>2 DEF ParseArg
<1>2. CASE FinishArgs
  <2>1. CASE cfg' = cfg /\ arg' = arg /\ parsing' = "failed"
    BY <2>1 DEF CfgInv
  <2>2. CASE cfg' = Completed(cfg) /\ arg' = arg /\ parsing' = "ok" /\ parsing = "args"
    <3>1. /\ DOMAIN cfg' = Option
          /\ cfg'.mode = cfg.mode /\ cfg'.gran = cfg.gran /\ cfg'.smp = cfg.smp
          /\ cfg'.mem = cfg.mem /\ cfg'.map = cfg.map
          /\ cfg'.load = IF cfg.load = Unset THEN PayloadGpa(cfg.mode) ELSE cfg.load
          /\ cfg.mode = "linux" => cfg'.cmdline = CmdlineLen(cfg)
      BY <2>2, CompletedFields DEF CfgInv
    <3>2. CmdlineLen(cfg) \in Nat
      BY <2>2, Numbers DEF CmdlineLen, CfgInv
    <3>3. PayloadGpa(cfg.mode) \in Addr
      BY Numbers DEF PayloadGpa, Addr
    <3> QED
      BY <2>2, <3>1, <3>2, <3>3 DEF CfgInv
  <2> QED
    BY <1>2, <2>1, <2>2 DEF FinishArgs
<1> QED
  BY <1>1, <1>2 DEF CmdlineNext

-----------------------------------------------------------------------------
(* The invariant.                                                          *)

Before == {"parse", "create", "vcpus", "payload", "real16", "help"}

StageInv ==
  /\ stage \in Stages
  /\ stage \notin {"parse", "failed", "help"} => parsing = "ok"
  /\ stage \in {"kernel", "mptable", "acpi", "zeropage", "initrd"} => cfg.mode = "linux"
  /\ stage = "payload" => cfg.mode # "linux"
  /\ stage = "real16" => cfg.mode = "real16"
  /\ stage \in {"tables", "registers"} => cfg.mode # "real16"

(* There is a kernel in linux mode only, and what follows its loader       *)
(* relies on its extent.                                                   *)
HasKernel == cfg.mode = "linux" /\ stage \notin Before \cup {"kernel", "failed"}

KernelInv ==
  /\ ImageInv
  /\ \A r \in loaded : r.lo < r.hi /\ r.hi <= ram
  /\ stage \in Before \/ cfg.mode # "linux" => KernelInit
  /\ stage = "kernel" => step # "done"
  /\ HasKernel => Image!Valid(image, loaded, ram) /\ HighMem <= image.lo
  /\ image.fmt = "bzImage" => file.kind = "bzImage"

(* Where the boot code puts what when it boots Linux.                      *)
LinuxPlace(r) ==
  \/ r.what = "gdt" /\ r.lo = 8 /\ r.hi = 9
  \/ r.what = "tables" /\ 16 <= r.lo /\ r.hi <= 40
  \/ r.what = "boot_params" /\ r.lo = 56 /\ r.hi = 64
  \/ r.what = "cmdline" /\ r.lo = 256 /\ r.hi <= 1278
  \/ r.what = "mptable" /\ r.lo = 1278 /\ r.hi = 1280
  \/ r.what = "acpi" /\ r.lo = 1792 /\ r.hi = 1920
  \/ r.what = "initrd" /\ image.hi <= r.lo

(* And in long mode.                                                       *)
LongPlace(r) ==
  \/ r.what = "payload" /\ r.lo = cfg.load /\ r.hi = cfg.load + data.read
  \/ r.what = "gdt" /\ r.lo = 8 /\ r.hi = 9
  \/ r.what = "tables" /\ 16 <= r.lo /\ r.hi <= 40
  \/ r.what = "pts" /\ 40 <= r.lo /\ r.hi <= TableArea.hi

PlacedInv ==
  /\ \A r \in placed : r.lo \in Nat /\ r.hi \in Nat /\ r.lo <= r.hi /\ r.hi <= ram
  /\ stage \in {"parse", "create", "vcpus", "kernel", "payload", "help"} => placed = {}
  /\ stage # "failed" =>
       /\ cfg.mode = "linux"  => \A r \in placed : LinuxPlace(r)
       /\ cfg.mode = "real16" => \A r \in placed : r.what = "payload"
       /\ cfg.mode = "long64" => \A r \in placed : LongPlace(r)
  /\ stage \in {"registers", "run"} /\ cfg.mode = "long64" =>
       check_payload_overlap /\ TableArea.hi \in Nat /\ 40 <= TableArea.hi
  /\ stage = "tables" /\ cfg.mode = "long64" => \A r \in placed : r.what = "payload"

VcpusInv == id \in Nat /\ nr_vcpus \in Nat

BootInv == CfgInv /\ ArgsOK /\ DataOK(data) /\ VcpusInv /\ StageInv /\ KernelInv /\ PlacedInv

LEMMA RegionFields ==
  ASSUME NEW w, NEW x, NEW n
  PROVE  Region(w, x, n).what = w /\ Region(w, x, n).lo = x /\ Region(w, x, n).hi = x + n
BY DEF Region

(* A range of RAM.                                                         *)
LEMMA InRamEnds ==
  ASSUME ram \in Addr, NEW x \in Addr, NEW n \in Addr, InRam(x, n)
  PROVE  x + n <= ram /\ x \in Nat /\ n \in Nat /\ ram \in Nat
BY Accepted DEF Addr

LEMMA TypesOfKernel ==
  ASSUME KernelInv
  PROVE  /\ ram \in Addr /\ ram \in Nat /\ loaded \subseteq Extent
         /\ HasKernel => image.lo \in Nat /\ image.hi \in Nat /\ image.lo < image.hi
                         /\ image.fmt \in {"elf", "bzImage"} /\ 1920 <= image.lo
<1>1. KernelTypeOK
  BY DEF KernelInv, ImageInv, TypeInv
<1>2. ram \in Addr /\ ram \in Nat /\ loaded \subseteq Extent
  BY <1>1 DEF KernelTypeOK, Addr
<1>3. ASSUME HasKernel
      PROVE  image.lo \in Nat /\ image.hi \in Nat /\ image.lo < image.hi
             /\ image.fmt \in {"elf", "bzImage"} /\ 1920 <= image.lo
  <2>1. image.fmt \in {"elf", "bzImage"} /\ image.lo < image.hi /\ HighMem <= image.lo
    BY <1>3 DEF KernelInv, Image!Valid
  <2>2. image.lo \in Nat /\ image.hi \in Nat
    BY <1>1, <2>1 DEF KernelTypeOK, Addr
  <2> QED
    BY <2>1, <2>2, Numbers
<1> QED
  BY <1>2, <1>3

(* It gives the property.                                                  *)
LEMMA PlacesApart == BootInv => RegionsDisjoint
<1> SUFFICES ASSUME BootInv PROVE RegionsDisjoint
  OBVIOUS
<1>1. \A r \in loaded : /\ r.lo \in Nat /\ r.hi \in Nat /\ r.lo < r.hi /\ r.hi <= ram
                        /\ Region("kernel", r.lo, r.hi - r.lo).hi = r.hi
                        /\ Region("kernel", r.lo, r.hi - r.lo).lo = r.lo
  BY TypesOfKernel, RegionFields DEF BootInv, KernelInv, Extent
<1>2. \A r \in Regions :
        \/ r \in placed
        \/ \E e \in loaded : r.what = "kernel" /\ r.lo = e.lo /\ r.hi = e.hi
  BY <1>1, RegionFields DEF Regions
<1>3. \A r \in Regions : r.hi <= ram
  BY <1>1, <1>2 DEF BootInv, PlacedInv
<1>4. ASSUME stage # "failed", NEW r \in Regions, NEW s \in Regions, r.what # s.what
      PROVE  Disjoint(r, s)
  <2>1. CASE cfg.mode = "linux"
    <3>1. CASE stage \in Before \cup {"kernel"}
      <4>1. placed = {}
        BY <3>1, <2>1 DEF BootInv, PlacedInv, Before, StageInv
      <4> QED
        BY <4>1, <1>2, <1>4
    <3>2. CASE stage \notin Before \cup {"kernel"}
      <4>1. /\ HasKernel
            /\ \A e \in loaded : image.lo <= e.lo /\ e.hi <= image.hi
        BY <3>2, <1>4, <2>1 DEF HasKernel, BootInv, KernelInv, Image!Valid
      <4>2. image.lo \in Nat /\ image.hi \in Nat /\ image.lo < image.hi /\ 1920 <= image.lo
        BY <4>1, TypesOfKernel DEF BootInv
      <4>3. \A t \in Regions :
              /\ t.lo \in Nat /\ t.hi \in Nat /\ t.lo <= t.hi
              /\ LinuxPlace(t) \/ (t.what = "kernel" /\ image.lo <= t.lo /\ t.hi <= image.hi)
        BY <1>1, <1>2, <1>4, <2>1, <4>1 DEF BootInv, PlacedInv
      <4> QED
        BY <1>4, <4>2, <4>3 DEF LinuxPlace, Disjoint
    <3> QED
      BY <3>1, <3>2
  <2>2. CASE cfg.mode # "linux"
    <3>1. r \in placed /\ s \in placed
      BY <1>2, <1>4, <2>2 DEF BootInv, KernelInv, KernelInit
    <3>2. cfg.mode = "long64"
      BY <3>1, <2>2, <1>4 DEF BootInv, PlacedInv, CfgInv, Mode
    <3>3. stage \in {"registers", "run"}
      BY <3>1, <3>2, <2>2, <1>4 DEF BootInv, PlacedInv, StageInv, Stages
    <3>4. /\ LongPlace(r) /\ r.lo \in Nat /\ r.hi \in Nat /\ r.lo <= r.hi
          /\ LongPlace(s) /\ s.lo \in Nat /\ s.hi \in Nat /\ s.lo <= s.hi
      BY <3>1, <3>2, <1>4 DEF BootInv, PlacedInv
    <3>5. /\ TableArea.hi \in Nat /\ 40 <= TableArea.hi /\ TableArea.lo = 8
          /\ check_payload_overlap
      BY <3>2, <3>3, RegionFields DEF BootInv, PlacedInv, TableArea, layout, Page
    <3>6. cfg.load \in Nat
      BY <3>3, Numbers DEF BootInv, CfgInv, StageInv, Addr
    <3> QED
      BY <1>4, <3>4, <3>5, <3>6 DEF LongPlace, Disjoint, check_payload_overlap
  <2> QED
    BY <2>1, <2>2
<1> QED
  BY <1>3, <1>4 DEF RegionsDisjoint
-----------------------------------------------------------------------------
(* The steps before there is a kernel.                                     *)

LEMMA BootStart == BootInit => BootInv
<1> SUFFICES ASSUME BootInit PROVE BootInv
  OBVIOUS
<1>1. PICK i \in Inputs : argv = i.argv /\ file = i.file /\ data = i.data
  BY DEF BootInit
<1>2. ArgsOK /\ DataOK(data) /\ file \in KernelFile
  BY <1>1, InputsAssumption DEF ArgsOK, InputsAssumption
<1>3. CfgInv
  BY CfgStart DEF BootInit
<1>4. ram \in Addr
  BY Numbers DEF BootInit, Addr
<1>5. KernelInv
  BY <1>2, <1>4, ImageStart DEF BootInit, KernelInv, KernelInit, HasKernel, Before
<1>6. VcpusInv /\ StageInv /\ PlacedInv
  BY DEF BootInit, TopologyInit, VcpusInv, StageInv, Stages, PlacedInv
<1> QED
  BY <1>2, <1>3, <1>5, <1>6 DEF BootInv

(* A step that leaves the kernel alone.                                    *)
LEMMA KernelSame ==
  ASSUME KernelInv, UNCHANGED kernel,
         stage' \in Before \/ cfg'.mode # "linux" => KernelInit,
         stage' = "kernel" => step # "done",
         HasKernel' => HasKernel
  PROVE  KernelInv'
<1>1. ImageInv'
  BY ImageStep DEF KernelInv
<1>2. KernelInit => KernelInit'
  BY DEF KernelInit, kernel
<1> QED
  BY <1>1, <1>2 DEF KernelInv, kernel, Image!Valid, Image!InRange

LEMMA ParseStep == BootInv /\ Parse => BootInv'
<1> SUFFICES ASSUME BootInv, Parse PROVE BootInv'
  OBVIOUS
<1>1. /\ stage = "parse" /\ placed = {} /\ KernelInit
      /\ UNCHANGED <<kernel, data, placed, argv, id, nr_vcpus>> /\ CmdlineNext
  BY DEF Parse, BootInv, PlacedInv, KernelInv, Before, CmdlineNext, ParseArg, FinishArgs,
         topology
<1>2. CfgInv' /\ ArgsOK' /\ DataOK(data')
  BY <1>1, CfgStep DEF BootInv, ArgsOK
<1>3. parsing' \in {"args", "ok", "failed", "help"}
  BY <1>1 DEF CmdlineNext, ParseArg, FinishArgs
<1>4. \/ stage' = "parse" \/ stage' = "failed" \/ stage' = "help"
      \/ stage' = "create" /\ parsing' = "ok"
  BY <1>3 DEF Parse
<1>5. StageInv' /\ VcpusInv'
  BY <1>1, <1>4 DEF StageInv, Stages, BootInv, VcpusInv
<1>6. KernelInv'
  BY <1>1, <1>4, KernelSame DEF BootInv, HasKernel, Before
<1>7. PlacedInv'
  BY <1>1, <1>4 DEF PlacedInv
<1> QED
  BY <1>2, <1>5, <1>6, <1>7 DEF BootInv

LEMMA Rounded ==
  ASSUME NEW m \in 0 .. Top - Page
  PROVE  RoundUp(m, Page) \in Addr
BY Numbers DEF RoundUp, Page, Addr

LEMMA CreateStep == BootInv /\ vm_create => BootInv'
<1> SUFFICES ASSUME BootInv, vm_create PROVE BootInv'
  OBVIOUS
<1>1. /\ stage = "create" /\ placed = {} /\ KernelInit /\ parsing = "ok" /\ parsing' = "ok"
      /\ UNCHANGED <<cmdline_vars, data, placed, file, step, ph, lo, hi, entry, found,
                     reads, loaded, image>>
      /\ \/ stage' = "vcpus" /\ ram' = RoundUp(cfg.mem, Page) /\ nr_vcpus' = cfg.smp
         \/ stage' = "failed" /\ ram' = ram /\ nr_vcpus' = nr_vcpus
      /\ id' = id
  BY DEF vm_create, BootInv, PlacedInv, KernelInv, StageInv, Before, cmdline_vars
<1>2. CfgInv' /\ ArgsOK' /\ DataOK(data')
  BY <1>1 DEF BootInv, CfgInv, ArgsOK, cmdline_vars
<1>3. StageInv' /\ VcpusInv'
  BY <1>1, MaxVcpusAssumption DEF StageInv, Stages, BootInv, VcpusInv, CfgInv, MaxVcpusAssumption
<1>4. KernelInit' /\ loaded' = {}
  BY <1>1 DEF KernelInit
<1>5. ram' \in Addr /\ file' \in KernelFile
  BY <1>1, Rounded, TypesOfKernel
     DEF BootInv, CfgInv, KernelInv, ImageInv, TypeInv, KernelTypeOK
<1>6. ImageInv'
  <2>1. (KernelInit /\ ram \in Addr /\ file \in KernelFile => ImageInv)'
    BY ImageStart, PTL
  <2> QED
    BY <1>4, <1>5, <2>1
<1>7. KernelInv'
  <2>1. image'.fmt # "bzImage"
    BY <1>4 DEF KernelInit
  <2> QED
    BY <1>1, <1>4, <1>6, <2>1 DEF KernelInv, HasKernel, Before
<1>8. PlacedInv'
  BY <1>1 DEF PlacedInv
<1> QED
  BY <1>2, <1>3, <1>7, <1>8 DEF BootInv

LEMMA VcpuStep == BootInv /\ InitVcpus => BootInv'
<1> SUFFICES ASSUME BootInv, InitVcpus PROVE BootInv'
  OBVIOUS
<1>0. /\ id' \in Nat /\ nr_vcpus' = nr_vcpus /\ nr_vcpus \in Nat
      /\ id' < nr_vcpus \/ id' = nr_vcpus
  BY DEF InitVcpus, InitVcpu, kvm_get_supported_cpuid, SetCpuid, NextVcpu, BootInv, VcpusInv
<1>1. /\ stage = "vcpus" /\ placed = {} /\ KernelInit /\ parsing = "ok" /\ parsing' = "ok"
      /\ UNCHANGED <<cmdline_vars, kernel, data, placed>>
      /\ \/ stage' = "vcpus"
         \/ stage' = "kernel" /\ cfg.mode = "linux"
         \/ stage' = "payload" /\ cfg.mode # "linux"
  BY <1>0 DEF InitVcpus, BootInv, PlacedInv, KernelInv, StageInv, Before, cmdline_vars
<1>2. CfgInv' /\ ArgsOK' /\ DataOK(data') /\ cfg' = cfg
  BY <1>1 DEF BootInv, CfgInv, ArgsOK, cmdline_vars
<1>3. StageInv' /\ VcpusInv'
  BY <1>0, <1>1, <1>2 DEF StageInv, Stages, VcpusInv
<1>4. KernelInv'
  BY <1>1, <1>2, KernelSame DEF BootInv, HasKernel, Before, KernelInit
<1>5. PlacedInv'
  BY <1>1 DEF PlacedInv
<1> QED
  BY <1>2, <1>3, <1>4, <1>5 DEF BootInv
-----------------------------------------------------------------------------
(* The kernel.                                                             *)

(* Also when the loader fails in the end, it has written to RAM only.      *)
LEMMA LoadedInRam ==
  ASSUME KernelInv, KernelNext
  PROVE  ram' = ram /\ \A r \in loaded' : r.lo < r.hi /\ r.hi <= ram
<1>1. TypeInv /\ KernelTypeOK /\ ram \in Addr
  BY DEF KernelInv, ImageInv, TypeInv, KernelTypeOK
<1>2. \A r \in loaded : r.lo < r.hi /\ r.hi <= ram
  BY DEF KernelInv
<1>3. CASE loaded' = loaded /\ ram' = ram
  BY <1>2, <1>3
<1>4. ASSUME NEW x \in Addr, NEW n \in Addr, InRam(x, n), ram' = ram,
             loaded' = loaded \cup {Span(x, n)} \/ loaded' = {Span(x, n)}
      PROVE  ram' = ram /\ \A r \in loaded' : r.lo < r.hi /\ r.hi <= ram
  <2>1. Span(x, n).lo < Span(x, n).hi /\ Span(x, n).hi <= ram
    BY <1>1, <1>4, Accepted DEF Span
  <2> QED
    BY <1>2, <1>4, <2>1
<1>5. CASE kernel_load \/ check_ehdr \/ FinishElf
  BY <1>5, <1>3 DEF kernel_load, check_ehdr, FinishElf, Fail
<1>6. CASE LoadSegment
  <2>1. file.phs[ph] \in Segment
    BY <1>1, <1>6, ElfFile DEF LoadSegment, TypeInv, KindInv, KernelTypeOK, Segments
  <2>2. file.phs[ph].paddr \in Addr /\ file.phs[ph].memsz \in Addr
    BY <2>1 DEF Segment
  <2> QED
    BY <1>3, <1>4, <1>6, <2>2 DEF LoadSegment, Fail
<1>7. CASE bzimage_load
  <2>1. SetupEnd < file.size /\ InRam(LoadAddress, Needed) => LoadAddress \in Addr /\ Needed \in Addr
    BY <1>1, <1>7, BzNumbers DEF bzimage_load, TypeInv, KindInv
  <2> QED
    BY <1>3, <1>4, <1>7, <2>1 DEF bzimage_load, Fail
<1> QED
  BY <1>5, <1>6, <1>7 DEF KernelNext

(* A loader that succeeds hands over an image (see GivesImage).            *)
LEMMA LoadedImage ==
  ASSUME KernelInv, KernelNext, step # "done", step' = "done", image'.fmt # "failed"
  PROVE  Image!Valid(image', loaded', ram')
<1>1. image = [fmt |-> "none"] /\ ram' = ram
  BY LoadedInRam DEF KernelInv, ImageInv
<1>2. image'.fmt \in {"failed", "elf", "bzImage"}
  BY DEF KernelNext, kernel_load, check_ehdr, LoadSegment, FinishElf, bzimage_load, Fail
<1>3. image' # image
  BY <1>1, <1>2
<1>4. [Image!Next]_<<ram, loaded, image>>
  BY ImageStep DEF KernelInv
<1>5. image' = [fmt |-> "failed"] \/ Image!Valid(image', loaded', ram)
  BY <1>3, <1>4 DEF Image!Next, Image!CreateRam, Image!Load, Image!Finish
<1> QED
  BY <1>1, <1>5

LEMMA KernelStep == BootInv /\ LoadKernel => BootInv'
<1> SUFFICES ASSUME BootInv, LoadKernel PROVE BootInv'
  OBVIOUS
<1>1. /\ stage = "kernel" /\ placed = {} /\ parsing = "ok" /\ cfg.mode = "linux"
      /\ UNCHANGED <<argv, arg, cfg, parsing, data, placed, id, nr_vcpus>>
      /\ KernelNext /\ step # "done"
  BY DEF LoadKernel, BootInv, PlacedInv, KernelInv, StageInv, cmdline_vars, topology
<1>2. \/ stage' = "kernel" /\ step' # "done"
      \/ stage' = "failed"
      \/ /\ stage' = "mptable" /\ step' = "done" /\ image'.fmt # "failed"
         /\ ~(image'.lo < HighMem)
  BY DEF LoadKernel
<1>3. CfgInv' /\ ArgsOK' /\ DataOK(data') /\ VcpusInv'
  BY <1>1 DEF BootInv, CfgInv, ArgsOK, VcpusInv
<1>4. StageInv'
  BY <1>1, <1>2 DEF StageInv, Stages
<1>5. PlacedInv'
  BY <1>1, <1>2 DEF PlacedInv
<1>6. ImageInv' /\ KernelTypeOK'
  BY <1>1, ImageStep DEF BootInv, KernelInv, ImageInv, TypeInv
<1>7. KernelInv'
  <2>1. HasKernel' => Image!Valid(image', loaded', ram') /\ HighMem <= image'.lo
    <3> SUFFICES ASSUME HasKernel' PROVE Image!Valid(image', loaded', ram') /\ HighMem <= image'.lo
      OBVIOUS
    <3>1. step' = "done" /\ image'.fmt # "failed" /\ ~(image'.lo < HighMem)
      BY <1>2 DEF HasKernel
    <3>2. Image!Valid(image', loaded', ram')
      BY <1>1, <3>1, LoadedImage DEF BootInv
    <3>3. image'.lo \in Nat
      BY <1>6, <3>2 DEF Image!Valid, KernelTypeOK, Addr
    <3> QED
      BY <3>1, <3>2, <3>3, Numbers
  <2>2. stage' \notin Before
    BY <1>2 DEF Before
  <2>3. image'.fmt = "bzImage" => file'.kind = "bzImage"
    BY <1>1 DEF KernelNext, kernel_load, check_ehdr, LoadSegment, FinishElf, bzimage_load, Fail,
                BootInv, KernelInv, ImageInv, TypeInv, KindInv
  <2> QED
    BY <1>1, <1>2, <1>6, <2>1, <2>2, <2>3, LoadedInRam DEF BootInv, KernelInv
<1> QED
  BY <1>3, <1>4, <1>5, <1>7 DEF BootInv
-----------------------------------------------------------------------------
(* The steps that put something into RAM.                                  *)

Rest == <<cmdline_vars, topology, kernel, data>>

LEMMA RestSame ==
  ASSUME BootInv, UNCHANGED Rest
  PROVE  /\ CfgInv' /\ ArgsOK' /\ DataOK(data') /\ VcpusInv'
         /\ cfg' = cfg /\ data' = data /\ parsing' = parsing
         /\ ram' = ram /\ image' = image /\ loaded' = loaded /\ UNCHANGED kernel
         /\ TableArea' = TableArea /\ check_payload_overlap' = check_payload_overlap
<1>1. UNCHANGED <<argv, arg, cfg, parsing, id, nr_vcpus, kernel, data>>
  BY DEF Rest, cmdline_vars, topology
<1>2. layout' = layout
  BY <1>1 DEF layout, MapSize
<1>3. TableArea' = TableArea
  BY <1>2 DEF TableArea
<1> QED
  BY <1>1, <1>3
     DEF BootInv, CfgInv, ArgsOK, VcpusInv, kernel, check_payload_overlap

LEMMA FailsStep ==
  ASSUME BootInv, UNCHANGED Rest, Fails
  PROVE  BootInv'
<1>1. stage' = "failed" /\ placed' = placed
  BY DEF Fails
<1>2. StageInv'
  BY <1>1 DEF StageInv, Stages
<1>3. KernelInv'
  BY <1>1, RestSame, KernelSame DEF BootInv, HasKernel, Before, KernelInv
<1>4. PlacedInv'
  BY <1>1, RestSame DEF BootInv, PlacedInv
<1> QED
  BY <1>2, <1>3, <1>4, RestSame DEF BootInv

(* Something more is put into the RAM of a Linux guest.                    *)
LEMMA LinuxStep ==
  ASSUME BootInv, UNCHANGED Rest, HasKernel, NEW S,
         stage' \in {"acpi", "zeropage", "initrd", "tables", "registers", "run"},
         placed' = placed \cup S,
         \A r \in S : /\ r.lo \in Nat /\ r.hi \in Nat /\ r.lo <= r.hi /\ r.hi <= ram
                      /\ LinuxPlace(r)
  PROVE  BootInv'
<1>1. cfg.mode = "linux" /\ stage \notin {"parse", "failed", "help"} /\ stage # "failed"
  BY DEF HasKernel, Before
<1>2. StageInv'
  BY <1>1, RestSame DEF StageInv, Stages, BootInv
<1>3. KernelInv'
  BY <1>1, RestSame, KernelSame DEF BootInv, HasKernel, Before
<1>4. PlacedInv'
  BY <1>1, RestSame DEF BootInv, PlacedInv, LinuxPlace
<1> QED
  BY <1>2, <1>3, <1>4, RestSame DEF BootInv

LEMMA MptableStep == BootInv /\ UNCHANGED Rest /\ mptable_setup => BootInv'
<1> SUFFICES ASSUME BootInv, UNCHANGED Rest, mptable_setup PROVE BootInv'
  OBVIOUS
<1>1. CASE Fails
  BY <1>1, FailsStep
<1>2. CASE stage' = "acpi" /\ InRam(EbdaStart, 2)
           /\ placed' = placed \cup {Region("mptable", EbdaStart, 2)}
  <2>1. HasKernel
    BY DEF mptable_setup, BootInv, StageInv, HasKernel, Before
  <2>2. EbdaStart \in Addr /\ 2 \in Addr /\ EbdaStart = 1278
    BY Numbers DEF EbdaStart, Addr
  <2>3. 1280 <= ram
    BY <1>2, <2>2, InRamEnds, TypesOfKernel DEF BootInv
  <2> DEFINE S == {Region("mptable", EbdaStart, 2)}
  <2>4. \A r \in S : /\ r.lo \in Nat /\ r.hi \in Nat /\ r.lo <= r.hi /\ r.hi <= ram
                     /\ LinuxPlace(r)
    BY <2>2, <2>3, RegionFields DEF LinuxPlace
  <2>5. placed' = placed \cup S
    BY <1>2
  <2> HIDE DEF S
  <2> QED
    BY <1>2, <2>1, <2>4, <2>5, LinuxStep
<1> QED
  BY <1>1, <1>2 DEF mptable_setup

LEMMA AcpiStep == BootInv /\ UNCHANGED Rest /\ acpi_setup => BootInv'
<1> SUFFICES ASSUME BootInv, UNCHANGED Rest, acpi_setup PROVE BootInv'
  OBVIOUS
<1>1. CASE Fails
  BY <1>1, FailsStep
<1>2. CASE stage' = "zeropage" /\ InRam(AcpiGpa, AcpiSize)
           /\ placed' = placed \cup {Region("acpi", AcpiGpa, AcpiSize)}
  <2>1. HasKernel
    BY DEF acpi_setup, BootInv, StageInv, HasKernel, Before
  <2>2. AcpiGpa \in Addr /\ AcpiSize \in Addr /\ AcpiGpa = 1792 /\ AcpiSize = 128
    BY Numbers DEF AcpiGpa, AcpiSize, Addr
  <2>3. 1920 <= ram
    BY <1>2, <2>2, InRamEnds, TypesOfKernel DEF BootInv
  <2> DEFINE S == {Region("acpi", AcpiGpa, AcpiSize)}
  <2>4. \A r \in S : /\ r.lo \in Nat /\ r.hi \in Nat /\ r.lo <= r.hi /\ r.hi <= ram
                     /\ LinuxPlace(r)
    BY <2>2, <2>3, RegionFields DEF LinuxPlace
  <2>5. placed' = placed \cup S
    BY <1>2
  <2> HIDE DEF S
  <2> QED
    BY <1>2, <2>1, <2>4, <2>5, LinuxStep
<1> QED
  BY <1>1, <1>2 DEF acpi_setup

(* The command line ends before the EBDA.                                  *)
Sectors(c) == RoundUp(c + 1, 512) \div 512
Short(c)   == c \in Nat /\ c + 1 <= CmdlineMax

LEMMA CmdlineEnds ==
  ASSUME NEW c, Short(c)
  PROVE  Sectors(c) \in 0 .. 1022
<1>1. c \in Nat /\ c + 1 <= 523264
  BY Numbers DEF Short
<1> QED
  BY <1>1 DEF RoundUp, Sectors

LEMMA ZeropageStep == BootInv /\ UNCHANGED Rest /\ zeropage_setup => BootInv'
<1> SUFFICES ASSUME BootInv, UNCHANGED Rest, zeropage_setup PROVE BootInv'
  OBVIOUS
<1> DEFINE n == Sectors(cfg.cmdline)
           b == Region("boot_params", BootParams, Page)
           c == Region("cmdline", CmdlineGpa, n)
<1>1. CASE Fails
  BY <1>1, FailsStep
<1>2. CASE /\ InRam(BootParams, Page) /\ InRam(CmdlineGpa, n) /\ cfg.cmdline + 1 <= CmdlineMax
           /\ stage' = "initrd" /\ placed' = placed \cup {b, c}
  <2>1. HasKernel
    BY DEF zeropage_setup, BootInv, StageInv, HasKernel, Before
  <2>2. cfg.cmdline \in Nat
    BY <2>1 DEF HasKernel, Before, BootInv, StageInv, CfgInv
  <2>3. n \in 0 .. 1022
    <3>1. Short(cfg.cmdline)
      BY <1>2, <2>2 DEF Short
    <3> QED
      BY <3>1, CmdlineEnds
  <2> HIDE DEF n
  <2>4. /\ BootParams \in Addr /\ Page \in Addr /\ BootParams = 56 /\ Page = 8
        /\ CmdlineGpa \in Addr /\ n \in Addr /\ CmdlineGpa = 256
    BY <2>3, Numbers DEF BootParams, Page, CmdlineGpa, Addr
  <2>5. 64 <= ram /\ 256 + n <= ram
    BY <1>2, <2>4, InRamEnds, TypesOfKernel DEF BootInv
  <2>6. /\ b.what = "boot_params" /\ b.lo = 56 /\ b.hi = 64
        /\ c.what = "cmdline" /\ c.lo = 256 /\ c.hi = 256 + n
    BY <2>4, RegionFields
  <2> HIDE DEF b, c
  <2>7. LinuxPlace(b) /\ LinuxPlace(c)
    BY <2>3, <2>6 DEF LinuxPlace
  <2> DEFINE S == {b, c}
  <2>8. \A r \in S : /\ r.lo \in Nat /\ r.hi \in Nat /\ r.lo <= r.hi /\ r.hi <= ram
                     /\ LinuxPlace(r)
    BY <2>3, <2>5, <2>6, <2>7
  <2>9. placed' = placed \cup S
    BY <1>2
  <2> HIDE DEF S
  <2> QED
    BY <1>2, <2>1, <2>8, <2>9, LinuxStep
<1> QED
  BY <1>1, <1>2 DEF zeropage_setup, Sectors
LEMMA MinOfTwo ==
  ASSUME NEW a \in Int, NEW b \in Int
  PROVE  Min({a, b}) = IF a <= b THEN a ELSE b
<1> DEFINE m == IF a <= b THEN a ELSE b
<1>1. m \in {a, b} /\ \A y \in {a, b} : m <= y
  OBVIOUS
<1>2. \A x \in {a, b} : (\A y \in {a, b} : x <= y) => x = m
  OBVIOUS
<1> HIDE DEF m
<1>3. Min({a, b}) = m
  BY <1>1, <1>2 DEF Min
<1> QED
  BY <1>3 DEF m

(* A header names no limit or an address.                                  *)
LEMMA HeaderNat ==
  ASSUME BootInv
  PROVE  HeaderTop \in Nat
<1>1. CASE image.fmt = "bzImage"
  <2>1. file.initrd_top \in Addr
    BY <1>1 DEF BootInv, KernelInv, ImageInv, TypeInv, KernelTypeOK, KernelFile
  <2> QED
    BY <1>1, <2>1 DEF HeaderTop, Addr
<1>2. CASE image.fmt # "bzImage"
  BY <1>2 DEF HeaderTop
<1> QED
  BY <1>1, <1>2

LEMMA TopInRam ==
  ASSUME BootInv, HasKernel
  PROVE  InitrdTop \in Nat /\ InitrdTop <= ram
<1>1. HeaderTop \in Nat
  BY HeaderNat
<1>2. Min({HeaderTop, DefaultMap}) \in Nat
  BY <1>1, Numbers, MinOfTwo
<1> DEFINE x == IF HeaderTop = 0 THEN DefaultTop ELSE Min({HeaderTop, DefaultMap})
<1>3. x \in Nat
  BY <1>2 DEF DefaultTop
<1>4. ram \in Nat
  BY TypesOfKernel DEF BootInv
<1>5. InitrdTop = Min({ram, x})
  BY DEF InitrdTop
<1> HIDE DEF x
<1> QED
  BY <1>3, <1>4, <1>5, MinOfTwo

LEMMA RoundedDown ==
  ASSUME NEW x \in Nat
  PROVE  RoundDown(x, TwoMiB) \in 0 .. x
BY DEF RoundDown, TwoMiB

(* What mem_load_file() has read lies in RAM.                              *)
LEMMA FileInRam ==
  ASSUME BootInv, NEW gpa \in Addr, CanLoad(gpa)
  PROVE  gpa \in Nat /\ data.read \in Nat /\ gpa + data.read <= ram
<1>1. data.size \in Addr /\ data.read \in 0 .. data.size
  BY DEF CanLoad, BootInv, DataOK
<1>2. gpa + data.size <= ram /\ gpa \in Nat /\ data.size \in Nat /\ ram \in Nat
  BY <1>1, InRamEnds, TypesOfKernel DEF CanLoad, BootInv
<1> QED
  BY <1>1, <1>2

LEMMA InitrdStep == BootInv /\ UNCHANGED Rest /\ load_initrd => BootInv'
<1> SUFFICES ASSUME BootInv, UNCHANGED Rest, load_initrd PROVE BootInv'
  OBVIOUS
<1> DEFINE gpa == RoundDown(InitrdTop - data.stat, TwoMiB)
           i   == Region("initrd", gpa, data.read)
           S   == {i}
<1>1. CASE Fails
  BY <1>1, FailsStep
<1>2. CASE /\ data.stat # None /\ data.stat <= InitrdTop /\ gpa >= image.hi /\ CanLoad(gpa)
           /\ stage' = "tables" /\ placed' = placed \cup S
  <2>1. HasKernel
    BY DEF load_initrd, BootInv, StageInv, HasKernel, Before
  <2>2. InitrdTop \in Nat /\ InitrdTop <= ram /\ ram \in Addr /\ ram \in Nat
    BY <2>1, TopInRam, TypesOfKernel DEF BootInv
  <2>3. data.stat \in Nat /\ InitrdTop - data.stat \in 0 .. ram
    <3>1. data.stat \in Nat
      BY <1>2 DEF BootInv, DataOK, Addr
    <3> QED
      BY <1>2, <2>2, <3>1
  <2>4. gpa \in Addr
    <3>1. gpa \in 0 .. InitrdTop - data.stat
      BY <2>3, RoundedDown
    <3> HIDE DEF gpa
    <3> QED
      BY <2>2, <2>3, <3>1, Numbers DEF Addr
  <2> HIDE DEF gpa
  <2>5. gpa \in Nat /\ data.read \in Nat /\ gpa + data.read <= ram
    BY <1>2, <2>4, FileInRam
  <2>6. i.what = "initrd" /\ i.lo = gpa /\ i.hi = gpa + data.read
    BY RegionFields
  <2> HIDE DEF i
  <2>7. \A r \in S : /\ r.lo \in Nat /\ r.hi \in Nat /\ r.lo <= r.hi /\ r.hi <= ram
                     /\ LinuxPlace(r)
    <3>1. image.hi \in Nat
      BY <2>1, TypesOfKernel DEF BootInv
    <3> QED
      BY <1>2, <2>5, <2>6, <3>1 DEF LinuxPlace
  <2> HIDE DEF S
  <2> QED
    BY <1>2, <2>1, <2>7, LinuxStep
<1> QED
  BY <1>1, <1>2 DEF load_initrd

LEMMA PayloadStep == BootInv /\ UNCHANGED Rest /\ LoadPayload => BootInv'
<1> SUFFICES ASSUME BootInv, UNCHANGED Rest, LoadPayload PROVE BootInv'
  OBVIOUS
<1> DEFINE p == Region("payload", cfg.load, data.read)
<1>1. CASE Fails
  BY <1>1, FailsStep
<1>2. CASE /\ CanLoad(cfg.load) /\ placed' = {p}
           /\ stage' = IF cfg.mode = "real16" THEN "real16" ELSE "tables"
  <2>1. /\ stage = "payload" /\ cfg.mode \in {"real16", "long64"} /\ parsing = "ok" /\ KernelInit
        /\ cfg.load \in Addr
    BY DEF LoadPayload, BootInv, StageInv, CfgInv, KernelInv, Before, Mode
  <2>2. cfg.load \in Nat /\ data.read \in Nat /\ cfg.load + data.read <= ram
    BY <1>2, <2>1, FileInRam
  <2>3. p.what = "payload" /\ p.lo = cfg.load /\ p.hi = cfg.load + data.read
    BY RegionFields
  <2> HIDE DEF p
  <2>4. StageInv'
    BY <1>2, <2>1, RestSame DEF StageInv, Stages
  <2>5. KernelInv'
    BY <1>2, <2>1, RestSame, KernelSame DEF BootInv, HasKernel, Before
  <2>6. PlacedInv'
    BY <1>2, <2>1, <2>2, <2>3, RestSame DEF PlacedInv, LongPlace
  <2> QED
    BY <2>4, <2>5, <2>6, RestSame DEF BootInv
<1> QED
  BY <1>1, <1>2 DEF LoadPayload

LEMMA RealModeStep == BootInv /\ UNCHANGED Rest /\ boot_setup_real_mode => BootInv'
<1> SUFFICES ASSUME BootInv, UNCHANGED Rest, boot_setup_real_mode PROVE BootInv'
  OBVIOUS
<1>1. CASE Fails
  BY <1>1, FailsStep
<1>2. CASE stage' = "run" /\ placed' = placed
  <2>1. stage = "real16" /\ cfg.mode = "real16" /\ parsing = "ok" /\ KernelInit
    BY DEF boot_setup_real_mode, BootInv, StageInv, KernelInv, Before
  <2>2. StageInv'
    BY <1>2, <2>1, RestSame DEF StageInv, Stages
  <2>3. KernelInv'
    BY <1>2, <2>1, RestSame, KernelSame DEF BootInv, HasKernel, Before
  <2>4. PlacedInv'
    BY <1>2, <2>1, RestSame DEF BootInv, PlacedInv
  <2> QED
    BY <2>2, <2>3, <2>4, RestSame DEF BootInv
<1> QED
  BY <1>1, <1>2 DEF boot_setup_real_mode
(* The numbers of the layout.                                              *)
LEMMA LayoutValue ==
  ASSUME BootInv, stage \in {"tables", "registers"}
  PROVE  /\ layout.gdt = 1 /\ layout.pml4 = 2 /\ layout.pdpt = 3 /\ layout.pd = 4 /\ layout.pt = 5
         /\ layout.map \in Nat /\ layout.map \div Fanout \in Nat
         /\ layout.gran \in {"2m", "4k"} /\ (cfg.mode = "linux" => layout.gran = "2m")
         /\ TableArea.lo = 8
         /\ TableArea.hi = 40 + (IF layout.gran = "4k" THEN 8 * (layout.map \div Fanout) ELSE 0)
<1>1. MapSize \in Nat
  BY Numbers DEF MapSize, BootInv, CfgInv, Addr
<1>2. /\ layout.gdt = 1 /\ layout.pml4 = 2 /\ layout.pdpt = 3 /\ layout.pd = 4 /\ layout.pt = 5
      /\ layout.map = MapSize \div 8
      /\ layout.gran = IF cfg.mode = "long64" THEN cfg.gran ELSE "2m"
  BY DEF layout, Page
<1>3. layout.map \in Nat /\ layout.map \div Fanout \in Nat
  BY <1>1, <1>2 DEF Fanout
<1>4. layout.gran \in {"2m", "4k"} /\ (cfg.mode = "linux" => layout.gran = "2m")
  BY <1>2 DEF BootInv, CfgInv
<1>5. TableTop(layout) = 5 + (IF layout.gran = "4k" THEN layout.map \div Fanout ELSE 0)
  BY <1>2, <1>3, <1>4 DEF TableTop
<1>6. TableArea.lo = Page * layout.gdt
      /\ TableArea.hi = Page * layout.gdt + Page * (TableTop(layout) - layout.gdt)
  BY RegionFields DEF TableArea
<1> QED
  BY <1>2, <1>3, <1>4, <1>5, <1>6 DEF Page

(* Something more is put into RAM for a payload in long mode.              *)
LEMMA LongStep ==
  ASSUME BootInv, UNCHANGED Rest, cfg.mode = "long64", stage \in {"tables", "registers"},
         stage' \in {"registers", "run"}, check_payload_overlap,
         NEW S, placed' = placed \cup S,
         \A r \in S : /\ r.lo \in Nat /\ r.hi \in Nat /\ r.lo <= r.hi /\ r.hi <= ram
                      /\ LongPlace(r)
  PROVE  BootInv'
<1>1. TableArea.hi \in Nat /\ 40 <= TableArea.hi
  BY LayoutValue
<1>2. StageInv'
  BY RestSame DEF StageInv, Stages, BootInv
<1>3. KernelInv'
  <2>1. KernelInit /\ ~HasKernel' /\ stage' # "kernel"
    BY RestSame DEF BootInv, KernelInv, HasKernel
  <2> QED
    BY <2>1, RestSame, KernelSame DEF BootInv
<1>4. PlacedInv'
  <2>1. \A r \in placed' : /\ r.lo \in Nat /\ r.hi \in Nat /\ r.lo <= r.hi /\ r.hi <= ram
                           /\ LongPlace(r)
    BY DEF BootInv, PlacedInv
  <2>2. \A r \in placed' : LongPlace(r)'
    BY <2>1, RestSame DEF LongPlace
  <2> QED
    BY <1>1, <2>1, <2>2, RestSame DEF PlacedInv
<1> QED
  BY <1>2, <1>3, <1>4, RestSame DEF BootInv

Fits(t) == t.lo < t.hi => InRam(t.lo, t.hi - t.lo)

LEMMA Between ==
  ASSUME NEW a \in Int, NEW b \in Int, NEW c \in Int, a <= b, b <= c
  PROVE  a <= c
OBVIOUS

(* The tables lie behind one another, in RAM.                              *)
LEMMA TablesPlaced ==
  ASSUME BootInv, stage = "tables", boot_layout_validate, layout.map <= Gib,
         \A t \in Tables : Fits(t), NEW r \in Tables
  PROVE  /\ r.lo \in Nat /\ r.hi \in Nat /\ r.lo <= r.hi /\ r.hi <= ram
         /\ \/ r.what = "tables" /\ 16 <= r.lo /\ r.hi <= 40
            \/ r.what = "pts" /\ cfg.mode # "linux" /\ 40 <= r.lo /\ r.hi <= TableArea.hi
<1> DEFINE m == layout.map \div Fanout
<1>1. m \in 0 .. 512
  BY LayoutValue DEF Gib, Fanout
<1>2. \/ r.what = "tables" /\ r.lo \in {16, 24, 32} /\ r.hi = r.lo + 8
      \/ /\ layout.gran = "4k" /\ cfg.mode # "linux" /\ TableArea.hi = 40 + 8 * m
         /\ r.what = "pts" /\ r.lo = 40 /\ r.hi = 40 + 8 * m
  <2>1. CASE \E page \in {2, 3, 4} : r = Region("tables", Page * page, Page)
    BY <2>1, RegionFields DEF Page
  <2>2. CASE layout.gran # "2m" /\ r = Region("pts", Page * layout.pt, Page * m)
    <3>1. r.what = "pts" /\ r.lo = Page * layout.pt /\ r.hi = Page * layout.pt + Page * m
      BY <2>2, RegionFields
    <3> QED
      BY <2>2, <3>1, LayoutValue DEF Page
  <2> QED
    BY <2>1, <2>2, LayoutValue DEF Tables
<1> HIDE DEF m
<1>3. ram \in Addr /\ ram \in Nat /\ 8388608 - 2097152 <= Top /\ Top \in Nat
  BY TypesOfKernel, Numbers DEF BootInv
<1>4. r.lo \in Nat /\ r.hi \in Nat /\ r.lo <= r.hi /\ r.hi <= 4136
  BY <1>1, <1>2
<1>5. r.lo < r.hi => r.hi <= ram
  <2> SUFFICES ASSUME r.lo < r.hi PROVE r.hi <= ram
    OBVIOUS
  <2> DEFINE x == r.lo
             n == r.hi - r.lo
  <2>1. Fits(r)
    OBVIOUS
  <2>2. InRam(x, n)
    BY <2>1, SMT DEF Fits
  <2>3. x \in Addr /\ n \in Addr /\ x + n = r.hi
    BY <1>3, <1>4, SMT DEF Addr
  <2> HIDE DEF x, n
  <2>4. x + n <= ram
    BY <1>3, <2>2, <2>3, InRamEnds, SMT
  <2> QED
    BY <2>3, <2>4, SMT
<1>6. 40 <= ram
  <2> DEFINE top == TableArea.hi
             n   == top - 8
  <2>1. TableArea.lo = 8 /\ top \in 40 .. 4136
    <3>1. TableArea.lo = 8 /\ TableArea.hi = 40 + (IF layout.gran = "4k" THEN 8 * m ELSE 0)
      BY LayoutValue, Zenon DEF m
    <3> HIDE DEF top
    <3>2. top = 40 \/ top = 40 + 8 * m
      BY <3>1 DEF top
    <3> QED
      BY <1>1, <3>1, <3>2
  <2>2. InRam(8, n)
    BY <2>1, SMT DEF boot_layout_validate
  <2> HIDE DEF top
  <2>3. 8 \in Addr /\ n \in Addr /\ 8 + n = top
    BY <1>3, <2>1, SMT DEF Addr
  <2> HIDE DEF n
  <2>4. 8 + n <= ram
    BY <1>3, <2>2, <2>3, InRamEnds, SMT
  <2>5. top <= ram
    BY <2>3, <2>4
  <2>6. top \in Int /\ 40 <= top
    BY <2>1
  <2>7. ram \in Int
    BY <1>3
  <2>8. 40 \in Int
    OBVIOUS
  <2> QED
    BY <2>5, <2>6, <2>7, <2>8, Between
<1> QED
  BY <1>1, <1>2, <1>4, <1>5, <1>6

LEMMA PageTableStep == BootInv /\ UNCHANGED Rest /\ boot_build_page_table => BootInv'
<1> SUFFICES ASSUME BootInv, UNCHANGED Rest, boot_build_page_table PROVE BootInv'
  OBVIOUS
<1>1. CASE Fails
  BY <1>1, FailsStep
<1>2. CASE /\ boot_layout_validate /\ layout.map <= Gib
           /\ cfg.mode = "long64" => check_payload_overlap
           /\ \A t \in Tables : Fits(t)
           /\ stage' = "registers" /\ placed' = placed \cup Tables
  <2>1. stage = "tables" /\ cfg.mode \in {"linux", "long64"}
    BY DEF boot_build_page_table, BootInv, StageInv, CfgInv, Mode
  <2>2. \A r \in Tables :
          /\ r.lo \in Nat /\ r.hi \in Nat /\ r.lo <= r.hi /\ r.hi <= ram
          /\ \/ r.what = "tables" /\ 16 <= r.lo /\ r.hi <= 40
             \/ r.what = "pts" /\ cfg.mode # "linux" /\ 40 <= r.lo /\ r.hi <= TableArea.hi
    BY <1>2, <2>1, TablesPlaced
  <2>3. CASE cfg.mode = "linux"
    <3>1. HasKernel
      BY <2>1, <2>3 DEF HasKernel, Before
    <3> QED
      BY <1>2, <2>2, <2>3, <3>1, LinuxStep DEF LinuxPlace
  <2>4. CASE cfg.mode = "long64"
    BY <1>2, <2>1, <2>2, <2>4, LongStep DEF LongPlace
  <2> QED
    BY <2>1, <2>3, <2>4
<1> QED
  BY <1>1, <1>2 DEF boot_build_page_table, Fits

LEMMA LongModeStep == BootInv /\ UNCHANGED Rest /\ setup_long_mode => BootInv'
<1> SUFFICES ASSUME BootInv, UNCHANGED Rest, setup_long_mode PROVE BootInv'
  OBVIOUS
<1> DEFINE g == Region("gdt", Page * layout.gdt, 1)
           S == {g}
<1>1. CASE Fails
  BY <1>1, FailsStep
<1>2. CASE InRam(Page * layout.gdt, 1) /\ stage' = "run" /\ placed' = placed \cup S
  <2>1. stage = "registers" /\ cfg.mode \in {"linux", "long64"}
    BY DEF setup_long_mode, BootInv, StageInv, CfgInv, Mode
  <2>2. Page * layout.gdt = 8
    BY <2>1, LayoutValue DEF Page
  <2>3. 8 \in Addr /\ 1 \in Addr
    BY Numbers DEF Addr
  <2>4. 9 <= ram
    BY <1>2, <2>2, <2>3, InRamEnds, TypesOfKernel DEF BootInv
  <2>5. g.what = "gdt" /\ g.lo = 8 /\ g.hi = 9
    BY <2>2, RegionFields
  <2> HIDE DEF g
  <2>6. \A r \in S : /\ r.lo \in Nat /\ r.hi \in Nat /\ r.lo <= r.hi /\ r.hi <= ram
                     /\ LinuxPlace(r)
    BY <2>4, <2>5 DEF LinuxPlace
  <2>7. \A r \in S : /\ r.lo \in Nat /\ r.hi \in Nat /\ r.lo <= r.hi /\ r.hi <= ram
                     /\ LongPlace(r)
    BY <2>4, <2>5 DEF LongPlace
  <2>8. stage' = "run" /\ placed' = placed \cup S
    BY <1>2
  <2> HIDE DEF S
  <2>9. CASE cfg.mode = "linux"
    <3>1. HasKernel
      BY <2>1, <2>9 DEF HasKernel, Before
    <3> QED
      BY <2>6, <2>8, <3>1, LinuxStep
  <2>10. CASE cfg.mode = "long64"
    <3>1. check_payload_overlap
      BY <2>1, <2>10 DEF BootInv, PlacedInv
    <3> QED
      BY <2>1, <2>7, <2>8, <2>10, <3>1, LongStep
  <2> QED
    BY <2>1, <2>9, <2>10
<1> QED
  BY <1>1, <1>2 DEF setup_long_mode

-----------------------------------------------------------------------------

LEMMA BootStep == BootInv /\ [BootNext]_vars => BootInv'
<1> SUFFICES ASSUME BootInv, [BootNext]_vars PROVE BootInv'
  OBVIOUS
<1>1. CASE Parse \/ vm_create \/ InitVcpus \/ LoadKernel
  BY <1>1, ParseStep, CreateStep, VcpuStep, KernelStep
<1>2. CASE Build
  <2>1. UNCHANGED Rest
    BY <1>2 DEF Build, Rest
  <2> QED
    BY <1>2, <2>1, MptableStep, AcpiStep, ZeropageStep, InitrdStep, PayloadStep,
       RealModeStep, PageTableStep, LongModeStep DEF Build
<1>3. CASE UNCHANGED vars
  <2>1. UNCHANGED Rest /\ stage' = stage /\ placed' = placed
    BY <1>3 DEF vars, Rest, boot
  <2>2. StageInv'
    BY <2>1, RestSame DEF BootInv, StageInv
  <2>3. KernelInv'
    BY <2>1, RestSame, KernelSame DEF BootInv, KernelInv, HasKernel, Before
  <2>4. PlacedInv'
    BY <2>1, RestSame DEF BootInv, PlacedInv, LinuxPlace, LongPlace
  <2> QED
    BY <2>1, <2>2, <2>3, <2>4, RestSame DEF BootInv
<1> QED
  BY <1>1, <1>2, <1>3 DEF BootNext

(* The invariant holds, for all inputs of InputsAssumption.                *)
THEOREM Invariance == BootSpec => []BootInv
<1>1. BootInit => BootInv
  BY BootStart
<1>2. BootInv /\ [BootNext]_vars => BootInv'
  BY BootStep
<1> QED
  BY <1>1, <1>2, PTL DEF BootSpec

(* Nothing is put outside RAM or over anything else (main.c:353-354, :407, *)
(* gdt_pgtable.h:26, zeropage.h:19).                                       *)
THEOREM Disjointness == BootSpec => []RegionsDisjoint
<1>1. BootSpec => []BootInv
  BY Invariance
<1>2. BootInv => RegionsDisjoint
  BY PlacesApart
<1> QED
  BY <1>1, <1>2, PTL
-----------------------------------------------------------------------------
(* What was proved of the loaders alone holds when main() drives them.     *)

(* How a step of the boot process moves the loaders.                       *)
LEMMA KernelMoves ==
  ASSUME BootInv, [BootNext]_vars
  PROVE  \/ [KernelNext]_kernel
         \/ vm_create
<1>1. CASE LoadKernel
  BY <1>1 DEF LoadKernel
<1>2. CASE Parse \/ InitVcpus \/ Build \/ UNCHANGED vars
  BY <1>2 DEF Parse, InitVcpus, Build, vars
<1> QED
  BY <1>1, <1>2 DEF BootNext

(* Only bytes of the kernel file are read (elf_loader.c:43-47, :105-108).  *)
THEOREM BootReads == BootSpec => []ReadsInFile
<1>1. BootInit => ReadsInFile
  BY DEF BootInit, KernelInit, ReadsInFile
<1>2. BootInv /\ ReadsInFile /\ [BootNext]_vars => ReadsInFile'
  <2> SUFFICES ASSUME BootInv, ReadsInFile, [BootNext]_vars PROVE ReadsInFile'
    OBVIOUS
  <2>1. CASE [KernelNext]_kernel
    BY <2>1, ReadsStep DEF ReadsInv, BootInv, KernelInv, ImageInv
  <2>2. CASE vm_create
    BY <2>2 DEF vm_create, ReadsInFile
  <2> QED
    BY <2>1, <2>2, KernelMoves
<1>3. BootSpec => []BootInv
  BY Invariance
<1> QED
  BY <1>1, <1>2, <1>3, PTL DEF BootSpec

(* boot_linux() gets an image that lies in RAM, or none                    *)
(* (kernel_loader.c:27-68).                                                *)
THEOREM BootGivesImage == BootSpec => IsKernelImage
<1>1. BootInit => Image!Init
  BY DEF BootInit, KernelInit, Image!Init
<1>2. BootInv /\ [BootNext]_vars => [Image!Next]_<<ram, loaded, image>>
  <2> SUFFICES ASSUME BootInv, [BootNext]_vars PROVE [Image!Next]_<<ram, loaded, image>>
    OBVIOUS
  <2>1. CASE [KernelNext]_kernel
    BY <2>1, ImageStep DEF BootInv, KernelInv
  <2>2. CASE vm_create
    <3>1. KernelInit
      BY <2>2 DEF vm_create, BootInv, KernelInv, Before
    <3>2. RoundUp(cfg.mem, Page) \in Nat
      BY Rounded DEF BootInv, CfgInv, Addr
    <3> QED
      BY <2>2, <3>1, <3>2 DEF vm_create, KernelInit, Image!Next, Image!CreateRam
  <2> QED
    BY <2>1, <2>2, KernelMoves
<1>3. BootSpec => []BootInv
  BY Invariance
<1> QED
  BY <1>1, <1>2, <1>3, PTL DEF BootSpec, IsKernelImage, Image!Spec

(* Until the kernel is loaded the boot parameters are not written.         *)
LEMMA EarlySteps ==
  ASSUME BootInv, Parse \/ vm_create \/ InitVcpus \/ LoadKernel
  PROVE  stage' \notin {"initrd", "tables", "registers", "run"}
<1>1. Parse => parsing' \in {"args", "ok", "failed", "help"}
  BY DEF Parse, CmdlineNext, ParseArg, FinishArgs, BootInv, CfgInv
<1>2. InitVcpus => stage' \in {"vcpus", "kernel", "payload"}
  <2> SUFFICES ASSUME InitVcpus PROVE id' < nr_vcpus \/ id' = nr_vcpus
    BY DEF InitVcpus
  <2> QED
    BY DEF InitVcpus, InitVcpu, kvm_get_supported_cpuid, SetCpuid, NextVcpu, BootInv, VcpusInv
<1> QED
  BY <1>1, <1>2 DEF Parse, vm_create, LoadKernel

-----------------------------------------------------------------------------
(* The command line.                                                       *)

(* Where an option is given among the first n arguments.                   *)
At(opt, n) == {k \in 1 .. n : argv[k].opt = opt}

(* The value the parser has for it then.                                   *)
Recorded(opt, n, val) ==
  \/ At(opt, n) = {} /\ val = Default[opt]
  \/ \E k \in At(opt, n) : (\A j \in At(opt, n) : j <= k) /\ val = argv[k].val

OrderInv ==
  /\ parsing = "args" =>
       /\ arg \in 1 .. Len(argv) + 1
       /\ cfg = [opt \in Option |-> cfg[opt]]
       /\ \A opt \in Option : Recorded(opt, arg - 1, cfg[opt])
  /\ OptionOrderFree

LEMMA RecordedIsWritten ==
  ASSUME ArgsOK, NEW opt, NEW val, Recorded(opt, Len(argv), val)
  PROVE  val = Written(opt)
<1> DEFINE A == At(opt, Len(argv))
<1>1. Written(opt) = IF A = {} THEN Default[opt]
                     ELSE argv[CHOOSE k \in A : \A j \in A : j <= k].val
  BY DEF Written, At
<1>2. A \subseteq Nat
  BY DEF At, ArgsOK
<1>3. (A = {} /\ val = Default[opt])
      \/ \E k \in A : (\A j \in A : j <= k) /\ val = argv[k].val
  BY DEF Recorded
<1> HIDE DEF A
<1>4. CASE A = {}
  BY <1>1, <1>3, <1>4
<1>5. CASE A # {}
  <2>1. PICK k \in A : (\A j \in A : j <= k) /\ val = argv[k].val
    BY <1>3, <1>5
  <2> DEFINE m == CHOOSE n \in A : \A j \in A : j <= n
  <2>2. m \in A /\ \A j \in A : j <= m
    BY <2>1
  <2> HIDE DEF m
  <2>3. m = k
    BY <1>2, <2>1, <2>2
  <2> QED
    BY <1>1, <1>5, <2>1, <2>3 DEF m
<1> QED
  BY <1>4, <1>5

(* One more argument replaces the value of its option and no other.        *)
LEMMA RecordedNext ==
  ASSUME NEW n \in Nat, NEW opt, NEW val
  PROVE  /\ argv[n + 1].opt = opt => Recorded(opt, n + 1, argv[n + 1].val)
         /\ argv[n + 1].opt # opt /\ Recorded(opt, n, val) => Recorded(opt, n + 1, val)
<1>1. 1 .. n + 1 = (1 .. n) \cup {n + 1}
  OBVIOUS
<1>2. CASE argv[n + 1].opt = opt
  <2>1. n + 1 \in At(opt, n + 1) /\ \A j \in At(opt, n + 1) : j <= n + 1
    BY <1>2 DEF At
  <2> QED
    BY <1>2, <2>1 DEF Recorded
<1>3. CASE argv[n + 1].opt # opt
  <2>1. At(opt, n + 1) = At(opt, n)
    BY <1>1, <1>3 DEF At
  <2> QED
    BY <1>3, <2>1 DEF Recorded
<1> QED
  BY <1>2, <1>3

LEMMA OrderStep ==
  ASSUME BootInv, OrderInv, CmdlineNext
  PROVE  OrderInv'
<1>1. /\ arg \in 1 .. Len(argv) + 1 /\ parsing = "args" /\ argv' = argv /\ Len(argv) \in Nat
      /\ cfg = [opt \in Option |-> cfg[opt]]
      /\ \A opt \in Option : Recorded(opt, arg - 1, cfg[opt])
  BY DEF CmdlineNext, ParseArg, FinishArgs, OrderInv, BootInv, ArgsOK
<1>2. CASE parsing' \in {"failed", "help"}
  BY <1>2 DEF OrderInv, OptionOrderFree
<1>3. CASE ParseArg /\ parsing' = "args"
  <2> DEFINE a == argv[arg]
  <2>1. /\ arg <= Len(argv) /\ ~Refused(a) /\ a.opt # "help"
        /\ cfg' = [cfg EXCEPT ![a.opt] = a.val] /\ arg' = arg + 1
    BY <1>1, <1>3 DEF ParseArg, Set
  <2>2. a.opt \in Option
    BY <2>1 DEF Refused
  <2> DEFINE n == arg - 1
  <2>3. n \in Nat /\ arg = n + 1 /\ arg' - 1 = n + 1
    BY <1>1, <2>1
  <2> HIDE DEF n
  <2>4. ASSUME NEW opt \in Option
        PROVE  Recorded(opt, n + 1, cfg'[opt])
    <3>1. cfg'[opt] = IF opt = a.opt THEN a.val ELSE cfg[opt]
      BY <1>1, <2>1
    <3>2. Recorded(opt, n, cfg[opt])
      BY <1>1 DEF n
    <3> QED
      BY <2>3, <3>1, <3>2, RecordedNext
  <2>5. ASSUME NEW opt \in Option
        PROVE  Recorded(opt, arg - 1, cfg[opt])'
    BY <1>1, <2>3, <2>4 DEF Recorded, At
  <2>6. cfg' = [opt \in Option |-> cfg'[opt]]
    BY <1>1, <2>1
  <2>7. arg' \in 1 .. Len(argv') + 1
    BY <1>1, <2>1
  <2> QED
    BY <1>3, <2>5, <2>6, <2>7 DEF OrderInv, OptionOrderFree
<1>4. CASE FinishArgs /\ parsing' = "ok"
  <2>1. arg > Len(argv) /\ cfg' = Completed(cfg)
    BY <1>4 DEF FinishArgs
  <2>2. arg - 1 = Len(argv)
    BY <1>1, <2>1
  <2>3. \A opt \in Option : cfg[opt] = Written(opt)
    BY <1>1, <2>2, RecordedIsWritten DEF BootInv
  <2>4. cfg = [opt \in Option |-> Written(opt)]
    BY <1>1, <2>3
  <2>5. [opt \in Option |-> Written(opt)]' = [opt \in Option |-> Written(opt)]
    BY <1>1 DEF Written
  <2>6. OptionOrderFree'
    BY <2>1, <2>4, <2>5 DEF OptionOrderFree, Completed, CmdlineLen
  <2> QED
    BY <1>4, <2>6 DEF OrderInv
<1> QED
  BY <1>1, <1>2, <1>3, <1>4 DEF CmdlineNext, ParseArg, FinishArgs

(* The order of options does not matter, however many there are and        *)
(* however often one is given (main.c:179-346).                            *)
THEOREM BootOptions == BootSpec => []OptionOrderFree
<1>1. BootInit => OrderInv
  <2> SUFFICES ASSUME BootInit PROVE OrderInv
    OBVIOUS
  <2>1. arg = 1 /\ cfg = Default /\ parsing = "args" /\ Len(argv) \in Nat
    BY InputsAssumption DEF BootInit, CmdlineInit, InputsAssumption
  <2>2. \A opt : At(opt, 0) = {}
    BY DEF At
  <2>3. Default = [opt \in Option |-> Default[opt]]
    BY DEF Option, Default
  <2> QED
    BY <2>1, <2>2, <2>3 DEF OrderInv, Recorded, OptionOrderFree
<1>2. BootInv /\ OrderInv /\ [BootNext]_vars => OrderInv'
  <2> SUFFICES ASSUME BootInv, OrderInv, [BootNext]_vars PROVE OrderInv'
    OBVIOUS
  <2>1. CASE CmdlineNext
    BY <2>1, OrderStep
  <2>2. CASE UNCHANGED cmdline_vars
    BY <2>2 DEF cmdline_vars, OrderInv, Recorded, At, OptionOrderFree, Written
  <2> QED
    BY <2>1, <2>2 DEF BootNext, Parse, vm_create, InitVcpus, LoadKernel, Build, vars
<1>3. OrderInv => OptionOrderFree
  BY DEF OrderInv
<1>4. BootSpec => []BootInv
  BY Invariance
<1> QED
  BY <1>1, <1>2, <1>3, <1>4, PTL DEF BootSpec

-----------------------------------------------------------------------------
(* What Linux is told of its memory.                                       *)

MapInv ==
  cfg.mode = "linux" /\ stage \in {"initrd", "tables", "registers", "run"} =>
    HighMem < ram /\ \E i : bp = [e820 |-> E820(ram), initrd |-> i]

LEMMA MapStep ==
  ASSUME BootInv, MapInv, [BootNext]_vars
  PROVE  MapInv'
<1>1. CASE Parse \/ vm_create \/ InitVcpus \/ LoadKernel
  BY <1>1, EarlySteps DEF MapInv
<1>2. CASE UNCHANGED vars
  BY <1>2 DEF MapInv, vars, cmdline_vars, kernel, boot, E820
<1>3. CASE zeropage_setup /\ UNCHANGED Rest
  <2>1. cfg' = cfg /\ ram' = ram
    BY <1>3, RestSame
  <2>2. stage' = "initrd" => bp' = [e820 |-> E820(ram), initrd |-> None] /\ HighMem < ram
    BY <1>3 DEF zeropage_setup, Fails
  <2>3. stage' \in {"initrd", "failed"}
    BY <1>3 DEF zeropage_setup, Fails
  <2> QED
    BY <2>1, <2>2, <2>3 DEF MapInv, E820
<1>4. CASE /\ UNCHANGED Rest
           /\ \/ mptable_setup \/ acpi_setup \/ LoadPayload \/ boot_setup_real_mode
              \/ load_initrd \/ boot_build_page_table \/ setup_long_mode
  <2>1. cfg' = cfg /\ ram' = ram
    BY <1>4, RestSame
  <2>2. mptable_setup \/ acpi_setup => stage' \in {"acpi", "zeropage", "failed"}
    BY DEF mptable_setup, acpi_setup, Fails
  <2>3. LoadPayload \/ boot_setup_real_mode => cfg.mode # "linux"
    BY DEF LoadPayload, boot_setup_real_mode, BootInv, StageInv
  <2>4. load_initrd \/ boot_build_page_table \/ setup_long_mode =>
          /\ stage \in {"initrd", "tables", "registers"}
          /\ stage' = "failed" \/ bp' = bp \/ \E r : bp' = [bp EXCEPT !.initrd = r]
    BY DEF load_initrd, boot_build_page_table, setup_long_mode, Fails
  <2>5. SUFFICES ASSUME cfg.mode = "linux", stage' \in {"initrd", "tables", "registers", "run"}
                 PROVE  HighMem < ram /\ \E i : bp' = [e820 |-> E820(ram), initrd |-> i]
    BY <2>1 DEF MapInv, E820
  <2>6. load_initrd \/ boot_build_page_table \/ setup_long_mode
    BY <1>4, <2>2, <2>3, <2>5
  <2>7. stage \in {"initrd", "tables", "registers"} /\ stage' # "failed"
    BY <2>4, <2>5, <2>6
  <2>8. HighMem < ram /\ \E i : bp = [e820 |-> E820(ram), initrd |-> i]
    BY <2>5, <2>7 DEF MapInv
  <2>9. PICK i : bp = [e820 |-> E820(ram), initrd |-> i]
    BY <2>8
  <2>10. CASE bp' = bp
    BY <2>8, <2>10
  <2>11. ASSUME NEW r, bp' = [bp EXCEPT !.initrd = r]
         PROVE  bp' = [e820 |-> E820(ram), initrd |-> r]
    BY <2>9, <2>11
  <2> QED
    BY <2>4, <2>6, <2>7, <2>8, <2>10, <2>11
<1> QED
  BY <1>1, <1>2, <1>3, <1>4 DEF BootNext, Build, Rest

LEMMA MapIsTrue ==
  ASSUME BootInv, MapInv
  PROVE  MemoryMap
<1> SUFFICES ASSUME EntersLinux PROVE MemoryMap
  BY DEF MemoryMap
<1> DEFINE In(r, type) == \E k \in DOMAIN bp.e820 :
             bp.e820[k].type = type /\ bp.e820[k].lo <= r.lo /\ r.hi <= bp.e820[k].hi
<1>1. HasKernel /\ stage = "run" /\ cfg.mode = "linux"
  BY DEF EntersLinux, HasKernel, Before
<1>2. bp.e820 = E820(ram) /\ HighMem < ram
  <2>1. HighMem < ram /\ \E i : bp = [e820 |-> E820(ram), initrd |-> i]
    BY <1>1 DEF MapInv
  <2> QED
    BY <2>1
<1>3. ram \in Nat /\ HighMem \in Nat /\ 1920 <= HighMem
  BY Numbers, TypesOfKernel DEF BootInv
<1>0. /\ image.lo \in Nat /\ image.hi \in Nat /\ image.lo < image.hi /\ HighMem <= image.lo
      /\ \A l \in loaded : /\ l.lo \in Nat /\ l.hi \in Nat /\ image.lo <= l.lo /\ l.hi <= ram
                          /\ Region("kernel", l.lo, l.hi - l.lo).what = "kernel"
                          /\ Region("kernel", l.lo, l.hi - l.lo).lo = l.lo
                          /\ Region("kernel", l.lo, l.hi - l.lo).hi = l.hi
  BY <1>1, TypesOfKernel, RegionFields DEF BootInv, KernelInv, Extent, Image!Valid
<1>4. /\ Len(bp.e820) = 3 /\ DOMAIN bp.e820 = {1, 2, 3}
      /\ bp.e820[1] = [lo |-> 0, hi |-> 1278, type |-> "RAM"]
      /\ bp.e820[2] = [lo |-> 1278, hi |-> HighMem, type |-> "reserved"]
      /\ bp.e820[3] = [lo |-> HighMem, hi |-> ram, type |-> "RAM"]
  BY <1>2 DEF E820, EbdaStart
<1>5. ASSUME NEW r \in Regions
      PROVE  In(r, IF r.what \in {"mptable", "acpi"} THEN "reserved" ELSE "RAM")
  <2>1. CASE r \in placed
    <3>1. r.lo \in Nat /\ r.hi \in Nat /\ r.lo <= r.hi /\ r.hi <= ram /\ LinuxPlace(r)
      BY <1>1, <2>1 DEF BootInv, PlacedInv
    <3>2. image.hi \in Nat /\ HighMem <= image.hi
      BY <1>3, <1>0
    <3>3. CASE r.what \in {"mptable", "acpi"}
      BY <1>3, <1>4, <3>1, <3>3 DEF LinuxPlace
    <3>4. CASE r.what = "initrd"
      BY <1>3, <1>4, <3>1, <3>2, <3>4 DEF LinuxPlace
    <3>5. CASE r.what \notin {"mptable", "acpi", "initrd"}
      BY <1>3, <1>4, <3>1, <3>5 DEF LinuxPlace
    <3> QED
      BY <3>3, <3>4, <3>5
  <2>2. CASE r \notin placed
    <3>1. PICK l \in loaded : r = Region("kernel", l.lo, l.hi - l.lo)
      BY <2>2 DEF Regions
    <3>2. l.lo \in Nat /\ l.hi \in Nat /\ HighMem <= l.lo /\ l.hi <= ram
      BY <1>3, <1>0
    <3>3. r.what = "kernel" /\ r.lo = l.lo /\ r.hi = l.hi
      BY <3>1, <1>0
    <3> QED
      BY <1>3, <1>4, <3>2, <3>3
  <2> QED
    BY <2>1, <2>2
<1>6. /\ bp.e820[1].lo = 0 /\ bp.e820[Len(bp.e820)].hi = ram
      /\ \A k \in 1 .. Len(bp.e820) - 1 :
           bp.e820[k].lo < bp.e820[k].hi /\ bp.e820[k].hi = bp.e820[k + 1].lo
  BY <1>2, <1>3, <1>4
<1> QED
  BY <1>5, <1>6 DEF MemoryMap

(* The memory map has no gap and hides nothing the boot code has put into  *)
(* RAM (zeropage.c:156-158, mptable.h:21, acpi.h:22).                      *)
THEOREM BootMemoryMap == BootSpec => []MemoryMap
<1>1. BootInit => MapInv
  BY DEF BootInit, MapInv
<1>2. BootInv /\ MapInv /\ [BootNext]_vars => MapInv'
  BY MapStep
<1>3. BootInv /\ MapInv => MemoryMap
  BY MapIsTrue
<1>4. BootSpec => []BootInv
  BY Invariance
<1> QED
  BY <1>1, <1>2, <1>3, <1>4, PTL DEF BootSpec

-----------------------------------------------------------------------------
(* What Linux is told of its initrd.                                       *)

(* The limit of the initrd.                                                *)
Limit == Min({ram, DefaultMap, IF HeaderTop = 0 THEN DefaultTop ELSE HeaderTop})

Told(i) ==
  /\ i.image \in Nat /\ data.stat \in Nat
  /\ data.read \in Nat /\ i.size = data.read
  /\ Region("initrd", i.image, i.size) \in placed
  /\ i.image % TwoMiB = 0 /\ i.image >= image.hi
  /\ i.image + data.stat <= Limit /\ Limit < i.image + TwoMiB + data.stat

InitrdInv ==
  cfg.mode = "linux" /\ stage \in {"tables", "registers", "run"} => Told(bp.initrd)

LEMMA MinOfThree ==
  ASSUME NEW a \in Int, NEW b \in Int, NEW c \in Int
  PROVE  Min({a, b, c}) = IF a <= b /\ a <= c THEN a ELSE IF b <= c THEN b ELSE c
<1> DEFINE m == IF a <= b /\ a <= c THEN a ELSE IF b <= c THEN b ELSE c
<1>1. m \in {a, b, c} /\ \A y \in {a, b, c} : m <= y
  OBVIOUS
<1>2. \A x \in {a, b, c} : (\A y \in {a, b, c} : x <= y) => x = m
  OBVIOUS
<1> HIDE DEF m
<1>3. Min({a, b, c}) = m
  BY <1>1, <1>2 DEF Min
<1> QED
  BY <1>3 DEF m

(* The clamp of boot_linux() leaves no limit above the map.                *)
LEMMA LimitIsTop ==
  ASSUME BootInv, HasKernel
  PROVE  Limit = InitrdTop
<1>1. HeaderTop \in Nat
  BY HeaderNat
<1>2. /\ DefaultMap \in Nat /\ DefaultTop \in Nat /\ DefaultTop <= DefaultMap
      /\ ram \in Nat
  BY BootAssumption, TypesOfKernel DEF BootAssumption, BootInv, DefaultTop
<1> DEFINE h == HeaderTop
           d == DefaultTop
<1> HIDE DEF h, d
<1>3. h \in Nat /\ d \in Nat /\ d <= DefaultMap
  BY <1>1, <1>2 DEF h, d
<1>4. CASE h = 0
  <2>1. Limit = Min({ram, DefaultMap, d}) /\ InitrdTop = Min({ram, d})
    BY <1>4 DEF Limit, InitrdTop, h, d
  <2> QED
    BY <1>2, <1>3, <2>1, MinOfTwo, MinOfThree
<1>5. CASE h # 0
  <2>1. Limit = Min({ram, DefaultMap, h}) /\ InitrdTop = Min({ram, Min({h, DefaultMap})})
    BY <1>5 DEF Limit, InitrdTop, h
  <2>2. Min({h, DefaultMap}) = IF h <= DefaultMap THEN h ELSE DefaultMap
    BY <1>2, <1>3, MinOfTwo
  <2>3. Min({h, DefaultMap}) \in Nat
    BY <1>2, <1>3, <2>2
  <2> QED
    BY <1>2, <1>3, <2>1, <2>2, <2>3, MinOfTwo, MinOfThree
<1> QED
  BY <1>4, <1>5

LEMMA RoundsDown ==
  ASSUME NEW x \in Nat
  PROVE  /\ RoundDown(x, TwoMiB) \in 0 .. x /\ RoundDown(x, TwoMiB) % TwoMiB = 0
         /\ x < RoundDown(x, TwoMiB) + TwoMiB
BY DEF RoundDown, TwoMiB

LEMMA InitrdLoaded ==
  ASSUME BootInv, UNCHANGED Rest, load_initrd, stage' = "tables",
         DOMAIN bp = {"e820", "initrd"}
  PROVE  Told(bp.initrd)'
<1> DEFINE gpa == RoundDown(InitrdTop - data.stat, TwoMiB)
<1>1. /\ data.stat # None /\ data.stat <= InitrdTop /\ gpa >= image.hi /\ CanLoad(gpa)
      /\ placed' = placed \cup {Region("initrd", gpa, data.read)}
      /\ bp' = [bp EXCEPT !.initrd = Ramdisk(gpa)]
  BY DEF load_initrd, Fails
<1>2. HasKernel
  BY DEF load_initrd, BootInv, StageInv, HasKernel, Before
<1>3. InitrdTop \in Nat /\ InitrdTop <= ram /\ ram \in Addr /\ ram \in Nat /\ Limit = InitrdTop
  BY <1>2, TopInRam, LimitIsTop, TypesOfKernel DEF BootInv
<1>4. data.stat \in Nat /\ InitrdTop - data.stat \in 0 .. ram
  <2>1. data.stat \in Nat
    BY <1>1 DEF BootInv, DataOK, Addr
  <2> QED
    BY <1>1, <1>3, <2>1
<1>5. /\ gpa \in 0 .. InitrdTop - data.stat /\ gpa % TwoMiB = 0
      /\ InitrdTop - data.stat < gpa + TwoMiB
  BY <1>4, RoundsDown
<1> HIDE DEF gpa
<1>6. gpa \in Addr
  BY <1>3, <1>4, <1>5, Numbers DEF Addr
<1>7. data.read \in Nat
  BY <1>1, <1>6, FileInRam
<1>8. bp'.initrd = [image |-> gpa, size |-> data.read]
  BY <1>1 DEF Ramdisk
<1>9. /\ data' = data /\ image' = image /\ ram' = ram /\ Limit' = Limit
  <2>1. data' = data /\ image' = image /\ ram' = ram /\ UNCHANGED kernel
    BY RestSame
  <2>2. file' = file
    BY <2>1 DEF kernel
  <2> QED
    BY <2>1, <2>2 DEF Limit, HeaderTop
<1>10. /\ gpa + data.stat <= Limit /\ Limit < gpa + TwoMiB + data.stat
  BY <1>3, <1>4, <1>5, Numbers
<1>11. Region("initrd", gpa, data.read) \in placed' /\ gpa \in Nat
  BY <1>1, <1>5
<1> QED
  BY <1>1, <1>4, <1>5, <1>7, <1>8, <1>9, <1>10, <1>11 DEF Told, Region

LEMMA InitrdStays ==
  ASSUME BootInv, MapInv, InitrdInv, [BootNext]_vars
  PROVE  InitrdInv'
<1> SUFFICES ASSUME cfg'.mode = "linux", stage' \in {"tables", "registers", "run"}
             PROVE  Told(bp.initrd)'
  BY DEF InitrdInv
<1>1. CASE Parse \/ vm_create \/ InitVcpus \/ LoadKernel
  BY <1>1, EarlySteps
<1>2. CASE load_initrd /\ UNCHANGED Rest
  <2>1. stage = "initrd" /\ stage' = "tables"
    BY <1>2 DEF load_initrd, Fails
  <2>2. cfg.mode = "linux"
    BY <1>2, RestSame
  <2>3. DOMAIN bp = {"e820", "initrd"}
    BY <2>1, <2>2 DEF MapInv
  <2> QED
    BY <1>2, <2>1, <2>3, InitrdLoaded
<1>3. CASE UNCHANGED Rest /\ bp' = bp /\ placed \subseteq placed'
           /\ stage \in {"tables", "registers", "run"}
  <2>1. data' = data /\ image' = image /\ ram' = ram /\ cfg' = cfg /\ UNCHANGED kernel
    BY <1>3, RestSame
  <2>2. Limit' = Limit
    BY <2>1 DEF Limit, HeaderTop, kernel
  <2>3. Told(bp.initrd)
    BY <1>3, <2>1 DEF InitrdInv
  <2> QED
    BY <1>3, <2>1, <2>2, <2>3 DEF Told, Region
<1>4. CASE UNCHANGED Rest /\ (boot_build_page_table \/ setup_long_mode)
  BY <1>3, <1>4 DEF boot_build_page_table, setup_long_mode, Fails
<1>5. CASE UNCHANGED vars
  BY <1>3, <1>5 DEF vars, boot, Rest
<1>6. CASE UNCHANGED Rest
           /\ (mptable_setup \/ acpi_setup \/ zeropage_setup \/ LoadPayload \/ boot_setup_real_mode)
  <2>1. cfg' = cfg
    BY <1>6, RestSame
  <2>2. ~LoadPayload /\ ~boot_setup_real_mode
    BY <2>1 DEF LoadPayload, boot_setup_real_mode, BootInv, StageInv
  <2> QED
    BY <1>6, <2>2 DEF mptable_setup, acpi_setup, zeropage_setup, Fails
<1> QED
  BY <1>1, <1>2, <1>4, <1>5, <1>6 DEF BootNext, Build, Rest

(* The initrd is where the guest is told, below every limit, for every     *)
(* size of RAM, header and initrd (zeropage.c:31-33, main.c:432-433).      *)
THEOREM BootInitrd == BootSpec => []InitrdFits
<1>1. BootInit => MapInv /\ InitrdInv
  BY DEF BootInit, MapInv, InitrdInv
<1>2. BootInv /\ MapInv /\ InitrdInv /\ [BootNext]_vars => MapInv' /\ InitrdInv'
  BY MapStep, InitrdStays
<1>3. BootInv /\ MapInv /\ InitrdInv => InitrdFits
  <2> SUFFICES ASSUME BootInv, InitrdInv, EntersLinux PROVE InitrdFits
    BY DEF InitrdFits
  <2>1. Told(bp.initrd)
    BY DEF EntersLinux, InitrdInv
  <2>2. data.read <= data.stat => bp.initrd.image + bp.initrd.size <= Limit
    <3>1. Limit \in Nat
      BY LimitIsTop, TopInRam DEF EntersLinux, HasKernel, Before
    <3> QED
      BY <2>1, <3>1 DEF Told
  <2> QED
    BY <2>1, <2>2 DEF InitrdFits, Told, Limit
<1>4. BootSpec => []BootInv
  BY Invariance
<1> QED
  BY <1>1, <1>2, <1>3, <1>4, PTL DEF BootSpec

-----------------------------------------------------------------------------
(* Paging.                                                                 *)

PagingInv ==
  stage \in {"registers", "run"} /\ cfg.mode # "real16" =>
    layout \in Layout /\ Supported(layout) /\ MapSize % TwoMiB = 0

LEMMA LayoutSupported ==
  ASSUME BootInv, stage = "tables", boot_layout_validate, layout.map <= Gib
  PROVE  layout \in Layout /\ Supported(layout) /\ MapSize % TwoMiB = 0
<1>1. MapSize \in Nat /\ MapSize % 4096 = 0
  BY Numbers DEF MapSize, BootInv, CfgInv, Addr, boot_layout_validate, TwoMiB
<1>2. layout.map = MapSize \div 8
  BY DEF layout, Page
<1>3. layout.map % Fanout = 0
  BY <1>1, <1>2 DEF Fanout
<1>4. layout.map \in Nat /\ layout.gran \in {"2m", "4k"}
  BY LayoutValue
<1>5. layout = [gdt |-> 1, pml4 |-> 2, pdpt |-> 3, pd |-> 4, pt |-> 5,
                gran |-> layout.gran, map |-> layout.map]
  BY DEF layout
<1>6. Apart(layout)
  BY LayoutValue DEF Apart
<1>7. layout \in Layout
  BY <1>4, <1>5, <1>6 DEF Layout
<1>8. MapSize % TwoMiB = 0
  BY DEF boot_layout_validate
<1> QED
  BY <1>3, <1>7, <1>8 DEF Supported

LEMMA PagingStart == BootInit => PagingInv
BY DEF BootInit, PagingInv

LEMMA PagingStep == BootInv /\ PagingInv /\ [BootNext]_vars => PagingInv'
<1> SUFFICES ASSUME BootInv, PagingInv, [BootNext]_vars, stage' \in {"registers", "run"},
                    cfg'.mode # "real16"
             PROVE  layout' \in Layout /\ Supported(layout)' /\ MapSize' % TwoMiB = 0
  BY DEF PagingInv
<1>1. CASE boot_build_page_table /\ UNCHANGED Rest
  <2>1. stage = "tables" /\ boot_layout_validate /\ layout.map <= Gib
    BY <1>1 DEF boot_build_page_table, Fails
  <2>2. layout' = layout /\ MapSize' = MapSize
    BY <1>1 DEF Rest, cmdline_vars, layout, MapSize
  <2> QED
    BY <2>1, <2>2, LayoutSupported
<1>2. CASE (setup_long_mode /\ UNCHANGED Rest) \/ UNCHANGED vars
  <2>1. stage \in {"registers", "run"} /\ cfg.mode # "real16" /\ layout' = layout /\ MapSize' = MapSize
    BY <1>2 DEF setup_long_mode, Rest, vars, cmdline_vars, boot, layout, MapSize
  <2> QED
    BY <2>1 DEF PagingInv
<1>3. CASE Parse \/ vm_create \/ InitVcpus \/ LoadKernel
  BY <1>3, EarlySteps
<1>4. CASE Build
  <2>1. ~boot_setup_real_mode \/ cfg'.mode = "real16"
    BY <1>4 DEF Build, boot_setup_real_mode, cmdline_vars, BootInv, StageInv
  <2>2. UNCHANGED Rest
    BY <1>4 DEF Build, Rest
  <2> QED
    BY <1>1, <1>2, <1>4, <2>1, <2>2
       DEF Build, mptable_setup, acpi_setup, zeropage_setup, load_initrd, LoadPayload, Fails
<1> QED
  BY <1>2, <1>3, <1>4 DEF BootNext

(* A guest that is entered with paging sees every address of the map as    *)
(* itself and nothing beyond it (gdt_pgtable.c:104-106, :136).             *)
THEOREM BootPaging == BootSpec => []PagingIsIdentity
<1>1. BootInit => PagingInv
  BY PagingStart
<1>2. BootInv /\ PagingInv /\ [BootNext]_vars => PagingInv'
  BY PagingStep
<1>3. PagingInv => PagingIsIdentity
  BY IdentityMap DEF PagingInv, PagingIsIdentity, Probes
<1>4. BootSpec => []BootInv
  BY Invariance
<1> QED
  BY <1>1, <1>2, <1>3, <1>4, PTL DEF BootSpec

-----------------------------------------------------------------------------
(* What Linux finds mapped.                                                *)

(* The one initrd that is put into RAM is the one the guest is told of,    *)
(* and the entry is the kernel's.                                          *)
CoverInv ==
  cfg.mode = "linux" =>
    /\ stage \in {"mptable", "acpi", "zeropage", "initrd"} =>
         \A r \in placed : r.what # "initrd"
    /\ stage \in {"tables", "registers", "run"} =>
         \A r \in placed : r.what = "initrd" =>
           r.lo = bp.initrd.image /\ r.hi = bp.initrd.image + bp.initrd.size
    /\ stage = "run" => regs.rip = image.entry

LEMMA CoverStep ==
  ASSUME BootInv, MapInv, CoverInv, [BootNext]_vars
  PROVE  CoverInv'
<1> SUFFICES ASSUME cfg'.mode = "linux", stage' \notin {"failed", "help"} PROVE CoverInv'
  BY DEF CoverInv
<1>1. CASE Parse \/ vm_create \/ InitVcpus
  <2>1. stage' \notin {"initrd", "tables", "registers", "run"}
    BY <1>1, EarlySteps
  <2>2. stage' \notin {"mptable", "acpi", "zeropage"}
    <3>1. Parse => stage' \notin {"mptable", "acpi", "zeropage"}
      BY DEF Parse, CmdlineNext, ParseArg, FinishArgs, BootInv, CfgInv
    <3>2. InitVcpus => stage' \in {"vcpus", "kernel", "payload"}
      <4> SUFFICES ASSUME InitVcpus PROVE id' < nr_vcpus \/ id' = nr_vcpus
        BY DEF InitVcpus
      <4> QED
        BY DEF InitVcpus, InitVcpu, kvm_get_supported_cpuid, SetCpuid, NextVcpu, BootInv,
               VcpusInv
    <3> QED
      BY <1>1, <3>1, <3>2 DEF vm_create
  <2> QED
    BY <2>1, <2>2 DEF CoverInv
<1>2. CASE LoadKernel
  <2>1. placed' = {}
    BY <1>2 DEF LoadKernel, BootInv, PlacedInv
  <2>2. stage' \notin {"tables", "registers", "run"}
    BY <1>2, EarlySteps
  <2> QED
    BY <2>1, <2>2 DEF CoverInv
<1>3. CASE UNCHANGED vars
  <2>1. UNCHANGED <<stage, placed, bp, regs, cfg, image>>
    BY <1>3 DEF vars, boot, cmdline_vars, kernel
  <2> QED
    BY <2>1 DEF CoverInv
<1>4. CASE Build
  <2>1. cfg' = cfg /\ image' = image /\ cfg.mode = "linux" /\ UNCHANGED Rest
    BY <1>4, RestSame DEF Build, Rest
  <2>2. ~LoadPayload /\ ~boot_setup_real_mode
    BY <2>1 DEF LoadPayload, boot_setup_real_mode, BootInv, StageInv
  <2>3. CASE mptable_setup \/ acpi_setup \/ zeropage_setup
    <3>1. PICK a, b : /\ placed' = placed \cup {a, b}
                      /\ a.what # "initrd" /\ b.what # "initrd"
      <4>1. CASE mptable_setup
        <5>1. placed' = placed \cup {Region("mptable", EbdaStart, 2)}
          BY <4>1 DEF mptable_setup, Fails
        <5> QED
          BY <5>1, RegionFields
      <4>2. CASE acpi_setup
        <5>1. placed' = placed \cup {Region("acpi", AcpiGpa, AcpiSize)}
          BY <4>2 DEF acpi_setup, Fails
        <5> QED
          BY <5>1, RegionFields
      <4>3. CASE zeropage_setup
        <5>1. PICK n : placed' = placed \cup {Region("boot_params", BootParams, Page),
                                              Region("cmdline", CmdlineGpa, n)}
          BY <4>3 DEF zeropage_setup, Fails
        <5> QED
          BY <5>1, RegionFields
      <4> QED
        BY <2>3, <4>1, <4>2, <4>3
    <3>2. /\ stage \in {"mptable", "acpi", "zeropage"}
          /\ stage' \in {"acpi", "zeropage", "initrd"}
      BY <2>3 DEF mptable_setup, acpi_setup, zeropage_setup, Fails
    <3>3. \A r \in placed : r.what # "initrd"
      BY <2>1, <3>2 DEF CoverInv
    <3> QED
      BY <3>1, <3>2, <3>3 DEF CoverInv
  <2>4. CASE load_initrd
    <3>1. stage = "initrd" /\ stage' = "tables"
      BY <2>4 DEF load_initrd, Fails
    <3>2. PICK gpa : /\ placed' = placed \cup {Region("initrd", gpa, data.read)}
                     /\ bp' = [bp EXCEPT !.initrd = Ramdisk(gpa)]
      BY <2>4, <3>1 DEF load_initrd, Fails
    <3>3. DOMAIN bp = {"e820", "initrd"}
      BY <2>1, <3>1 DEF MapInv
    <3>4. bp'.initrd.image = gpa /\ bp'.initrd.image + bp'.initrd.size = gpa + data.read
      BY <3>2, <3>3 DEF Ramdisk
    <3>5. \A r \in placed : r.what # "initrd"
      BY <2>1, <3>1 DEF CoverInv
    <3>6. \A r \in placed' : r.what = "initrd" => r.lo = gpa /\ r.hi = gpa + data.read
      BY <3>2, <3>5, RegionFields
    <3> QED
      BY <3>1, <3>4, <3>6 DEF CoverInv
  <2>5. CASE boot_build_page_table
    <3>1. stage = "tables" /\ stage' = "registers" /\ placed' = placed \cup Tables /\ bp' = bp
      BY <2>5 DEF boot_build_page_table, Fails
    <3>2. \A r \in Tables : r.what # "initrd"
      BY RegionFields DEF Tables
    <3> QED
      BY <2>1, <3>1, <3>2 DEF CoverInv
  <2>6. CASE setup_long_mode
    <3>1. /\ stage = "registers" /\ stage' = "run" /\ bp' = bp
          /\ placed' = placed \cup {Region("gdt", Page * layout.gdt, 1)}
          /\ regs'.rip = image.entry
      BY <2>1, <2>6 DEF setup_long_mode, Fails
    <3> QED
      BY <2>1, <3>1, RegionFields DEF CoverInv
  <2> QED
    BY <1>4, <2>2, <2>3, <2>4, <2>5, <2>6 DEF Build
<1> QED
  BY <1>1, <1>2, <1>3, <1>4 DEF BootNext

(* What lies below 1 GiB is mapped to itself when Linux is entered.        *)
LEMMA LowIsMapped ==
  ASSUME PagingInv, EntersLinux, NEW x \in Nat, x < DefaultMap
  PROVE  Walk(layout, PageOf(x)) = PageOf(x)
<1>1. layout \in Layout /\ Supported(layout) /\ MapSize = DefaultMap /\ DefaultMap % 4096 = 0
  BY DEF PagingInv, EntersLinux, MapSize, TwoMiB
<1>2. layout.map = DefaultMap \div 8 /\ DefaultMap \in Nat
  BY <1>1, Numbers DEF layout, Page
<1>3. PageOf(x) = x \div 8
  BY DEF PageOf, Page
<1>4. PageOf(x) \in Nat /\ PageOf(x) < layout.map
  BY <1>1, <1>2, <1>3
<1>5. layout.map <= 262144 /\ layout.map \in Nat /\ Fanout = 512 /\ Gib = 262144
  BY <1>1, <1>2 DEF Supported, Gib, Fanout
<1>6. PageOf(x) \in Linear
  BY <1>4, <1>5 DEF Linear
<1>7. MappedToItself(layout, PageOf(x))
  BY <1>1, <1>6, IdentityMap
<1> QED
  BY <1>4, <1>7 DEF MappedToItself

(* All that Linux needs ends below the limit of the initrd.                *)
LEMMA NeededIsLow ==
  ASSUME BootInv, InitrdInv, CoverInv, EntersLinux, NEW r \in Regions, Needs(r.what)
  PROVE  r.lo \in Nat /\ NeededEnd(r) \in Nat /\ NeededEnd(r) <= DefaultMap
<1>1. HasKernel /\ cfg.mode = "linux" /\ stage = "run"
  BY DEF EntersLinux, HasKernel, Before
<1>2. /\ image.lo \in Nat /\ image.hi \in Nat /\ image.lo < image.hi /\ 1920 <= image.lo
  BY <1>1, TypesOfKernel DEF BootInv
<1>3. /\ bp.initrd.image \in Nat /\ data.stat \in Nat /\ bp.initrd.size = data.read
      /\ data.read \in Nat /\ image.hi <= bp.initrd.image
      /\ bp.initrd.image + data.stat <= Limit
  BY <1>1 DEF InitrdInv, Told
<1>4. Limit \in Nat /\ Limit <= DefaultMap
  <2>1. HeaderTop \in Nat
    BY HeaderNat
  <2>2. DefaultMap \in Nat /\ ram \in Nat /\ DefaultTop \in Nat
    BY Numbers, TypesOfKernel DEF DefaultTop, BootInv
  <2> DEFINE h == IF HeaderTop = 0 THEN DefaultTop ELSE HeaderTop
  <2>3. h \in Nat /\ Limit = Min({ram, DefaultMap, h})
    BY <2>1, <2>2 DEF Limit
  <2> HIDE DEF h
  <2> QED
    BY <2>2, <2>3, MinOfThree
<1>5. CASE r \in placed
  <2>1. r.lo \in Nat /\ r.hi \in Nat /\ LinuxPlace(r)
    BY <1>1, <1>5 DEF BootInv, PlacedInv
  <2>2. CASE r.what = "initrd"
    <3>1. r.lo = bp.initrd.image /\ r.hi = bp.initrd.image + bp.initrd.size
      BY <1>1, <1>5, <2>2 DEF CoverInv
    <3>2. CASE data.read > data.stat
      <4>1. NeededEnd(r) = r.lo + data.stat
        BY <2>2, <3>2 DEF NeededEnd
      <4> QED
        BY <1>3, <1>4, <2>1, <3>1, <4>1, Numbers
    <3>3. CASE ~(data.read > data.stat)
      <4>1. NeededEnd(r) = r.hi
        BY <3>3 DEF NeededEnd
      <4> QED
        BY <1>3, <1>4, <2>1, <3>1, <3>3, <4>1, Numbers
    <3> QED
      BY <3>2, <3>3
  <2>3. CASE r.what # "initrd"
    <3>1. r.hi <= 1278 /\ NeededEnd(r) = r.hi
      BY <2>1, <2>3 DEF LinuxPlace, Needs, NeededEnd
    <3> QED
      BY <1>2, <1>3, <1>4, <2>1, <3>1, Numbers
  <2> QED
    BY <2>2, <2>3
<1>6. CASE r \notin placed
  <2>1. PICK e \in loaded : r = Region("kernel", e.lo, e.hi - e.lo)
    BY <1>6 DEF Regions
  <2>2. e.lo \in Nat /\ e.hi \in Nat /\ e.hi <= image.hi
    BY <1>1, TypesOfKernel DEF BootInv, KernelInv, Image!Valid, Extent
  <2>3. r.lo = e.lo /\ r.hi = e.hi /\ r.what = "kernel" /\ NeededEnd(r) = r.hi
    BY <2>1, <2>2, RegionFields DEF NeededEnd
  <2> QED
    BY <1>2, <1>3, <1>4, <2>2, <2>3, Numbers
<1> QED
  BY <1>5, <1>6

(* IdentityMapCovers looks at the ends of a region; this is all of it.     *)
EveryAddressCovered ==
  EntersLinux =>
    \A r \in Regions : Needs(r.what) =>
      \A x \in r.lo .. NeededEnd(r) - 1 : Walk(layout, PageOf(x)) = PageOf(x)

(* When Linux is entered, the page tables lead from every address of the   *)
(* kernel, the boot_params, the command line and the initrd, and from the  *)
(* entry, to itself (zeropage.h:4-5, main.c:407-433, gdt_pgtable.c): of an *)
(* initrd that grew after stat() as much as stat() told, and the entry of  *)
(* a bzImage if it lies in the image.                                      *)
THEOREM BootCovers == BootSpec => [](IdentityMapCovers /\ EveryAddressCovered)
<1>1. BootInit => MapInv /\ InitrdInv /\ PagingInv /\ CoverInv
  BY PagingStart DEF BootInit, MapInv, InitrdInv, CoverInv
<1>2. BootInv /\ MapInv /\ InitrdInv /\ PagingInv /\ CoverInv /\ [BootNext]_vars
      => MapInv' /\ InitrdInv' /\ PagingInv' /\ CoverInv'
  BY MapStep, InitrdStays, PagingStep, CoverStep
<1>3. BootInv /\ InitrdInv /\ PagingInv /\ CoverInv
      => IdentityMapCovers /\ EveryAddressCovered
  <2> SUFFICES ASSUME BootInv, InitrdInv, PagingInv, CoverInv, EntersLinux
               PROVE  IdentityMapCovers /\ EveryAddressCovered
    BY DEF IdentityMapCovers, EveryAddressCovered
  <2>1. ASSUME image.fmt = "bzImage" => regs.rip < image.hi
        PROVE  Walk(layout, PageOf(regs.rip)) = PageOf(regs.rip)
    <3>1. HasKernel /\ regs.rip = image.entry
      BY DEF EntersLinux, HasKernel, Before, CoverInv
    <3>2. /\ image.fmt \in {"elf", "bzImage"} /\ image.hi \in Nat
          /\ Image!Valid(image, loaded, ram) /\ loaded \subseteq Extent
      BY <3>1, TypesOfKernel DEF BootInv, KernelInv
    <3>3. image.entry \in Nat
      BY <3>2 DEF BootInv, KernelInv, ImageInv, TypeInv, KernelTypeOK, Addr
    <3>4. PICK e \in loaded : e.hi = image.hi
      BY <3>2 DEF Image!Valid
    <3>5. image.entry < image.hi
      <4>1. CASE image.fmt = "elf"
        <5>1. PICK s \in loaded : Image!InRange(image.entry, s) /\ s.hi <= image.hi
          BY <3>2, <4>1 DEF Image!Valid
        <5> QED
          BY <3>2, <3>3, <5>1 DEF Image!InRange, Extent
      <4> QED
        BY <2>1, <3>1, <3>2, <4>1
    <3>6. image.hi <= DefaultMap
      <4> DEFINE k == Region("kernel", e.lo, e.hi - e.lo)
      <4>1. k \in Regions /\ k.what = "kernel"
        BY <3>4, RegionFields DEF Regions
      <4>2. k.hi <= DefaultMap
        <5>1. Needs(k.what) /\ NeededEnd(k) = k.hi
          BY <4>1 DEF Needs, NeededEnd
        <5> QED
          BY <4>1, <5>1, NeededIsLow
      <4>3. k.hi = e.lo + (e.hi - e.lo) /\ e.lo \in Nat /\ e.hi \in Nat
        BY <3>2, RegionFields DEF Extent
      <4> HIDE DEF k
      <4> QED
        BY <3>4, <4>2, <4>3
    <3>7. DefaultMap \in Nat
      BY Numbers
    <3>8. regs.rip \in Nat /\ regs.rip < DefaultMap
      BY <3>1, <3>2, <3>3, <3>5, <3>6, <3>7
    <3> QED
      BY <3>8, LowIsMapped
  <2>2. ASSUME NEW r \in Regions, Needs(r.what), NEW x \in r.lo .. NeededEnd(r) - 1
        PROVE  Walk(layout, PageOf(x)) = PageOf(x)
    <3>1. /\ r.lo \in Nat /\ NeededEnd(r) \in Nat /\ NeededEnd(r) <= DefaultMap
          /\ DefaultMap \in Nat
      BY <2>2, NeededIsLow, Numbers
    <3>2. x \in Nat /\ x < DefaultMap
      BY <2>2, <3>1
    <3> QED
      BY <3>2, LowIsMapped
  <2>3. ASSUME NEW r \in Regions, Needs(r.what), r.lo < NeededEnd(r),
               NEW p \in {PageOf(r.lo), PageOf(NeededEnd(r) - 1)}
        PROVE  Walk(layout, p) = p
    <3>1. r.lo \in Nat /\ NeededEnd(r) \in Nat
      BY <2>3, NeededIsLow
    <3>2. r.lo \in r.lo .. NeededEnd(r) - 1 /\ NeededEnd(r) - 1 \in r.lo .. NeededEnd(r) - 1
      BY <2>3, <3>1
    <3> QED
      BY <2>2, <2>3, <3>2
  <2>4. EveryAddressCovered
    BY <2>2 DEF EveryAddressCovered
  <2>5. IdentityMapCovers
    BY <2>1, <2>3 DEF IdentityMapCovers
  <2> QED
    BY <2>4, <2>5
<1>4. BootSpec => []BootInv
  BY Invariance
<1> QED
  BY <1>1, <1>2, <1>3, <1>4, PTL DEF BootSpec

-----------------------------------------------------------------------------
(* The tables that describe the processors.                                *)

(* Before vm_create() no vCPU has one.                                     *)
CreateInv == stage \in {"parse", "create"} => id = 0 /\ cpuid = <<>>

LEMMA NoTableYet ==
  ASSUME TablesInv, id = 0, NEW n \in 1 .. 255,
         nr_vcpus' = n, UNCHANGED <<host, id, nent, table, cpuid>>
  PROVE  TablesInv'
<1>1. Entries(host.leaves)' = Entries(host.leaves)
  BY DEF Entries
<1>2. 0 .. id - 1 = {} /\ id \in 0 .. n
  OBVIOUS
<1> QED
  BY <1>1, <1>2 DEF TablesInv

LEMMA TablesStep ==
  ASSUME BootInv, CreateInv, TablesInv, [BootNext]_vars
  PROVE  CreateInv' /\ TablesInv'
<1>1. CASE UNCHANGED topology /\ (stage' \in {"parse", "create"} => stage \in {"parse", "create"})
  BY <1>1 DEF topology, CreateInv, TablesInv, Entries
<1>2. CASE Parse
  BY <1>1, <1>2 DEF Parse
<1>3. CASE vm_create
  <2>1. cfg.smp \in 1 .. 255
    BY MaxVcpusAssumption DEF BootInv, CfgInv, MaxVcpusAssumption
  <2>2. id = 0 /\ UNCHANGED <<host, id, nent, table, cpuid>>
        /\ (nr_vcpus' = cfg.smp \/ nr_vcpus' = nr_vcpus) /\ stage' \in {"vcpus", "failed"}
    BY <1>3 DEF vm_create, CreateInv
  <2>3. nr_vcpus \in 1 .. 255
    BY DEF TablesInv
  <2> QED
    BY <2>1, <2>2, <2>3, NoTableYet DEF CreateInv
<1>4. CASE InitVcpus
  <2>1. InitVcpu /\ stage' \notin {"parse", "create"}
    BY <1>4, EarlySteps DEF InitVcpus, InitVcpu, kvm_get_supported_cpuid, SetCpuid, NextVcpu,
                            BootInv, VcpusInv
  <2> QED
    BY <2>1, InitVcpuKeeps DEF CreateInv
<1>5. CASE LoadKernel
  BY <1>1, <1>5 DEF LoadKernel
<1>6. CASE Build
  <2>1. UNCHANGED topology /\ stage' \notin {"parse", "create"}
    BY <1>6 DEF Build, Fails, mptable_setup, acpi_setup, zeropage_setup, load_initrd,
                LoadPayload, boot_setup_real_mode, boot_build_page_table, setup_long_mode
  <2> QED
    BY <1>1, <2>1
<1>7. CASE UNCHANGED vars
  BY <1>1, <1>7 DEF vars, boot
<1> QED
  BY <1>2, <1>3, <1>4, <1>5, <1>6, <1>7 DEF BootNext

(* A vCPU that was created has its CPUID table, with all that leaf 0xB and *)
(* the fixups say of the processor, or the host refuses or has more leaves *)
(* than the largest buffer; one that was not has none                      *)
(* (kvm_wrappers.c:157-177, smp.c:30-186).                                 *)
THEOREM BootTables == BootSpec => []TablesInv
<1>1. BootInit => CreateInv /\ TablesInv
  <2> SUFFICES ASSUME BootInit PROVE CreateInv /\ TablesInv
    OBVIOUS
  <2>1. HostOK(host)
    BY InputsAssumption DEF BootInit, InputsAssumption
  <2> QED
    BY <2>1 DEF BootInit, TopologyInit, CreateInv, TablesInv, Attempts
<1>2. BootInv /\ CreateInv /\ TablesInv /\ [BootNext]_vars => CreateInv' /\ TablesInv'
  BY TablesStep
<1>3. BootSpec => []BootInv
  BY Invariance
<1> QED
  BY <1>1, <1>2, <1>3, PTL DEF BootSpec

(* A host whose leaves fit in the largest buffer gets its table through,   *)
(* and the table loses no entry and holds none twice                       *)
(* (kvm_wrappers.c:157-177, smp.c:115-121).                                *)
THEOREM BootTablesFit == BootSpec => []TableFits
BY BootTables, FitsOf, PTL

(* Leaf 0xB, leaf 0x80000008 and leaf 0x8000001E lead to the same          *)
(* processors, one socket of n cores (smp.c:80-82, :175).                  *)
THEOREM BootPaths == BootSpec => []PathsAgree
BY BootTables, PathsOf, PTL

(* CPUID, MP table and MADT name the same processors and IOAPIC, and both  *)
(* tables have the size and place their code computes (mptable.c:125,      *)
(* acpi.c:251).                                                            *)
THEOREM BootFirmware == BootSpec => []FirmwareAgrees
BY BootTables, FirmwareOf, PTL
=============================================================================
