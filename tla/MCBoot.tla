------------------------------- MODULE MCBoot -------------------------------
(***************************************************************************)
(* The inputs of the boot runs: families that vary one part of the input   *)
(* over the values where a decision of the code changes, and keep the rest *)
(* as in the examples of the usage text.  Units as in Boot.                *)
(***************************************************************************)
EXTENDS Boot

Opt(o, v) == [opt |-> o, val |-> v]
Linux     == <<Opt("mode", "linux"), Opt("initrd", TRUE), Opt("payload", TRUE)>>
Long      == <<Opt("mode", "long64"), Opt("payload", TRUE)>>
With(args, o, v) == Append(args, Opt(o, v))

File(stat, size, read) == [stat |-> stat, size |-> size, read |-> read]
SmallFile == File(20, 20, 20)

(* Hosts: their topology leaves, how many others, and whether calls fail.  *)
Leaf1     == [fn |-> "1", index |-> 0, apicid |-> 9, nlog |-> 16, htt |-> TRUE,
              hypervisor |-> FALSE]
LeafB(i)  == [fn |-> "0xB", index |-> i, apicid |-> 9, shift |-> i + 1,
              nr_lp |-> 2 + 14 * i, type |-> "host"]
Leaf1F    == [fn |-> "0x1F", index |-> 0, zero |-> FALSE]
Leaf8     == [fn |-> "0x80000008", index |-> 0, nc |-> 15, idsize |-> 4]
Leaf1D(i) == [fn |-> "0x8000001D", index |-> i, type |-> (i + 1) % 4, level |-> i,
              share |-> 2]
Leaf1E    == [fn |-> "0x8000001E", index |-> 0, apicid |-> 9, core |-> 4, threads |-> 2,
              node |-> 1]

Rest  == <<Leaf8, Leaf1D(0), Leaf1D(1), Leaf1D(2), Leaf1D(3), Leaf1E>>
Bare  == <<Leaf1>> \o Rest
Zen   == <<Leaf1, LeafB(0), LeafB(1), Leaf1F>> \o Rest
Full  == <<Leaf1, LeafB(0), LeafB(1), LeafB(2)>> \o Rest
Odd   == <<LeafB(3), Leaf1, LeafB(1)>> \o Rest

Host(leaves, others, fails) == [leaves |-> leaves, others |-> others, fails |-> fails]
UsualHost == Host(Zen, 20, FALSE)
BadHost   == Host(Zen, 20, TRUE)

(* Kernels.                                                                *)
Bz == [kind |-> "bzImage", size |-> 16384, header |-> TRUE, sects |-> 0,
       syssize |-> 100, pref |-> 32768, aligned |-> TRUE, init_size |-> 65536,
       initrd_top |-> 4194304, cmdline_size |-> 2047]

Seg(offset, filesz, vaddr, paddr, memsz) ==
  [load |-> TRUE, offset |-> offset, filesz |-> filesz, vaddr |-> vaddr,
   paddr |-> paddr, memsz |-> memsz]

Elf(phs, e) == [kind |-> "elf", size |-> 64, x86_64 |-> TRUE, phoff |-> 1,
                phs |-> phs, entry |-> e]

High    == Top - 4096                                    \* a kernel's virtual address
Text    == Seg(2, 8, High, 32768, 8)
Bss     == Seg(10, 2, High + 16, 32784, 64)
Vmlinux == Elf(<<Text, Bss>>, 32770)

Inp(a, h, f, d) == [argv |-> a, host |-> h, file |-> f, data |-> d]

(* Mutually inconsistent reports of the number of processors.              *)
Processors ==
  {Inp(With(Linux, "smp", n), Host(leaves, others, FALSE), Vmlinux, SmallFile) :
     n \in {1, 2, 3, 5, MaxVcpus}, leaves \in {Bare, Zen, Full, Odd},
     others \in {20, 128 - Len(Full), 300, MaxNent - Len(Full), MaxNent - Len(Bare)}}

KernelFiles ==
  {Elf(<<Seg(o, fs, va, pa, ms)>>, e) :
     o \in {0, 63, 64, 65, Top - 1}, fs \in {0, 1, 2, Top - 1}, va \in {High, 5},
     pa \in {2047, 2048, DefaultRam - 1, DefaultRam, Top - 1}, ms \in {0, 1, 2, Top - 1},
     e \in {5, 2048, High + 1}}
  \cup {Elf(<<s, t>>, e) :
     s, t \in {Text, Bss, [Text EXCEPT !.load = FALSE], Seg(0, 1, 0, 2048, 1),
               Seg(65, 1, 0, 2048, 1), Seg(0, 1, 32768, 65536, 1)},
     e \in {0, 2048, 32768, 32776, High + 7, High + 8, High + 17}}
  \cup {[Vmlinux EXCEPT !.phoff = o, !.size = s] : o \in {0, 1, 62, 63, Top - 1},
                                                   s \in {0, 1, 3, 64}}
  \cup {[Vmlinux EXCEPT !.x86_64 = FALSE], Elf(<<>>, 2048)}
  \cup {[Bz EXCEPT !.header = h, !.aligned = a, !.pref = p, !.init_size = n] :
     h, a \in BOOLEAN, p \in {0, 2047, 2048, 32768, Top - 1},
     n \in {0, 16379, 65536, DefaultRam, Top - 1}}
  \cup {[Bz EXCEPT !.sects = s, !.size = n, !.syssize = y] :
     s \in {0, 1, 31}, n \in {2, 5, 6, 32, 33}, y \in {0, 1, 2}}
  \cup {[Bz EXCEPT !.cmdline_size = n] : n \in {62, 63, 2047}}
  \cup {[kind |-> "unreadable"], [kind |-> "other"]}

Kernels == {Inp(Linux, UsualHost, f, SmallFile) : f \in KernelFiles}

(* The initrd against RAM, the kernel and the three limits.                *)
Initrds ==
  {Inp(With(Linux, "mem", m), UsualHost, f, File(s, z, r)) :
     m \in {2040, 2056, 32776, 98304, 102400, 102401, 106496, DefaultTop, 2097152,
            2101248, 4194304, ThreeGiB, ThreeGiB + 8},
     f \in {Vmlinux, Bz, [Bz EXCEPT !.initrd_top = 0], [Bz EXCEPT !.initrd_top = 106496]},
     s \in {None, 0, 20, 4096, 4097, 65536}, z \in {None, 0, 20, 5000}, r \in {None, 0, 20}}

(* Orders, repetitions and omissions of options.                           *)
Orders ==
  {Inp(<<a, b, c, d>>, UsualHost, Vmlinux, SmallFile) :
     a, b, c, d \in {Opt("mode", "linux"), Opt("mode", "long64"), Opt("mode", "real16"),
                     Opt("initrd", TRUE), Opt("payload", TRUE), Opt("load", 64),
                     Opt("append", 1900), Opt("smp", 2)}}
  \cup {Inp(Linux \o s, UsualHost, Vmlinux, SmallFile) :
     s \in {<<>>, <<Opt("help", TRUE)>>, <<Opt("unknown", TRUE)>>,
            <<Opt("mem", Malformed)>>, <<Opt("mem", 0)>>, <<Opt("initrd", FALSE)>>,
            <<Opt("payload", FALSE)>>, <<Opt("smp", 0)>>, <<Opt("smp", MaxVcpus + 1)>>,
            <<Opt("mode", "uefi")>>, <<Opt("gran", "1g")>>,
            <<Opt("append", 2047 - 64)>>, <<Opt("append", 2048 - 64)>>,
            <<Opt("cmdline", 2047)>>, <<Opt("cmdline", 2048)>>,
            <<Opt("cmdline", 0), Opt("append", 2046)>>}}
  \cup {Inp(<<>>, UsualHost, Vmlinux, SmallFile)}

(* Long mode: tables, RAM, payload.                                        *)
LongModes ==
  {Inp(With(With(With(With(Long, "gran", g), "map", s), "mem", m), "load", l),
       UsualHost, Vmlinux, File(n, n, IF n = 0 THEN 0 ELSE r)) :
     g \in {"2m", "4k"}, s \in {0, 4000, 4096, 8192, DefaultMap, DefaultMap + 4096, Top - 4096},
     m \in {7, 40, 48, 4136, 16384}, l \in {0, 7, 8, 32, 39, 40, 48, 4135, 4136, 6144},
     n \in {0, 1, 8}, r \in {0, 1}}
  \cup {Inp(Long, UsualHost, Vmlinux, f) : f \in {SmallFile, File(None, None, 20),
                                                  File(20, 20, None)}}

RealModes ==
  {Inp(<<Opt("payload", TRUE), Opt(o, v)>>, h, Vmlinux, SmallFile) :
     o \in {"load", "entry"}, v \in {0, 64, 127, 128, DefaultRam - 20, DefaultRam - 19},
     h \in {UsualHost, BadHost}}

Failing ==
  {Inp(a, BadHost, Vmlinux, SmallFile) : a \in {Linux, Long, With(Linux, "smp", 3)}}

MCInputs ==
  Processors \cup Kernels \cup Initrds \cup Orders \cup LongModes \cup RealModes \cup Failing

(* For the run about the stack: the fourth command of tests/e2e/step1.sh.  *)
StackInputs ==
  {Inp(With(With(Long, "gran", g), "mem", 32768), UsualHost, Vmlinux, SmallFile) :
     g \in {"2m", "4k"}}
=============================================================================
