# mini-vmm: specification and proofs

TLA+ specifications of mini-vmm, a KVM virtual machine monitor in C. They are
translated from the code, model-checked with TLC on small instances, and the
central ones proved with TLAPS for all parameter values. Source paths below
are relative to the repository; `smp.c:260` is `src/smp.c`, line 260.

## The system

mini-vmm is one process. `main()` creates a VM, registers devices, loads a
payload or a Linux kernel, and calls `vm_run()`, which starts a thread per vCPU
and joins them all. A console thread reads stdin. Whatever ends one vCPU ends
the VM.

| component | source | state | operations | interacts with |
|---|---|---|---|---|
| vCPU threads and stop protocol | `smp.c`, `vm.c:360-466`, `kvm_wrappers.c:129-150` | per vCPU `should_stop`, `run->immediate_exit`, `thread_started`, `result`; `io_lock` | `vm_run`, `vcpu_run_loop`, `vcpu_handle_exit`, `vm_request_stop` | KVM (ioctl, signals), devices (callbacks under `io_lock`), console (stop request) |
| VM creation and destruction | `vm.c:472-638` | descriptors, run pages, `nr_vcpus`, trace file | `vm_create`, `vm_create_vcpu`, `vm_destroy` | memory, interrupt controller, vCPUs |
| guest memory | `mem.c` | slot table, its mirror in KVM, host mappings | `mem_add_region`, `mem_init`, `mem_destroy`, `gpa_to_hva` | everything that reads or writes the guest |
| I/O bus | `vm.c:21-78`, `:236-321` | device tables | register, look up, dispatch | vCPU threads, devices |
| UART | `devices/serial8250.c` | registers, receive ring, interrupt line | register reads and writes, `serial8250_push_rx` | vCPU threads, console thread, IOAPIC |
| console | `console.c` | escape state | read a key, push it, ask for a stop | UART, stop protocol |
| keyboard controller | `devices/i8042.c` | CTR, pending commands, output buffer, interrupt line | ports 0x60 and 0x64 | vCPU threads, IOAPIC |
| interrupt glue | `devices/irqchip.c` | `has_irqchip` | create, set a line | KVM |
| RTC | `devices/rtc.c` | index, CMOS bytes | ports 0x70 and 0x71; every read of a time register asks the host | vCPU threads |
| ACPI | `boot/acpi.c` | tables in RAM, PM1a registers | build tables; PM1a access | guest memory, vCPU threads |
| boot memory | `boot/gdt_pgtable.c`, `zeropage.c`, `mptable.c`, `main.c:353-457` | regions of guest RAM, registers of the boot vCPU | build GDT, page tables, boot parameters, MP table; place the initrd | guest memory |
| loaders | `boot/elf_loader.c`, `bzimage.c`, `kernel_loader.c` | entry and extent of the kernel | check the headers, copy | guest memory, boot memory |
| CPUID topology | `smp.c:34-239`, `arch/amd/svm.c` | CPUID leaves of each vCPU | get KVM's table, fix it up, set it | has to agree with the ACPI and MP tables |
| command line | `main.c:30-351` | the configuration | parse, check, fill in defaults | all of the above |
| debug and exit ports, logging | `main.c`, `log.c` | `exit_code` | print, end the VM | vCPU threads |

Virtio, vhost, vfio, snapshots and the event loop are empty files.

What is hard in it:

- *concurrency*: `vm_request_stop()` runs in every vCPU thread, in main and in
  the console thread, without a lock, against threads that are being created,
  are in KVM_RUN, are being joined, or are gone;
- *callbacks across locks*: the UART is called under `io_lock` by vCPUs and
  without it by the console thread; its own lock and its edge-triggered line
  join them;
- *ordering*: edge-triggered interrupts lose a request if the line is lowered
  and raised at the wrong place;
- *failure*: each of a dozen steps of `vm_create()` may fail and one
  `vm_destroy()` has to cope with all of them;
- *arithmetic*: address ranges are compared with sums that wrap at 2^64, and
  the summands come from kernel files;
- *agreement at a distance*: what lies where in RAM is decided in seven files,
  and the ids of the processors are written by three; nothing but constants in
  headers keeps them apart or together.

`tests/TEST_DESIGN.md` says that lock order, the SMP stop races and the
register-level state machines of the devices are not tested; those were modelled first.

## Modules

| module | models | kind |
|---|---|---|
| `VmRun` | vCPU threads, stop protocol, teardown | component |
| `VmRun_proofs` | theorems about `VmRun` | proofs |
| `RxFifo` | bounded queue of received bytes | abstract specification |
| `Serial8250` | UART; refines `RxFifo` | component |
| `Serial8250_proofs` | theorems about `Serial8250` | proofs |
| `SerialConsole` | console thread + `Serial8250` + IOAPIC line + guest driver | composition |
| `SerialConsole_proofs` | theorems about `SerialConsole` | proofs |
| `I8042` | keyboard controller, keyboard, interrupt line | component |
| `GuestMem` | slot table, KVM, host mappings, address translation | component |
| `GuestMem_proofs` | theorems about `GuestMem` | proofs |
| `VmLifecycle` | creation and destruction, on `GuestMem` | composition |
| `VmLifecycle_proofs` | theorems about `VmLifecycle` | proofs |
| `IoBus` | registration, lookup, dispatch under `io_lock` | component |
| `IoBus_proofs` | theorems about `IoBus` | proofs |
| `RegisterFile` | six bytes accessed by the byte or the word | abstract specification |
| `AcpiPm` | PM1a registers; refines `RegisterFile` for words | component |
| `Rtc` | CMOS clock, the host's clock, a guest that reads the time | component |
| `MCPortDevices` | `Serial8250`, `I8042`, `AcpiPm` and `Rtc` side by side | composition |
| `PortDevices_proofs` | theorems about `I8042`, `AcpiPm` and `Rtc`, and about the four together | proofs |
| `CommandLine` | the parser of the command line | component |
| `Topology` | CPUID tables of the vCPUs, MP table, MADT | component |
| `KernelImage` | what `boot_linux()` relies on when a kernel was loaded | abstract specification |
| `KernelLoad` | ELF and bzImage loaders; refines `KernelImage` | component |
| `PageTable` | the page tables as a function, and their walk | operators |
| `Boot` | `main()` from the arguments to the guest's first instruction, on `CommandLine`, `Topology`, `KernelLoad` and `PageTable` | composition |
| `Boot_proofs` | theorems about `KernelLoad`, `PageTable`, `Topology` and `Boot` | proofs |
| `MC*` | instances for TLC | |

Definitions marked `Mutant:` in the modules are small wrong versions of the
definition that follows them. They are not part of any specification; putting
one in place of the right definition makes TLC report a violated property, and
shows that the property can fail. `PROJECT.json` pairs them.

Every component has a type invariant. Those of `VmRun`, `GuestMem`,
`VmLifecycle`, `Serial8250`, `I8042`, `AcpiPm`, `Rtc`, `IoBus` and `KernelLoad`
are conjuncts of what is proved; `PortTypeOK` is also checked in the run
`port_devices`, because the indices of the two rings depend on it. The others
(`ConsoleTypeOK` and `BootTypeOK`) say no more than what the variables range
over, and no run checks them.

### VmRun

The program counters `pc[t]` name the places between two accesses to shared
memory, so every interleaving of those accesses is a behaviour.
`vm_request_stop()` is written once, for the thread that calls it: `stop`
(store `should_stop`), `run` (test `v->run`), `imm` (store `immediate_exit`),
`started` (load `thread_started`), `kill` (`pthread_kill`), with `idx[t]` as
its loop index. A vCPU thread goes `check`, `enter`, `kvm`, `exit`, `lock`,
`device`; main goes `sigaction`, `create`, `publish`, `join`, `reap`, and then
`unmap`, `clear` for `vm_destroy()`; the console thread is reduced to its stop
request, and `console_stop()` changes nothing it does.

KVM_RUN is external: on entry it returns EINTR when `immediate_exit` is set or
a signal is pending; inside the guest it may stay for ever, return an exit
reason, return EAGAIN, be interrupted by a signal, or fail. An interrupted call
may leave the old `exit_reason` in place. A signal that arrives outside KVM_RUN
is eaten by `kick_handler()`. The accesses to the flags are taken to be
sequentially consistent: `should_stop` is volatile and the others are atomic
builtins, on x86. `vm.running` is left out (written, never read), as are
statistics.

`skipped` and `fresh` are history variables: the first names vCPUs that were
inside KVM_RUN when a request went past them because their thread was not yet
published, the second says whether KVM wrote `exit_reason` since it was last
handled.

### RxFifo, Serial8250, SerialConsole

Every operation of the UART holds its lock from the first access to the last,
so an operation is an action, `update_irq()` included. Registers keep the bits
that decide anything: IER's two enables, FCR's enable, LCR's DLAB and the value
0xBF, MCR's OUT2 and LOOP. Accesses to anything else are `AccessPlain`, which
still runs `update_irq()`. Accesses that are not one byte wide do nothing and
are left out. `RxFifo` says what the ring promises, in terms of a sequence;
`Serial8250` implements it with `queue <- RxQueue`. The history variable
`outcome` says what the last operation did to the ring, so that a byte lost by
a push cannot pass for a FIFO reset.

`SerialConsole` adds the console thread, one action per loop turn (two when it
pushes both bytes of an escape, for the guest may run between them), the latch
of the IOAPIC's edge-triggered pin, and a guest driver that follows the Linux
8250 driver the comments in `serial8250.c` refer to: set-up, an interrupt
handler that loops until IIR reports nothing, and transmission started by
enabling THRI.

### I8042

All accesses happen under `io_lock`, so a port access is an action. Bytes are
replaced by their meaning. `update_irq(lowered, latched)` is `set_irq(0)`, if
`lowered`, followed by `update_irq()`; the rise it may cause is latched in
`irr`, which the guest's handler consumes by reading one byte.
A reset request leaves the state as it is (it ends the vCPU thread in `VmRun`).

### GuestMem, VmLifecycle

`GuestMem` has the slot table, what KVM believes (`kvm`) and what is mapped
(`mapped`). Sums are taken modulo `Top`, as `uint64_t` does. KVM may refuse a
new region. Rounding up in `mem_init()` wraps, and mmap refuses 0.
`mem_destroy()` is a statement at a time: `mem_pc` and `mem_i` say where it is in
its loop, and between taking a slot out of KVM, unmapping it and freeing it the
state can be looked at, which is what `ReleaseOrder` and `TablesAgree` do. Its
call of KVM is taken to succeed: the slot is one that KVM has, and the code ignores
the result.
`VmLifecycle` is `vm_create()` and `vm_destroy()` a statement group at a time,
each with its failure, on `GuestMem`'s actions; `Run` stands for all that main
does in between. The descriptors of the VM, of `/dev/kvm` and of the trace file are
closed in three steps. When `/dev/kvm` cannot be opened, `vm_create()` returns
without `vm_destroy()` (`no_kvm`) and leaves the trace file open. A vCPU's descriptor
is 0 (zeroed), 1 (open) or -1, and `closed_stdin` records that descriptor 0 was closed
for a vCPU; `vm_fd` and `kvm_fd` are set to -1 at once, so that they are only open
or not.

### IoBus

Registration comes first, then vCPUs look up a device and call it once per
element of a string access while they hold `io_lock`. `calls` is the history of
device calls. What a device does is external: OK, or EXIT. MMIO accesses are
those with one element.

### RegisterFile, AcpiPm

`RegisterFile` is what the comment at `acpi.c:317` promises: six bytes, any
covered range read or written. A byte keeps two bits: in byte 5, whether
SLP_TYP is that of S5, and SLP_EN; in byte 4, SCI_EN. `AcpiPm` is `pm_read()`
and `pm_write()`, with `cell` mapped to the bytes of the three words. The
history variable `access` is the last access, in both, so that a write
the code ignores cannot pass for another that changes nothing. Accesses that are not
aligned or wider than a word are left out.

### Rtc

`rtc_read_reg()` has no time of its own: each read of a time register calls
`gmtime()`. `Tick` moves the host's clock between any two accesses; the guest
follows `mc146818_avoid_UIP()`, which reads the seconds, the rest, and the
seconds again, and starts over when they differ. It may also write any register,
the time registers included, whose bytes the code stores and never shows. Time
has seconds and minutes only (hours to centuries carry the same way), and a
reading takes less than a minute. Linux takes a lock around a reading, so no
other vCPU comes between its accesses.

### MCPortDevices

The four devices share no state, so one run checks all of them: `dev` chooses
the one that moves. The run is a union of four state spaces, not a product.

### CommandLine

An argument is an option with a parsed value; `Malformed` stands for whatever
`strtoull()` and the suffix rules refuse. `ParseArg` is a turn of the loop,
`FinishArgs` the checks and defaults behind it. Lengths stand for strings, and
"readable" for a path.

### Topology

A CPUID table is the sequence of the leaves the fix-ups look at, with `others`
counted: the buffer grows by doubling until they fit. `smp_fixup_cpuid()` is
`FixupLeaf` on every entry and `FillTopologyLeaf`, which overwrites the host's
subleaves of 0xB or appends what is missing. `ByLeafB`, `ByLeaf8` and
`ByLeaf1E` are external: three ways in which a guest computes its place from
a table. `MpEntries` and `MadtEntries` are the entries of the two firmware
tables, with their sizes.

### KernelImage, KernelLoad

A file is a record of header fields, each any value of its width; groups of
checks that look at a field of their own only are one flag (`x86_64`, `header`).
Sums in the code are `Plus` and `Minus`, which wrap at `Top`; `reads` and
`loaded` are histories of the ranges touched, in unbounded numbers, so that a
wrapped sum cannot hide an access outside. `LoadSegment` is a turn of the
program header loop. `KernelImage` states what success means: the image is in
RAM, its extent is exactly that of the written ranges, the entry of an ELF
kernel was loaded.

### PageTable

`Entry(l, page, idx)` is the entry `boot_build_page_table()` leaves at an index
of the table in a page, for a layout `l` and both granularities, and `Walk` is
the walk of `boot_dump_page_walk()`. Addresses are counted in pages.

### Boot

`stage` is where `main()` has come to; each action is a function that
`main()` or `boot_linux()` calls. `placed` collects what was written where, for
the properties. `data` has the three sizes of the initrd or payload: that of
`stat()`, that found when it is opened, and what `fread()` returns, which may
all differ. `host.fails` stands for failures of calls that have no other
cause in the model (KVM, `calloc`): with it the step may fail or succeed, so
one boolean covers every combination. The rest of `vm_create()` is in
`VmLifecycle`, and `vm_run()` in `VmRun`.
Addresses are in units of 512 bytes; the constants of the headers are
multiples of that, and the only finer values, the sizes of the MP and ACPI tables
and of the command line, are kept in bytes.
`BootAssumption` relates the sizes that are parameters to the addresses of the
headers; `InputsAssumption` says that numbers fit in 64 bits, that `--mem` can be
rounded up to pages without wrapping, and that `read()` returns no more than it
is asked for. TLC evaluates both for the inputs of the runs.

## Runs

| run | instance | shows |
|---|---|---|
| `vm_run` | 2 vCPUs, with fairness; 706,724 states | `StopReachesKvm`, `NoVcpuOutlivesRun`, `VcpuRunPageMapped`, `DeviceExclusion`, `NoStaleExit`, `ReturnCode`, `TypeOK`; `StopReturns`: a stop request ends the process unless one went past an unpublished thread |
| `vm_run_stop_hang` | the same | `StopAlwaysReturns` is violated: see Findings |
| `vm_run_kick_joined` | 2 vCPUs, safety only | `KickTargetsUnjoinedThread` is violated |
| `vm_run_console_unmapped` | 2 vCPUs, safety only | `ConsoleRunPageMapped` is violated |
| `serial_console` | ring of 3, 4 keys typed of 4 values, 2 bytes to send; 782,669 states | `InputInOrder`, `NoLostEdge`: order of input through escapes, no lost edge; `InputServed`, `OutputServed` |
| `guest_mem` | 16 addresses, pages of 2, 2 slots, 2 areas; 290,336 states | `SlotsDisjoint`, `TablesAgree` (table, KVM and host, at every statement of `mem_destroy`), `Translation` (exact, wrap-around included) |
| `vm_lifecycle` | 3 vCPU places, RAM of 7, rounded to 8, or of 15, which wraps to 0; 2,092 states | `NothingLeft` (all is released, but for the trace file if `/dev/kvm` cannot be opened), `StdinStaysOpen`, `ReleaseOrder` between any two statements, `ReadyIsComplete` (RAM included) |
| `io_bus` | 2 vCPUs, 6 addresses, 2 table places, 4 devices offered, 3 calls; 920,930 states | `LookupExact`, `StringsAreWhole`, `ExitEndsVcpu` |
| `port_devices` | ring of 4, 2 byte values; output buffer of 2; accesses of 1 and 2 bytes; minutes of 3 seconds, hours of 2 minutes; 261,358 states | `RingIsFifo` (the ring is the queue of `RxFifo`), `InterruptFresh` (IIR and line after every operation), `EdgePerByte` and `AnswerIsNext` of the keyboard controller, `WordsAreFile` (all reads and the writes of words are those of `RegisterFile`), `ReadingIsInstant`, `PortTypeOK` |
| `acpi_pm_bytes` | accesses of 1 and 2 bytes | `IsRegisterFile` is violated |
| `boot` | 14,308 inputs; 166,712 states | `RegionsDisjoint`, `MemoryMap`, `InitrdFits`: nothing overlaps and the guest is told the truth; `IdentityMapCovers`, `PagingIsIdentity`: what Linux starts with is mapped to itself; `OptionOrderFree`; `ReadsInFile`, `IsKernelImage`: the loaders implement `KernelImage`; `TableFits`, `PathsAgree`, `FirmwareAgrees`: CPUID, MP table and MADT |
| `boot_stack` | `--mode long64` with both granularities | `StackIsFree` is violated |

Why the bounds are enough to be worth checking:

- *2 vCPUs*: with main and the console there are up to four concurrent
  requesters, and a vCPU can be target of the one before and after it. That one
  thread is created and the other is not, or one is published and the other is
  not, happens. The safety properties are proved for every number of vCPUs.
- *rings of 3 and 4*: each fills, wraps and is emptied in the run.
- *output buffer of 2*: a keyboard reply of two bytes just fills it, one of
  three loses its last byte, and bytes left from before make either overflow.
  The head goes round.
- *3 seconds, 2 minutes*: a reading of six accesses can be overtaken by the end
  of a minute and of the hour at every place.
- *inputs of `boot`*: the true constants are kept (`Top` stands for 2^64 and is
  2^30 units; TLC's integers are 32 bits wide), and the inputs are families
  (`MCBoot`) that each vary one part over the values where a decision changes, on
  both sides of it, and keep the rest as in the examples of the usage text:
  processors, kernel files, initrd and RAM, order of options, long mode
  layouts, real mode, failing hosts. What they leave out is combinations
  across families; `Boot_proofs` has no such limit.
- *16 addresses*: `gpa + len` wraps, `AlignUp` wraps, two slots touch, and
  regions are added below, above and across others. Disjointness and
  translation are proved for every size.
- *3 vCPU places*: creation fails at the first, a middle and the last vCPU, and
  places are left that were never used.
- *RAM of 7 and of 15, in pages of 2 and 16 addresses*: the first is rounded up to 8;
  the second wraps around to 0, which must not become a VM without memory.
- *4 devices, 2 places*: devices that touch, contain and cross one another, and
  a full table.
- *4 keys*: two complete escapes, which do not fit in the ring at once. Of the
  key values two belong to the escape and two do not, so that their order shows.
  `InputInOrder` is proved for any number of keys and values.
  `MaxTyped`, `MaxTx`, `MaxCalls` and `MaxCount` are the only bounds that limit a
  behaviour; each is in the guard of the action it limits.

Deadlock is checked for `guest_mem` and `port_devices`. The other systems stop:
the process ends, nothing is typed any more, the guest is entered, or the bound
of the history is reached.

### Fairness

`VmRun`: weak fairness of main, of the console's stop request and of each vCPU
thread (`VcpuStep`): the host schedules every runnable thread, and a signal
that is pending for a thread in KVM_RUN interrupts it. No fairness is assumed of the
guest (`GuestStep`): it may stay in KVM_RUN for ever, which is the case the
stop protocol exists for. None is assumed of the user, and `io_lock` is not taken
to be granted in any order: a thread that waits for it forever would need
another that takes it again and again, and that one is stopped too.
`SerialConsole`: weak fairness of the driver's set-up, its handler and the
console thread's second push; nobody has to type or send.

## Findings

1. `vm_run_stop_hang`. `vm_run()` publishes `thread_started` after
   `pthread_create()` (`smp.c:313-319`), and `vm_request_stop()` sends no
   signal to an unpublished thread (`smp.c:271`). In between, the new vCPU can
   pass its check of `should_stop`, enter KVM_RUN, and then be told to stop by
   another thread: `immediate_exit` is too late and no signal comes. If the guest
   does not leave by itself (an AP waiting for its SIPI does not), `vm_run()`
   waits for ever. `smp.c:256-258` says both windows are covered.
2. `vm_run_kick_joined`. After the load of `thread_started` main may join the
   target before `pthread_kill()`; the thread id is then no longer valid.
   `smp.h:26` allows the call in any thread.
3. `vm_run_console_unmapped`. The console thread is detached where it is, not
   only in `read()` as `console.c:110` assumes; inside `vm_request_stop()` it
   can have read `v->run` before `vm_destroy()` unmaps the page.
4. `acpi_pm_bytes`. `pm_write()` looks at the offset of an access only: a byte
   written to the upper half of a PM1a register is ignored, and one written to the
   lower half of EN or CNT clears the upper. `acpi.c:317-318` says accesses by the byte
   or word are those of a 6-byte register file. Reads are.
5. `boot_stack`. `setup_long_mode_common()` sets RSP to 0x200000 whatever the
   layout. With `--gran 4k` and the default map of 1 GiB the page tables occupy
   [0x5000, 0x205000) (`gdt_pgtable.h:32-33`), so the payload's first push
   overwrites entries of a live page table. The comment at `gdt_pgtable.c:335`
   says the place is enough for a payload; `tests/e2e/step1.sh:77` runs this mode
   and passes: the entries overwritten are those of addresses near 1 GiB, far above
   its RAM of 16 MiB.

## Proofs

`VmRun_proofs` proves, for every `NrVcpus` in 1..32 and any distinct `Main` and
`Console`, every safety property of the run `vm_run` as `Spec => []P`.
The assumptions are `NrVcpusAssumption` and `ThreadsAssumption`. None of the
properties is inductive; they follow from `IInv` (in `VmRun`), whose parts are

- `ThreadsBorn`, `ThreadsJoined`, `MainLoops`: which vCPU threads exist and
  which were joined is told exactly by main's place and its two loop
  indices. `NoVcpuOutlivesRun` follows: in the destroy loop all that were
  started are joined;
- `PagesMapped`: outside the destroy loop all run pages are mapped. With the
  former it gives `VcpuRunPageMapped`;
- `ImmediateExitFollows`, `SignalFollows`: the two windows one after the other.
  A vCPU with `should_stop` has `immediate_exit`, or a requester is between the two
  stores; a vCPU in KVM_RUN with `immediate_exit` has a signal, or a requester
  is between store and kick. Their combination is `StopReachesKvm`. Split in
  two, each is kept by every step: entering KVM_RUN needs `~immediate_exit`, and
  a signal is consumed only by leaving KVM_RUN;
- `CodeSoFar`: what `rc` says of the threads joined so far, which becomes
  `ReturnCode` when all are.

The proof that a step keeps `IInv` has one step per action and, under it, one
per part of the invariant.

`GuestMem_proofs` proves `SlotsDisjoint` and `Translation` for every address
space, page size and number of slots (`SizesAssumption`, `AreasAssumption`).
The invariant adds `NoWrap`: a used slot ends inside the address space, so that
`End(s)` is the true end and the overlap test of `mem_add_region()` means what
it says. It rests on the callers of `mem_add_region()`, which pass no region
that reaches the last byte (a conjunct of `AddRegion`), and on the checks in
`mem_init()`. Two more conjuncts are about destruction: `Freed`, that the slots behind
the index of `mem_destroy()` are free and the one it is at is not yet, and `OneOwner`,
that only one slot's memory is this module's to unmap, so that unmapping it takes
nothing from another. `Agreed` adds `TablesAgree`: that a slot is in KVM, and its area
mapped, exactly if the table says so, and `nr_slots` counts them; while `mem_destroy()`
runs, up to the slot it is at and with the count still the old one. The search for a free
slot finds one whenever the table has one, and a call that KVM refuses
leaves a row that is not used.

`VmLifecycle_proofs` proves the four properties of the run `vm_lifecycle` for every
number of vCPU places and all sizes of RAM (`MemAssumption`). `MemoryIsGuestMem` comes
first: every step of the VM's life does to memory what a step of `GuestMem` does, so
that the theorems above hold in it; `MemoryAgrees` carries `TablesAgree` and `Freed`
over. `LifeInv` then says what exists at each place of creation and destruction:
`IndexInv` (how far a loop has come), `FdInv` (descriptors), `RamInv` (all of guest
memory is the RAM `vm_create()` mapped, no less than was asked for: `AlignUpGrows`) and
`VcpuInv` (the vCPUs below the index are complete, those above it untouched; in the
destroy loop the other way round). `EverythingReleased`, `ConsoleStays`,
`OrderOfRelease` and `Ready` follow from it.

`Boot_proofs` begins with the parts of `Boot`. For every kernel file, size of RAM
and width of an address (`KernelAssumption`):

- `FileReads`: `ReadsInFile`, whatever the header says. `ReadsInv` is inductive
  by itself, given the types of the file's fields;
- `GivesImage`: `KernelSpec => IsKernelImage`, the refinement of `KernelImage`.
  The invariant (`ImageInv`) says that the locals `lo` and `hi` are the extent
  of what was loaded, in numbers that do not wrap, because every range has
  passed `gpa_to_hva()` (`Accepted`); and that once an entry is found it lies in a
  loaded range, and is not moved again. The second needs the translation of a
  virtual entry to stay inside its segment (`Inside`).

`IdentityMap` says of `PageTable`: for every layout whose tables lie behind
one another, both granularities and every map up to 1 GiB, `Walk` leads each page of
the map to itself and each other to a fault. `PagingIsIdentity` checks the same
at the pages where an index changes, for the layouts `Boot` produces.

The rest takes these to the whole of `main()`, for every set of inputs and
value of the constants that satisfies `BootAssumption` and `InputsAssumption`.
`BootInv` says which zone of the layout a thing that was written lies in, for
Linux (`LinuxPlace`) and for a payload in long mode (`LongPlace`), that the
kernel loader's invariant holds at every stage, and that no kernel is loaded
outside Linux mode.

- `Disjointness`: `RegionsDisjoint`. The zones are apart by the addresses of the
  headers and by what is checked on the way: the kernel lies above
  `HighMem`, the initrd above the kernel, the tables end where
  `boot_layout_validate()` says they may, and `check_payload_overlap()` keeps
  a payload off them. Rounding a place down to 2 MiB, in `load_initrd()`, is
  the one step of arithmetic in between;
- `BootReads`, `BootGivesImage`: `ReadsInFile` and the refinement of
  `KernelImage` for `BootSpec`. A step of the boot process is one of the
  loaders, the creation of RAM, or leaves their variables alone (`KernelMoves`);
- `BootMemoryMap`, `BootInitrd`: `MemoryMap` and `InitrdFits`. The zones say in
  which entry of the map a thing lies (`MapInv` says that the map is still that
  of this RAM). The limit of the initrd that `boot_linux()` and `load_initrd()`
  compute in two places is the minimum of the three numbers it must not exceed
  (`LimitIsTop`), which takes that the default limit lies inside the map (a
  conjunct of `BootAssumption`);
- `BootOptions`: `OptionOrderFree`, for command lines of any length. The parser
  has recorded, of each option, the last value so far (`Recorded`);
- `BootPaging`: `PagingIsIdentity`, from `IdentityMap`, because a layout that
  passes validation is one of those that theorem is about;
- `BootCovers`: `IdentityMapCovers`, and the same of every address in between
  (the run looks at the ends of each region). It is about Linux, which is always
  entered by the default layout; for a payload in long mode `BootPaging` says what the map
  is, and no code compares its place or entry with `--map`. `CoverInv` adds that there is
  one initrd, the one the guest is told of, and that RIP is the entry the loader
  returned. The limit of the initrd lies inside the map, so what Linux needs lies below
  it; an initrd that has grown since `stat()` may end above, and counts as far as `stat()`
  told. The
  entry of a bzImage lies 0x200 above its load address and no code looks whether the
  file has that many bytes, which is why the property speaks of an entry inside the
  image;
- `BootTables`, `BootTablesFit`, `BootPaths`, `BootFirmware`: the processors. `TablesInv`
  says that a vCPU that was created has a table with all that leaf 0xB and the fixups
  should say, or there was a reason. The retries of `vm_get_supported_cpuid()` end
  because the sizes tried are the powers of two up to `MaxNent`. The size of the MP table is
  a sum over its entries, that is a recursive function: it agrees with the
  closed form of `mptable.c:125` because a shortest prefix on which the two differ
  cannot exist. The assumptions are `TopologyAssumption` (the first size is positive,
  the last is 32 times that, and three entries are spare), `MaxVcpusAssumption` (at most
  255 processors: APIC ids are bytes) and, of the host, `HostOK`: KVM's table has leaf 1 and
  the two leaves that are fixed up, and no entry twice.

`Serial8250_proofs` proves, for every ring size above 1 and any bytes
(`RxBufAssumption`): `InterruptsFresh`, which needs the types only, since every operation ends
in `update_irq()`; and `RingImplementsFifo`. The queue is a function of the
buffer, the head and the number of bytes held, and `PutAppends` and
`GetTakesHead` say what `rb_push()` and `rb_pop()` make of it, wrap-around included.

`SerialConsole_proofs` proves the two invariants of the run `serial_console` for any
keys, any number of them and of bytes sent, and a ring of any size.

- `EdgesKept`: `NoLostEdge`, inductive with `InterruptFresh`: a driver that finds
  nothing pending and goes back to waiting has read an IIR that is not stale, so the
  line is low;
- `UsesUart`: the composition implements `SerialSpec`. Console and driver use
  the UART in ways `Serial8250` allows, so its theorems, the refinement of `RxFifo`
  among them, hold here;
- `InputOrder`: `InputInOrder`. `OrderInv` is the account of the bytes: what the keys mean
  is what the FIFO reset lost, then what the driver received, then what is in the ring,
  then what the console holds. It needs the mode the escape is in (`KeysInv`), that nothing
  is received before the reset, and that the driver leaves DLAB and loopback off
  (`PlainLine`). `Meaning` is a recursive function of the keys that reads forwards,
  while the console appends: `KeyAdds` says what one more key adds, from `OneMoreKey`,
  which turns a reading of the keys into one of the keys with one more. Where the
  console is in an escape is the end of that reading (`EndsIn`). That a reading is the
  function `Meaning` defines (`OneReading`) takes an induction, done as a
  least counterexample.

`PortDevices_proofs` proves what the run `port_devices` checks, for any sizes
(`PortAssumption`). No device reads another's state, so their invariants hold together
(`PortInvariance`, `PortTypes`).

- `KbcInvariance`, `Edges`, `Answers`: `EdgePerByte` and `AnswerIsNext` for an output
  buffer of any size above 0. With the types they are inductive together: an answer can be
  next only if the head is where it was put, and the line follows the byte at the head;
- `InstantRead`: `ReadingIsInstant`, for minutes of any number of seconds and hours of any
  number of minutes. `Elapsed` says that the reading began a number of ticks ago, less
  than a minute's (the guard of the tick, `Rtc`), and that the times since differ
  in their seconds. A guest that reads the same seconds twice has therefore seen no
  tick in between, and the values in between are those of that second;
- `WordsOfFile`: `WordsAreFile`, the refinement of `RegisterFile` for reads and for
  writes of whole words, for any byte values.

`IoBus_proofs` proves the three properties of the run `io_bus` for any devices,
vCPUs and table size (`OfferedAssumption`, `SizesAssumption`,
`NobodyAssumption`). `LookupExact` needs that registered
ranges are apart (`RangesApart`). The others need to know who holds `io_lock`
and what the last call was: `Holding` (the lock's holder is the one vCPU in an
access), `Progress` (after its first call, the last call of all is its own) and `ExitIsLast`.

Only model-checked is liveness (`StopReturns`, `InputServed`, `OutputServed`): the
proof system has no rule for fairness and ENABLED here. The `violation` runs need no
proof: a counterexample is one. Induction over data is out of the prover's reach as a rule;
where a recursive function had to be reasoned about (`Meaning`, `SizeOf`), the proofs take
the least number at which the claim fails and derive a contradiction.

## Not modelled, and the plan

What is left to do, in this order:

1. An abstract life of the VM (running, stopping, gone) that `VmRun`
   implements, and the proof.
2. More of the keyboard controller: that no byte of a reply is overtaken, as a
   refinement of a queue like `RxFifo`.

Left out for good: logging, state dumps, tracing, the debug port, usage text and
terminal modes (output, with no state that anything else depends on); the
numeric syntax of options; segment descriptors, control register values,
checksums and the constant contents of ACPI tables (constants, better compared
with the manuals); the in-kernel interrupt controllers (KVM's); and the
placeholder files.
