------------------------------- MODULE VmRun -------------------------------
(***************************************************************************)
(* The threads of mini-vmm from main()'s call of vm_run() to the exit of   *)
(* the process: the main thread creates one thread per vCPU and joins them *)
(* (src/smp.c), every vCPU thread runs the KVM_RUN loop (src/vm.c), the    *)
(* console thread may ask for a stop at any time (src/console.c), and the  *)
(* main thread then destroys the VM (vm_destroy).  vm_request_stop() is    *)
(* called by all of them and takes one step per access to shared memory.   *)
(*                                                                         *)
(* KVM itself is external: what ioctl(KVM_RUN) may do is modelled from the *)
(* way src/kvm_wrappers.c and src/vm.c use it.  vm.running is left out (it *)
(* is written and never read), and so are statistics and logging.          *)
(***************************************************************************)
EXTENDS Integers

CONSTANTS
  NrVcpus,   (* vm.nr_vcpus, the number of vCPUs vm_create() made          *)
  Main,      (* the thread that runs main()                                *)
  Console    (* the thread that reads stdin                                *)

ASSUME NrVcpusAssumption == NrVcpus \in 1..32            \* VMM_MAX_VCPUS

Vcpu    == 0 .. NrVcpus - 1
Threads == Vcpu \cup {Main, Console}

ASSUME ThreadsAssumption ==
  Main \notin Vcpu /\ Console \notin Vcpu /\ Main # Console

Free == -1                      \* io_lock is held by nobody

VARIABLES
  pc,              (* where each thread is                                  *)
  idx,             (* per thread: the loop index i of vm_request_stop()     *)
  should_stop,     (* vcpu.should_stop                                      *)
  immediate_exit,  (* vcpu.run->immediate_exit, read by KVM_RUN on entry    *)
  thread_started,  (* vcpu.thread_started                                   *)
  result,          (* vcpu.result                                           *)
  run_page,        (* vcpu.run: mapped, unmapped but not yet NULL, or NULL  *)
  exit_reason,     (* run->exit_reason, which keeps its last value          *)
  fresh,           (* KVM wrote exit_reason since it was last handled       *)
  sig,             (* SIGUSR1 is pending for the vCPU's thread              *)
  io_lock,         (* the vCPU that holds vm.io_lock, or Free               *)
  started,         (* vm_run(): number of threads created and published     *)
  mi,              (* the loop index of main's join and destroy loops       *)
  rc,              (* vm_run(): r                                           *)
  user_stop,       (* vm.user_stop                                          *)
  skipped          (* history: vCPUs that were inside KVM_RUN when a stop   *)
                   (* request went past them without a signal               *)

shared  == <<should_stop, immediate_exit, thread_started, sig, skipped>>
mainVar == <<started, mi, rc>>
kvmVar  == <<exit_reason, fresh>>
vars == <<pc, idx, shared, result, run_page, kvmVar, io_lock, mainVar,
          user_stop>>

StopPc    == {"stop", "run", "imm", "started", "kill"}
LoopPc    == {"check", "enter", "kvm", "exit", "lock", "device"}
VcpuPc    == {"unborn"} \cup LoopPc \cup StopPc \cup {"dead", "joined"}
DestroyPc == {"unmap", "clear", "done"}
MainPc    == {"sigaction", "create", "publish"} \cup StopPc
             \cup {"join", "reap"} \cup DestroyPc
ConsolePc == {"off", "read"} \cup StopPc \cup {"ended"}

Results == {"OK", "SYS", "GUEST"}
Reasons == {"io", "halt", "intr", "bad"}
          \* KVM_EXIT_IO and _MMIO; _HLT and _SYSTEM_EVENT; _INTR; all others

PcOK ==
  /\ pc \in [Threads -> VcpuPc \cup MainPc \cup ConsolePc]
  /\ \A i \in Vcpu : pc[i] \in VcpuPc
  /\ pc[Main] \in MainPc
  /\ pc[Console] \in ConsolePc

TypeOK ==
  /\ PcOK
  /\ idx \in [Threads -> Vcpu]
  /\ should_stop \in [Vcpu -> BOOLEAN]
  /\ immediate_exit \in [Vcpu -> BOOLEAN]
  /\ thread_started \in [Vcpu -> BOOLEAN]
  /\ result \in [Vcpu -> Results]
  /\ run_page \in [Vcpu -> {"mapped", "unmapped", "null"}]
  /\ exit_reason \in [Vcpu -> Reasons \cup {"none"}]
  /\ fresh \in [Vcpu -> BOOLEAN]
  /\ sig \in [Vcpu -> BOOLEAN]
  /\ io_lock \in Vcpu \cup {Free}
  /\ started \in 0..NrVcpus
  /\ mi \in 0..NrVcpus
  /\ rc \in Results
  /\ user_stop \in BOOLEAN
  /\ skipped \subseteq Vcpu

-----------------------------------------------------------------------------

(* vm_create() succeeded; console_start() left a reader thread or did not. *)
Init ==
  /\ \E c \in {"off", "read"} :
       pc = [t \in Threads |-> CASE t = Main    -> "sigaction"
                                 [] t = Console -> c
                                 [] OTHER       -> "unborn"]
  /\ idx = [t \in Threads |-> 0]
  /\ should_stop = [i \in Vcpu |-> FALSE]
  /\ immediate_exit = [i \in Vcpu |-> FALSE]
  /\ thread_started = [i \in Vcpu |-> FALSE]
  /\ result = [i \in Vcpu |-> "OK"]
  /\ run_page = [i \in Vcpu |-> "mapped"]
  /\ exit_reason = [i \in Vcpu |-> "none"]
  /\ fresh = [i \in Vcpu |-> FALSE]
  /\ sig = [i \in Vcpu |-> FALSE]
  /\ io_lock = Free
  /\ started = 0 /\ mi = 0 /\ rc = "OK"
  /\ user_stop = FALSE
  /\ skipped = {}

(* The process is alive: no thread runs once main() has returned.          *)
Alive == pc[Main] # "done"

Goto(t, from, to) ==
  /\ Alive
  /\ pc[t] = from
  /\ pc' = [pc EXCEPT ![t] = to]

-----------------------------------------------------------------------------
(* vm_request_stop(), called by thread t; i is idx[t].                     *)

BeginStop(t) ==                               \* the call, from any thread
  /\ pc' = [pc EXCEPT ![t] = "stop"]
  /\ idx' = [idx EXCEPT ![t] = 0]

AfterStop(t) ==                               \* where the caller goes on
  CASE t = Main    -> "join"
    [] t = Console -> "ended"
    [] OTHER       -> "dead"

(* Mutant: the loop runs to i <= nr_vcpus.                                 *)
NextTargetTooFar(t) ==
  IF idx[t] + 1 <= NrVcpus
  THEN /\ pc' = [pc EXCEPT ![t] = "stop"]
       /\ idx' = [idx EXCEPT ![t] = @ + 1]
  ELSE /\ pc' = [pc EXCEPT ![t] = AfterStop(t)]
       /\ UNCHANGED idx

NextTarget(t) ==                              \* i++ and the loop condition
  IF idx[t] + 1 < NrVcpus
  THEN /\ pc' = [pc EXCEPT ![t] = "stop"]
       /\ idx' = [idx EXCEPT ![t] = @ + 1]
  ELSE /\ pc' = [pc EXCEPT ![t] = AfterStop(t)]
       /\ UNCHANGED idx

StopRest == UNCHANGED <<result, run_page, kvmVar, io_lock, mainVar, user_stop>>

SetShouldStop(t) ==
  /\ Goto(t, "stop", "run")
  /\ should_stop' = [should_stop EXCEPT ![idx[t]] = TRUE]
  /\ UNCHANGED <<idx, immediate_exit, thread_started, sig, skipped>>
  /\ StopRest

TestRun(t) ==                                 \* if (v->run)
  /\ Goto(t, "run", IF run_page[idx[t]] # "null" THEN "imm" ELSE "started")
  /\ UNCHANGED <<idx, shared>>
  /\ StopRest

(* Mutant: the flag is not stored, as before the second window was closed. *)
ForgetImmediateExit(t) ==
  /\ Goto(t, "imm", "started")
  /\ UNCHANGED <<idx, shared>>
  /\ StopRest

SetImmediateExit(t) ==
  /\ Goto(t, "imm", "started")
  /\ immediate_exit' = [immediate_exit EXCEPT ![idx[t]] = TRUE]
  /\ UNCHANGED <<idx, should_stop, thread_started, sig, skipped>>
  /\ StopRest

(* The acquire load of thread_started and the test for the caller itself.  *)
TestStarted(t) ==
  LET i == idx[t] IN
  /\ Alive
  /\ pc[t] = "started"
  /\ IF thread_started[i] /\ i # t
     THEN /\ pc' = [pc EXCEPT ![t] = "kill"]
          /\ UNCHANGED <<idx, skipped>>
     ELSE /\ NextTarget(t)
          /\ skipped' = IF pc[i] = "kvm" THEN skipped \cup {i} ELSE skipped
  /\ UNCHANGED <<should_stop, immediate_exit, thread_started, sig>>
  /\ StopRest

(* pthread_kill().  On a thread that has ended it does nothing.  On one    *)
(* that was joined the behaviour is undefined; the step then changes       *)
(* nothing and KickTargetsUnjoinedThread reports the state before it.      *)
Kick(t) ==
  LET i == idx[t] IN
  /\ Alive
  /\ pc[t] = "kill"
  /\ NextTarget(t)
  /\ IF pc[i] \in {"dead", "joined"}
     THEN UNCHANGED <<sig, skipped>>
     ELSE /\ sig' = [sig EXCEPT ![i] = TRUE]
          /\ skipped' = skipped \ {i}
  /\ UNCHANGED <<should_stop, immediate_exit, thread_started>>
  /\ StopRest

StopStep(t) ==
  \/ SetShouldStop(t) \/ TestRun(t) \/ SetImmediateExit(t)
  \/ TestStarted(t) \/ Kick(t)

-----------------------------------------------------------------------------
(* The thread of vCPU i: vcpu_thread(), vcpu_run_loop(), vcpu_handle_exit() *)

LoopRest == UNCHANGED <<should_stop, immediate_exit, thread_started, skipped,
                        run_page, mainVar, user_stop>>

(* vcpu_run_loop() returns r: store v->result, then vm_request_stop().     *)
LoopReturns(i, r) ==
  /\ result' = [result EXCEPT ![i] = r]
  /\ BeginStop(i)

LoopContinues(i, to) ==
  /\ pc' = [pc EXCEPT ![i] = to]
  /\ UNCHANGED <<idx, result>>

CheckShouldStop(i) ==
  /\ pc[i] = "check"
  /\ IF should_stop[i] THEN LoopReturns(i, "OK") ELSE LoopContinues(i, "enter")
  /\ UNCHANGED <<sig, kvmVar, io_lock>>
  /\ LoopRest

(* External: KVM_RUN on entry looks at immediate_exit and pending signals. *)
EnterKvm(i) ==
  /\ pc[i] = "enter" /\ ~immediate_exit[i] /\ ~sig[i]
  /\ LoopContinues(i, "kvm")
  /\ UNCHANGED <<sig, kvmVar, io_lock>>
  /\ LoopRest

(* Mutant: EINTR is taken for a normal return.                             *)
InterruptedIsExit(i) ==
  /\ LoopContinues(i, "exit")
  /\ sig' = [sig EXCEPT ![i] = FALSE]
  /\ UNCHANGED <<exit_reason, fresh, io_lock>>
  /\ LoopRest

(* kvm_run() returns VMM_ERR_INTR and the loop continues.  The handler of  *)
(* a pending SIGUSR1 has run by then; exit_reason may or may not be        *)
(* written.                                                                *)
Interrupted(i) ==
  /\ LoopContinues(i, "check")
  /\ sig' = [sig EXCEPT ![i] = FALSE]
  /\ \E x \in {exit_reason[i], "intr"} :
       exit_reason' = [exit_reason EXCEPT ![i] = x]
  /\ UNCHANGED <<fresh, io_lock>>
  /\ LoopRest

EntryRefused(i) ==                                              \* EINTR
  /\ pc[i] = "enter" /\ (immediate_exit[i] \/ sig[i])
  /\ Interrupted(i)

KickedOut(i) ==                                                 \* EINTR
  /\ pc[i] = "kvm" /\ sig[i]
  /\ Interrupted(i)

ApWoken(i) ==                                                   \* EAGAIN
  /\ pc[i] = "kvm"
  /\ Interrupted(i)

(* External: the guest makes KVM return 0 with an exit reason.             *)
GuestExit(i) ==
  /\ pc[i] = "kvm"
  /\ LoopContinues(i, "exit")
  /\ \E x \in Reasons : exit_reason' = [exit_reason EXCEPT ![i] = x]
  /\ fresh' = [fresh EXCEPT ![i] = TRUE]
  /\ UNCHANGED <<sig, io_lock>>
  /\ LoopRest

(* KVM_RUN fails with another errno.                                       *)
KvmRunFails(i) ==
  /\ pc[i] \in {"enter", "kvm"}
  /\ LoopReturns(i, "SYS")
  /\ UNCHANGED <<sig, kvmVar, io_lock>>
  /\ LoopRest

HandleExit(i) ==
  /\ pc[i] = "exit"
  /\ \/ exit_reason[i] = "io"   /\ LoopContinues(i, "lock")
     \/ exit_reason[i] = "intr" /\ LoopContinues(i, "check")
     \/ exit_reason[i] = "halt" /\ LoopReturns(i, "OK")      \* VMM_ERR_EXIT
     \/ exit_reason[i] \in {"bad", "none"} /\ LoopReturns(i, "GUEST")
  /\ fresh' = [fresh EXCEPT ![i] = FALSE]
  /\ UNCHANGED <<sig, exit_reason, io_lock>>
  /\ LoopRest

LockIo(i) ==
  /\ pc[i] = "lock" /\ io_lock = Free
  /\ LoopContinues(i, "device")
  /\ io_lock' = i
  /\ UNCHANGED <<sig, kvmVar>>
  /\ LoopRest

(* Mutant: the way out with VMM_ERR_EXIT keeps the lock.                   *)
DeviceKeepsLock(i) ==
  /\ pc[i] = "device"
  /\ \/ LoopContinues(i, "check") /\ io_lock' = Free
     \/ LoopReturns(i, "OK") /\ UNCHANGED io_lock
  /\ UNCHANGED <<sig, kvmVar>>
  /\ LoopRest

(* The device callback returns VMM_OK, or VMM_ERR_EXIT (exit port, reset   *)
(* line, power off); the lock is released either way.                      *)
Device(i) ==
  /\ pc[i] = "device"
  /\ io_lock' = Free
  /\ LoopContinues(i, "check") \/ LoopReturns(i, "OK")
  /\ UNCHANGED <<sig, kvmVar>>
  /\ LoopRest

(* kick_handler(): SIGUSR1 arrives outside KVM_RUN and is eaten.           *)
EatSignal(i) ==
  /\ sig[i] /\ pc[i] \in VcpuPc \ {"unborn", "kvm", "dead", "joined"}
  /\ sig' = [sig EXCEPT ![i] = FALSE]
  /\ UNCHANGED <<pc, idx, should_stop, immediate_exit, thread_started, skipped>>
  /\ StopRest

(* What the thread does by itself, and what it only may do.                *)
VcpuStep(i) ==
  \/ CheckShouldStop(i) \/ EnterKvm(i) \/ EntryRefused(i) \/ KickedOut(i)
  \/ HandleExit(i) \/ LockIo(i) \/ Device(i) \/ StopStep(i)

GuestStep(i) == GuestExit(i) \/ ApWoken(i) \/ KvmRunFails(i) \/ EatSignal(i)

-----------------------------------------------------------------------------
(* The console thread, reduced to what concerns the stop.                  *)

ConsoleRest == UNCHANGED <<shared, result, run_page, kvmVar, io_lock, mainVar>>

ConsoleQuit ==                                                  \* Ctrl-A x
  /\ Alive
  /\ pc[Console] = "read"
  /\ user_stop' = TRUE
  /\ BeginStop(Console)
  /\ ConsoleRest

ConsoleEof ==
  /\ Goto(Console, "read", "ended")
  /\ UNCHANGED <<idx, user_stop>>
  /\ ConsoleRest

-----------------------------------------------------------------------------
(* The main thread: vm_run(), then vm_destroy().                           *)

MainRest == UNCHANGED <<should_stop, immediate_exit, sig, skipped, kvmVar,
                        result, io_lock, user_stop>>

Sigaction ==
  /\ pc[Main] = "sigaction"
  /\ \/ pc' = [pc EXCEPT ![Main] = "create"] /\ UNCHANGED rc
     \/ pc' = [pc EXCEPT ![Main] = "unmap"]  /\ rc' = "SYS"
  /\ UNCHANGED <<idx, thread_started, run_page, started, mi>>
  /\ MainRest

CreateThread ==
  /\ pc[Main] = "create"
  /\ pc' = [pc EXCEPT ![Main] = "publish", ![started] = "check"]
  /\ UNCHANGED <<idx, thread_started, run_page, mainVar>>
  /\ MainRest

(* Mutant: vm_run() returns at once and leaves the threads behind.         *)
CreateThreadFailsAtOnce ==
  /\ pc[Main] = "create"
  /\ rc' = "SYS"
  /\ pc' = [pc EXCEPT ![Main] = "unmap"]
  /\ UNCHANGED <<idx, thread_started, run_page, started, mi>>
  /\ MainRest

CreateThreadFails ==
  /\ pc[Main] = "create"
  /\ rc' = "SYS"
  /\ BeginStop(Main)
  /\ UNCHANGED <<thread_started, run_page, started, mi>>
  /\ MainRest

PublishStarted ==
  /\ Goto(Main, "publish", IF started + 1 < NrVcpus THEN "create" ELSE "join")
  /\ thread_started' = [thread_started EXCEPT ![started] = TRUE]
  /\ started' = started + 1
  /\ UNCHANGED <<idx, run_page, mi, rc>>
  /\ MainRest

Join ==
  /\ pc[Main] = "join" /\ mi < started /\ pc[mi] = "dead"
  /\ pc' = [pc EXCEPT ![Main] = "reap", ![mi] = "joined"]
  /\ UNCHANGED <<idx, thread_started, run_page, mainVar>>
  /\ MainRest

(* Mutant: the last error wins.                                            *)
ReapLastError ==
  /\ Goto(Main, "reap", "join")
  /\ thread_started' = [thread_started EXCEPT ![mi] = FALSE]
  /\ rc' = IF result[mi] # "OK" THEN result[mi] ELSE rc
  /\ mi' = mi + 1
  /\ UNCHANGED <<idx, run_page, started>>
  /\ MainRest

Reap ==
  /\ Goto(Main, "reap", "join")
  /\ thread_started' = [thread_started EXCEPT ![mi] = FALSE]
  /\ rc' = IF rc = "OK" THEN result[mi] ELSE rc
  /\ mi' = mi + 1
  /\ UNCHANGED <<idx, run_page, started>>
  /\ MainRest

(* Mutant: the last thread is not joined.                                  *)
RunReturnsEarly ==
  /\ Goto(Main, "join", "unmap")
  /\ mi + 1 >= started
  /\ mi' = 0
  /\ UNCHANGED <<idx, thread_started, run_page, started, rc>>
  /\ MainRest

(* vm_run() returns; console_stop() detaches the reader and changes        *)
(* nothing else.                                                           *)
RunReturns ==
  /\ Goto(Main, "join", "unmap")
  /\ mi = started
  /\ mi' = 0
  /\ UNCHANGED <<idx, thread_started, run_page, started, rc>>
  /\ MainRest

(* vm_destroy(): munmap(v->run), and two statements later v->run = NULL.   *)
UnmapRun ==
  /\ Goto(Main, "unmap", "clear")
  /\ run_page' = [run_page EXCEPT ![mi] = "unmapped"]
  /\ UNCHANGED <<idx, thread_started, mainVar>>
  /\ MainRest

ClearRun ==
  /\ Goto(Main, "clear", IF mi + 1 < NrVcpus THEN "unmap" ELSE "done")
  /\ run_page' = [run_page EXCEPT ![mi] = "null"]
  /\ mi' = mi + 1
  /\ UNCHANGED <<idx, thread_started, started, rc>>
  /\ MainRest

MainStep ==
  \/ Sigaction \/ CreateThread \/ CreateThreadFails \/ PublishStarted
  \/ StopStep(Main) \/ Join \/ Reap \/ RunReturns \/ UnmapRun \/ ClearRun

-----------------------------------------------------------------------------

Next ==
  \/ MainStep
  \/ ConsoleQuit \/ ConsoleEof \/ StopStep(Console)
  \/ \E i \in Vcpu : VcpuStep(i) \/ GuestStep(i)

Spec == Init /\ [][Next]_vars

(* Every thread that can run is eventually scheduled, and a signal reaches *)
(* a thread inside KVM_RUN.  Nothing is assumed of the guest (it may never *)
(* leave KVM_RUN by itself), of the user, or of the order in which         *)
(* io_lock is granted.                                                     *)
Fairness ==
  /\ WF_vars(MainStep)
  /\ WF_vars(StopStep(Console))
  /\ \A i \in Vcpu : WF_vars(VcpuStep(i))

FairSpec == Spec /\ Fairness

-----------------------------------------------------------------------------
(* Properties.                                                             *)

(* A stop request has passed the first two windows of vCPU i.              *)
OnItsWay(i, where) == \E t \in Threads : pc[t] \in where /\ idx[t] = i

(* The race smp.c:251-258 is about: a vCPU that is told to stop and is     *)
(* inside KVM_RUN has a signal pending, or a stop request is still on its  *)
(* way to it, unless the request went past it before vm_run() had          *)
(* published its thread.                                                   *)
StopReachesKvm ==
  \A i \in Vcpu :
    pc[i] = "kvm" /\ should_stop[i] /\ i \notin skipped =>
      sig[i] \/ OnItsWay(i, StopPc \ {"stop"})

(* vm_run() joins before vm_destroy() unmaps: when the VM is taken apart   *)
(* no vCPU thread exists, whatever way vm_run() returned.                  *)
NoVcpuOutlivesRun ==
  pc[Main] \in DestroyPc => \A i \in Vcpu : pc[i] \in {"unborn", "joined"}

(* The run page a vCPU thread runs on, or stores immediate_exit to for     *)
(* another vCPU, is mapped.                                                *)
VcpuRunPageMapped ==
  \A i \in Vcpu :
    /\ pc[i] \in LoopPc => run_page[i] = "mapped"
    /\ pc[i] = "imm"    => run_page[idx[i]] = "mapped"

(* vmm.h:193-196: io_lock serialises the device callbacks, and no way out  *)
(* of the exit handler, the one that ends the thread included, keeps it.   *)
DeviceExclusion == \A i \in Vcpu : pc[i] = "device" <=> io_lock = i

(* vm.c:436-438: vcpu_handle_exit() never sees an exit_reason that KVM did *)
(* not write for this return, so no I/O is executed twice.                 *)
NoStaleExit == \A i \in Vcpu : pc[i] = "exit" => fresh[i]

(* smp.h:22-23: vm_run() returns OK only if every vCPU had a thread and    *)
(* all of them ended well, and otherwise what went wrong first in vCPU     *)
(* order.                                                                  *)
FirstError(r) ==
  \E i \in 0 .. started - 1 :
    /\ result[i] = r
    /\ \A j \in 0 .. i - 1 : result[j] = "OK"

ReturnCode ==
  pc[Main] \in DestroyPc =>
    IF rc = "OK"
    THEN started = NrVcpus /\ \A i \in Vcpu : result[i] = "OK"
    ELSE FirstError(rc) \/ (rc = "SYS" /\ started < NrVcpus)

(* smp.h:8 and :26: once any thread has asked for a stop, every vCPU       *)
(* leaves KVM_RUN, vm_run() returns and the process ends; this holds of    *)
(* the runs in which no request goes past an unpublished thread.           *)
StopReturns == [](skipped = {}) => (should_stop[0] ~> pc[Main] = "done")

(* The same without that condition, as smp.h:26 and smp.c:257 state it.    *)
StopAlwaysReturns == should_stop[0] ~> pc[Main] = "done"

(* smp.h:26: vm_request_stop() may be called in any thread; the thread it  *)
(* signals must then not have been joined.                                 *)
KickTargetsUnjoinedThread ==
  \A t \in Threads : pc[t] = "kill" => pc[idx[t]] # "joined"

(* console.c:110: when console_stop() has returned, the reader is blocked  *)
(* in read(stdin), so it does not store to a run page that is unmapped.    *)
ConsoleRunPageMapped == pc[Console] = "imm" => run_page[idx[Console]] = "mapped"
-----------------------------------------------------------------------------
(* The inductive invariant behind the safety properties.                   *)

Starting == {"sigaction", "create", "publish"}

(* Which threads exist, and which were joined, as told by main's loops.    *)
ThreadsBorn ==
  \A i \in Vcpu :
    pc[i] # "unborn" <=> i < started \/ (i = started /\ pc[Main] = "publish")

Reaped == IF pc[Main] \in DestroyPc THEN started ELSE mi

ThreadsJoined ==
  \A i \in Vcpu :
    pc[i] = "joined" <=> i < Reaped \/ (i = mi /\ pc[Main] = "reap")

MainLoops ==
  /\ pc[Main] \in Starting => started < NrVcpus /\ rc = "OK"
  /\ pc[Main] = "sigaction" => started = 0
  /\ pc[Main] \in StopPc => started < NrVcpus /\ rc = "SYS"
  /\ pc[Main] \in Starting \cup StopPc => mi = 0
  /\ pc[Main] = "join" => mi <= started
  /\ pc[Main] = "reap" => mi < started
  /\ pc[Main] \in {"unmap", "clear"} => mi < NrVcpus

PagesMapped ==
  pc[Main] \notin DestroyPc => \A i \in Vcpu : run_page[i] = "mapped"

(* The two windows of the stop race, one after the other.                  *)
ImmediateExitFollows ==
  \A i \in Vcpu :
    should_stop[i] =>
      immediate_exit[i] \/ OnItsWay(i, {"run", "imm"}) \/ pc[Main] \in DestroyPc

SignalFollows ==
  \A i \in Vcpu :
    immediate_exit[i] /\ pc[i] = "kvm" /\ i \notin skipped =>
      sig[i] \/ OnItsWay(i, {"started", "kill"})

(* What rc says of the threads reaped so far.                              *)
CodeSoFar ==
  pc[Main] \in {"join", "reap"} \cup DestroyPc =>
    IF rc = "OK"
    THEN started = NrVcpus /\ \A j \in 0 .. Reaped - 1 : result[j] = "OK"
    ELSE \/ rc = "SYS" /\ started < NrVcpus
         \/ \E i \in 0 .. Reaped - 1 :
              /\ result[i] = rc
              /\ \A j \in 0 .. i - 1 : result[j] = "OK"

IInv ==
  /\ TypeOK
  /\ ThreadsBorn /\ ThreadsJoined /\ MainLoops
  /\ PagesMapped
  /\ ImmediateExitFollows /\ SignalFollows
  /\ DeviceExclusion /\ NoStaleExit
  /\ CodeSoFar
=============================================================================
