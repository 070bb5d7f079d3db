---------------------------- MODULE VmRun_proofs ----------------------------
(* Safety of VmRun for every number of vCPUs, from the invariant IInv.     *)
EXTENDS VmRun, TLAPS

USE NrVcpusAssumption, ThreadsAssumption DEF NrVcpusAssumption, ThreadsAssumption

(* The places of a vCPU thread, of main and of the console thread are      *)
(* places.                                                                 *)
LEMMA PcSets ==
  /\ StopPc \subseteq VcpuPc /\ StopPc \subseteq MainPc /\ StopPc \subseteq ConsolePc
  /\ {"stop", "run", "imm", "started", "kill"} = StopPc
  /\ LoopPc \cup {"dead", "joined"} \subseteq VcpuPc
  /\ {"sigaction", "create", "publish", "join", "reap", "unmap", "clear", "done"} \subseteq MainPc
  /\ "ended" \in ConsolePc
  /\ {"check", "enter", "kvm", "exit", "lock", "device"} = LoopPc
  BY DEF StopPc, VcpuPc, LoopPc, MainPc, DestroyPc, ConsolePc

(* Moving thread t to a place of its own keeps the program counters typed. *)
LEMMA PcUpdate ==
  ASSUME PcOK,
         NEW t \in Threads,
         NEW v,
         t \in Vcpu => v \in VcpuPc,
         t = Main => v \in MainPc,
         t = Console => v \in ConsolePc,
         pc' = [pc EXCEPT ![t] = v]
  PROVE  PcOK'
  BY DEF PcOK, Threads


(* Main moves and moves vCPU i with it (pthread_create, pthread_join).      *)
LEMMA PcUpdateTwo ==
  ASSUME PcOK,
         NEW v \in MainPc,
         NEW i \in Vcpu,
         NEW w \in VcpuPc,
         pc' = [pc EXCEPT ![Main] = v, ![i] = w]
  PROVE  PcOK'
  BY DEF PcOK, Threads

(* No step takes a thread to a place that is not its own.                  *)
LEMMA PcStep ==
  ASSUME TypeOK, MainLoops, [Next]_vars
  PROVE  PcOK'
  <1>. PcOK BY DEF TypeOK
  <1>. USE PcSets, PcUpdate
  <1>1. ASSUME NEW t \in Threads, SetShouldStop(t) PROVE PcOK'
    BY <1>1 DEF SetShouldStop, Goto, StopRest, mainVar, kvmVar, Threads
  <1>2. ASSUME NEW t \in Threads, TestRun(t) PROVE PcOK'
    BY <1>2 DEF TestRun, Goto, StopRest, shared, mainVar, kvmVar, Threads
  <1>3. ASSUME NEW t \in Threads, SetImmediateExit(t) PROVE PcOK'
    BY <1>3 DEF SetImmediateExit, Goto, StopRest, mainVar, kvmVar, Threads
  <1>4. ASSUME NEW t \in Threads, TestStarted(t) PROVE PcOK'
    BY <1>4 DEF TestStarted, NextTarget, AfterStop, StopRest, mainVar, kvmVar, Threads
  <1>5. ASSUME NEW t \in Threads, Kick(t) PROVE PcOK'
    BY <1>5 DEF Kick, NextTarget, AfterStop, StopRest, mainVar, kvmVar, Threads
  <1>6. ASSUME NEW i \in Vcpu, CheckShouldStop(i) PROVE PcOK'
    BY <1>6 DEF CheckShouldStop, LoopReturns, LoopContinues, BeginStop, LoopRest, mainVar, kvmVar, Threads
  <1>7. ASSUME NEW i \in Vcpu, EnterKvm(i) PROVE PcOK'
    BY <1>7 DEF EnterKvm, LoopContinues, LoopRest, mainVar, kvmVar, Threads
  <1>8. ASSUME NEW i \in Vcpu, EntryRefused(i) PROVE PcOK'
    BY <1>8 DEF EntryRefused, Interrupted, LoopContinues, LoopRest, mainVar, kvmVar, Threads
  <1>9. ASSUME NEW i \in Vcpu, KickedOut(i) PROVE PcOK'
    BY <1>9 DEF KickedOut, Interrupted, LoopContinues, LoopRest, mainVar, kvmVar, Threads
  <1>10. ASSUME NEW i \in Vcpu, ApWoken(i) PROVE PcOK'
    BY <1>10 DEF ApWoken, Interrupted, LoopContinues, LoopRest, mainVar, kvmVar, Threads
  <1>11. ASSUME NEW i \in Vcpu, GuestExit(i) PROVE PcOK'
    BY <1>11 DEF GuestExit, LoopContinues, LoopRest, mainVar, kvmVar, Threads
  <1>12. ASSUME NEW i \in Vcpu, KvmRunFails(i) PROVE PcOK'
    BY <1>12 DEF KvmRunFails, LoopReturns, BeginStop, LoopRest, mainVar, kvmVar, Threads
  <1>13. ASSUME NEW i \in Vcpu, HandleExit(i) PROVE PcOK'
    BY <1>13 DEF HandleExit, LoopReturns, LoopContinues, BeginStop, LoopRest, mainVar, kvmVar, Threads
  <1>14. ASSUME NEW i \in Vcpu, LockIo(i) PROVE PcOK'
    BY <1>14 DEF LockIo, LoopContinues, LoopRest, mainVar, kvmVar, Threads
  <1>15. ASSUME NEW i \in Vcpu, Device(i) PROVE PcOK'
    BY <1>15 DEF Device, LoopReturns, LoopContinues, BeginStop, LoopRest, mainVar, kvmVar, Threads
  <1>16. ASSUME NEW i \in Vcpu, EatSignal(i) PROVE PcOK'
    BY <1>16 DEF EatSignal, PcOK
  <1>17. CASE Sigaction
    BY <1>17 DEF Sigaction, MainRest, kvmVar, Threads
  <1>18. CASE CreateThread
    <2>1. started \in Vcpu
      BY <1>18 DEF CreateThread, TypeOK, MainLoops, Starting, Vcpu
    <2>. QED
      BY <1>18, <2>1, PcUpdateTwo DEF CreateThread
  <1>19. CASE CreateThreadFails
    BY <1>19 DEF CreateThreadFails, BeginStop, MainRest, kvmVar, Threads
  <1>20. CASE PublishStarted
    BY <1>20 DEF PublishStarted, Goto, MainRest, kvmVar, Threads
  <1>21. CASE Join
    <2>1. mi \in Vcpu
      BY <1>21 DEF Join, TypeOK, Vcpu
    <2>. QED
      BY <1>21, <2>1, PcUpdateTwo DEF Join
  <1>22. CASE Reap
    BY <1>22 DEF Reap, Goto, MainRest, kvmVar, Threads
  <1>23. CASE RunReturns
    BY <1>23 DEF RunReturns, Goto, MainRest, kvmVar, Threads
  <1>24. CASE UnmapRun
    BY <1>24 DEF UnmapRun, Goto, MainRest, mainVar, kvmVar, Threads
  <1>25. CASE ClearRun
    BY <1>25 DEF ClearRun, Goto, MainRest, kvmVar, Threads
  <1>26. CASE ConsoleQuit
    BY <1>26 DEF ConsoleQuit, BeginStop, ConsoleRest, shared, mainVar, kvmVar, Threads
  <1>27. CASE ConsoleEof
    BY <1>27 DEF ConsoleEof, Goto, ConsoleRest, shared, mainVar, kvmVar, Threads
  <1>28. CASE UNCHANGED vars
    BY <1>28 DEF vars, PcOK
  <1>. QED
    BY <1>1, <1>2, <1>3, <1>4, <1>5, <1>6, <1>7, <1>8, <1>9, <1>10, <1>11, <1>12, <1>13, <1>14, <1>15, <1>16, <1>17, <1>18, <1>19, <1>20, <1>21, <1>22, <1>23, <1>24, <1>25, <1>26, <1>27, <1>28,
       Zenon DEF Next, MainStep, VcpuStep, GuestStep, StopStep, Threads

(* The loop index of vm_request_stop() stays below nr_vcpus.               *)
LEMMA NextTargetIndex ==
  ASSUME TypeOK, NEW t \in Threads, NextTarget(t)
  PROVE  idx' \in [Threads -> Vcpu]
  <1>1. idx[t] \in Int /\ idx[t] >= 0
    BY DEF TypeOK, Vcpu
  <1>2. idx[t] + 1 < NrVcpus => idx[t] + 1 \in Vcpu
    BY <1>1 DEF Vcpu
  <1>. QED
    BY <1>2 DEF NextTarget, TypeOK

(* vm_request_stop() starts with vCPU 0, which exists.                     *)
LEMMA BeginStopIndex ==
  ASSUME TypeOK, NEW t \in Threads, BeginStop(t)
  PROVE  idx' \in [Threads -> Vcpu]
  <1>1. 0 \in Vcpu
    BY DEF Vcpu
  <1>. QED
    BY <1>1 DEF BeginStop, TypeOK

(* The vCPU loop returns one of the results, and its index stays typed.    *)
LEMMA LoopReturnsType ==
  ASSUME TypeOK, NEW i \in Vcpu, NEW r \in Results, LoopReturns(i, r)
  PROVE  idx' \in [Threads -> Vcpu] /\ result' \in [Vcpu -> Results]
  BY BeginStopIndex DEF LoopReturns, TypeOK, Threads

(* Going on in the loop keeps results and indices typed.                   *)
LEMMA LoopContinuesType ==
  ASSUME TypeOK, NEW i \in Vcpu, NEW to, LoopContinues(i, to)
  PROVE  idx' \in [Threads -> Vcpu] /\ result' \in [Vcpu -> Results]
  BY DEF LoopContinues, TypeOK

(* Everything else stays in its type.                                      *)
LEMMA TypeStep ==
  ASSUME TypeOK, MainLoops, [Next]_vars
  PROVE  TypeOK'
  <1>. PcOK' BY PcStep
  <1>. "OK" \in Results /\ "SYS" \in Results /\ "GUEST" \in Results
    BY DEF Results
  <1>. USE DEF TypeOK
  <1>1. ASSUME NEW t \in Threads, SetShouldStop(t) PROVE TypeOK'
    BY <1>1 DEF SetShouldStop, Goto, StopRest, mainVar, kvmVar
  <1>2. ASSUME NEW t \in Threads, TestRun(t) PROVE TypeOK'
    BY <1>2 DEF TestRun, Goto, StopRest, shared, mainVar, kvmVar
  <1>3. ASSUME NEW t \in Threads, SetImmediateExit(t) PROVE TypeOK'
    BY <1>3 DEF SetImmediateExit, Goto, StopRest, mainVar, kvmVar
  <1>4. ASSUME NEW t \in Threads, TestStarted(t) PROVE TypeOK'
    BY <1>4, NextTargetIndex DEF TestStarted, StopRest, mainVar, kvmVar
  <1>5. ASSUME NEW t \in Threads, Kick(t) PROVE TypeOK'
    BY <1>5, NextTargetIndex DEF Kick, StopRest, mainVar, kvmVar
  <1>6. ASSUME NEW i \in Vcpu, CheckShouldStop(i) PROVE TypeOK'
    BY <1>6, LoopReturnsType, LoopContinuesType
    DEF CheckShouldStop, LoopRest, mainVar, kvmVar
  <1>7. ASSUME NEW i \in Vcpu, EnterKvm(i) PROVE TypeOK'
    BY <1>7 DEF EnterKvm, LoopContinues, LoopRest, mainVar, kvmVar
  <1>8. ASSUME NEW i \in Vcpu, EntryRefused(i) PROVE TypeOK'
    BY <1>8 DEF EntryRefused, Interrupted, LoopContinues, LoopRest, mainVar, kvmVar, Reasons
  <1>9. ASSUME NEW i \in Vcpu, KickedOut(i) PROVE TypeOK'
    BY <1>9 DEF KickedOut, Interrupted, LoopContinues, LoopRest, mainVar, kvmVar, Reasons
  <1>10. ASSUME NEW i \in Vcpu, ApWoken(i) PROVE TypeOK'
    BY <1>10 DEF ApWoken, Interrupted, LoopContinues, LoopRest, mainVar, kvmVar, Reasons
  <1>11. ASSUME NEW i \in Vcpu, GuestExit(i) PROVE TypeOK'
    BY <1>11 DEF GuestExit, LoopContinues, LoopRest, mainVar, kvmVar, Reasons
  <1>12. ASSUME NEW i \in Vcpu, KvmRunFails(i) PROVE TypeOK'
    BY <1>12, LoopReturnsType
    DEF KvmRunFails, LoopRest, mainVar, kvmVar
  <1>13. ASSUME NEW i \in Vcpu, HandleExit(i) PROVE TypeOK'
    BY <1>13, LoopReturnsType, LoopContinuesType
    DEF HandleExit, LoopRest, mainVar, kvmVar
  <1>14. ASSUME NEW i \in Vcpu, LockIo(i) PROVE TypeOK'
    BY <1>14 DEF LockIo, LoopContinues, LoopRest, mainVar, kvmVar, Vcpu
  <1>15. ASSUME NEW i \in Vcpu, Device(i) PROVE TypeOK'
    BY <1>15, LoopReturnsType, LoopContinuesType
    DEF Device, LoopRest, mainVar, kvmVar
  <1>16. ASSUME NEW i \in Vcpu, EatSignal(i) PROVE TypeOK'
    BY <1>16 DEF EatSignal, StopRest, mainVar, kvmVar
  <1>17. CASE Sigaction
    BY <1>17 DEF Sigaction, MainRest, kvmVar, Vcpu, Results
  <1>18. CASE CreateThread
    BY <1>18 DEF CreateThread, MainRest, mainVar, kvmVar
  <1>19. CASE CreateThreadFails
    BY <1>19, BeginStopIndex DEF CreateThreadFails, MainRest, kvmVar, Results, Threads
  <1>20. CASE PublishStarted
    BY <1>20 DEF PublishStarted, Goto, MainRest, kvmVar, Vcpu, MainLoops, Starting
  <1>21. CASE Join
    BY <1>21 DEF Join, MainRest, mainVar, kvmVar, Vcpu
  <1>22. CASE Reap
    BY <1>22 DEF Reap, Goto, MainRest, kvmVar, Vcpu, Results, MainLoops
  <1>23. CASE RunReturns
    BY <1>23 DEF RunReturns, Goto, MainRest, kvmVar, Vcpu
  <1>24. CASE UnmapRun
    BY <1>24 DEF UnmapRun, Goto, MainRest, mainVar, kvmVar, Vcpu, MainLoops
  <1>25. CASE ClearRun
    BY <1>25 DEF ClearRun, Goto, MainRest, kvmVar, Vcpu, MainLoops
  <1>26. CASE ConsoleQuit
    BY <1>26, BeginStopIndex DEF ConsoleQuit, ConsoleRest, shared, mainVar, kvmVar, Threads
  <1>27. CASE ConsoleEof
    BY <1>27 DEF ConsoleEof, Goto, ConsoleRest, shared, mainVar, kvmVar
  <1>28. CASE UNCHANGED vars
    BY <1>28 DEF vars, shared, mainVar, kvmVar
  <1>. QED
    BY <1>1, <1>2, <1>3, <1>4, <1>5, <1>6, <1>7, <1>8, <1>9, <1>10, <1>11, <1>12, <1>13, <1>14, <1>15, <1>16, <1>17, <1>18, <1>19, <1>20, <1>21, <1>22, <1>23, <1>24, <1>25, <1>26, <1>27, <1>28,
       Zenon DEF Next, MainStep, VcpuStep, GuestStep, StopStep, Threads

-----------------------------------------------------------------------------
(* What the steps of the other threads leave alone of the main thread's    *)
(* bookkeeping.                                                            *)

OthersStay(t) == \A s \in Threads \ {t} : pc'[s] = pc[s]

VcpuMoves(i) ==
  /\ pc[i] \notin {"unborn", "dead", "joined"}
  /\ pc'[i] \notin {"unborn", "joined"}
  /\ OthersStay(i)
  /\ \A j \in Vcpu \ {i} : result'[j] = result[j]
  /\ UNCHANGED <<run_page, mainVar>>

ConsoleMoves == OthersStay(Console) /\ UNCHANGED <<run_page, mainVar, result>>

MainStops ==
  /\ pc[Main] \in StopPc /\ pc'[Main] \in StopPc \cup {"join"}
  /\ OthersStay(Main)
  /\ UNCHANGED <<run_page, mainVar, result>>

(* A step of vm_request_stop() moves its caller only.                      *)
LEMMA StopStepMoves ==
  ASSUME TypeOK, NEW t \in Threads, StopStep(t)
  PROVE  /\ pc[t] \in StopPc
         /\ pc'[t] \in StopPc \cup {AfterStop(t)}
         /\ OthersStay(t)
         /\ UNCHANGED <<run_page, mainVar, result, kvmVar, io_lock, user_stop,
                        thread_started>>
  <1>. pc \in [Threads -> VcpuPc \cup MainPc \cup ConsolePc]
    BY DEF TypeOK, PcOK
  <1>. USE PcSets DEF OthersStay
  <1>1. CASE SetShouldStop(t)
    BY <1>1 DEF SetShouldStop, Goto, StopRest
  <1>2. CASE TestRun(t)
    BY <1>2 DEF TestRun, Goto, StopRest, shared
  <1>3. CASE SetImmediateExit(t)
    BY <1>3 DEF SetImmediateExit, Goto, StopRest
  <1>4. CASE TestStarted(t)
    BY <1>4 DEF TestStarted, NextTarget, StopRest
  <1>5. CASE Kick(t)
    BY <1>5 DEF Kick, NextTarget, StopRest
  <1>. QED
    BY <1>1, <1>2, <1>3, <1>4, <1>5 DEF StopStep

(* A step of a vCPU thread leaves every other thread where it is.          *)
LEMMA VcpuStepMoves ==
  ASSUME TypeOK, NEW i \in Vcpu, VcpuStep(i) \/ GuestStep(i)
  PROVE  VcpuMoves(i)
  <1>. /\ pc \in [Threads -> VcpuPc \cup MainPc \cup ConsolePc]
       /\ result \in [Vcpu -> Results]
       /\ i \in Threads
    BY DEF TypeOK, PcOK, Threads
  <1>. USE DEF VcpuMoves, OthersStay, LoopRest, LoopReturns, LoopContinues, BeginStop
  <1>1. CASE CheckShouldStop(i)
    BY <1>1 DEF CheckShouldStop
  <1>2. CASE EnterKvm(i)
    BY <1>2 DEF EnterKvm
  <1>3. CASE EntryRefused(i) \/ KickedOut(i) \/ ApWoken(i)
    BY <1>3 DEF EntryRefused, KickedOut, ApWoken, Interrupted
  <1>4. CASE GuestExit(i)
    BY <1>4 DEF GuestExit
  <1>5. CASE KvmRunFails(i)
    BY <1>5 DEF KvmRunFails
  <1>6. CASE HandleExit(i)
    BY <1>6 DEF HandleExit
  <1>7. CASE LockIo(i)
    BY <1>7 DEF LockIo
  <1>8. CASE Device(i)
    BY <1>8 DEF Device
  <1>9. CASE EatSignal(i)
    BY <1>9 DEF EatSignal, StopRest
  <1>10. CASE StopStep(i)
    BY <1>10, StopStepMoves DEF AfterStop, StopPc
  <1>. QED
    BY <1>1, <1>2, <1>3, <1>4, <1>5, <1>6, <1>7, <1>8, <1>9, <1>10
       DEF VcpuStep, GuestStep

(* A step of the console thread leaves every other thread where it is.     *)
LEMMA ConsoleStepMoves ==
  ASSUME TypeOK, ConsoleQuit \/ ConsoleEof \/ StopStep(Console)
  PROVE  ConsoleMoves
  <1>. pc \in [Threads -> VcpuPc \cup MainPc \cup ConsolePc]
    BY DEF TypeOK, PcOK
  <1>1. CASE ConsoleQuit \/ ConsoleEof
    BY <1>1 DEF ConsoleQuit, ConsoleEof, Goto, BeginStop, ConsoleRest,
                ConsoleMoves, OthersStay, Threads
  <1>2. CASE StopStep(Console)
    BY <1>2, StopStepMoves DEF ConsoleMoves, Threads
  <1>. QED
    BY <1>1, <1>2

(* Main's failing pthread_create() and its vm_request_stop() move main     *)
(* only.                                                                   *)
LEMMA MainStopMoves ==
  ASSUME TypeOK, StopStep(Main)
  PROVE  MainStops
  BY StopStepMoves DEF MainStops, AfterStop, Threads

-----------------------------------------------------------------------------
(* Main's loops know which threads exist and which were joined.            *)

Control == ThreadsBorn /\ ThreadsJoined /\ MainLoops /\ PagesMapped

(* Which threads exist and were joined, and where main's loops are, is     *)
(* kept by every step.                                                     *)
LEMMA ControlStep ==
  ASSUME TypeOK, Control, [Next]_vars
  PROVE  Control'
  <1>. /\ pc \in [Threads -> VcpuPc \cup MainPc \cup ConsolePc]
       /\ started \in 0..NrVcpus /\ mi \in 0..NrVcpus
       /\ thread_started \in [Vcpu -> BOOLEAN]
       /\ run_page \in [Vcpu -> {"mapped", "unmapped", "null"}]
    BY DEF TypeOK, PcOK
  <1>. USE DEF Control, ThreadsBorn, ThreadsJoined, MainLoops, PagesMapped,
               Reaped, Starting, StopPc, DestroyPc, Threads, Vcpu
  <1>1. ASSUME NEW i \in Vcpu, VcpuMoves(i) PROVE Control'
    <2>1. pc'[Main] = pc[Main] /\ UNCHANGED <<run_page, started, mi, rc>>
      BY <1>1 DEF VcpuMoves, OthersStay, mainVar
    <2>2. \A j \in Vcpu : (pc'[j] = "unborn" <=> pc[j] = "unborn")
                         /\ (pc'[j] = "joined" <=> pc[j] = "joined")
      BY <1>1 DEF VcpuMoves, OthersStay
    <2>. QED
      BY <2>1, <2>2
  <1>2. CASE ConsoleMoves
    <2>1. pc'[Main] = pc[Main] /\ UNCHANGED <<run_page, started, mi, rc>>
      BY <1>2 DEF ConsoleMoves, OthersStay, mainVar
    <2>2. \A j \in Vcpu : pc'[j] = pc[j]
      BY <1>2 DEF ConsoleMoves, OthersStay
    <2>. QED
      BY <2>1, <2>2
  <1>3. CASE MainStops
    BY <1>3 DEF MainStops, OthersStay, mainVar
  <1>4. CASE Sigaction
    BY <1>4 DEF Sigaction
  <1>5. CASE CreateThread
    <2>1. /\ pc[Main] = "create" /\ pc'[Main] = "publish"
          /\ UNCHANGED <<run_page, started, mi, rc>>
      BY <1>5 DEF CreateThread, mainVar
    <2>2. \A j \in Vcpu : pc'[j] = IF j = started THEN "check" ELSE pc[j]
      BY <1>5 DEF CreateThread
    <2>. QED
      BY <2>1, <2>2
  <1>6. CASE CreateThreadFails
    BY <1>6 DEF CreateThreadFails, BeginStop
  <1>7. CASE PublishStarted
    BY <1>7 DEF PublishStarted, Goto
  <1>8. CASE Join
    BY <1>8 DEF Join, mainVar
  <1>9. CASE Reap
    BY <1>9 DEF Reap, Goto
  <1>10. CASE RunReturns
    BY <1>10 DEF RunReturns, Goto
  <1>11. CASE UnmapRun
    BY <1>11 DEF UnmapRun, Goto, mainVar
  <1>12. CASE ClearRun
    BY <1>12 DEF ClearRun, Goto
  <1>13. CASE UNCHANGED vars
    BY <1>13 DEF vars, mainVar
  <1>. QED
    BY <1>1, <1>2, <1>3, <1>4, <1>5, <1>6, <1>7, <1>8, <1>9, <1>10, <1>11,
       <1>12, <1>13, VcpuStepMoves, ConsoleStepMoves, MainStopMoves
       DEF Next, MainStep

-----------------------------------------------------------------------------
(* io_lock and the exit handler: what one vCPU does concerns its own       *)
(* program counter only, and nobody else touches io_lock or exit_reason.   *)

Handling == DeviceExclusion /\ NoStaleExit

(* A step that leaves a vCPU's place, lock and exit reason alone keeps     *)
(* what is known of its exit handling.                                     *)
LEMMA HandlingKept ==
  ASSUME TypeOK, Handling, UNCHANGED <<io_lock, fresh>>,
         \A i \in Vcpu : pc'[i] = pc[i] \/ (pc[i] # "device" /\ pc'[i] \notin {"device", "exit"})
  PROVE  Handling'
  BY DEF Handling, DeviceExclusion, NoStaleExit

(* io_lock stays with the vCPU in its device callback, and an exit being   *)
(* handled stays fresh.                                                    *)
LEMMA HandlingStep ==
  ASSUME TypeOK, Control, Handling, [Next]_vars
  PROVE  Handling'
  <1>. /\ pc \in [Threads -> VcpuPc \cup MainPc \cup ConsolePc]
       /\ fresh \in [Vcpu -> BOOLEAN]
       /\ io_lock \in Vcpu \cup {Free}
    BY DEF TypeOK, PcOK
  <1>. Vcpu \subseteq Threads /\ Main \in Threads /\ Console \in Threads
    BY DEF Threads
  <1>a. Free \notin Vcpu
    BY DEF Free, Vcpu
  <1>1. ASSUME NEW t \in Threads, StopStep(t) PROVE Handling'
    <2>1. AfterStop(t) \notin {"device", "exit"} /\ "device" \notin StopPc /\ "exit" \notin StopPc
      BY DEF AfterStop, StopPc
    <2>. QED
      BY <1>1, <2>1, StopStepMoves, HandlingKept DEF OthersStay, kvmVar
  <1>2. ASSUME NEW i \in Vcpu, VcpuStep(i) \/ GuestStep(i) PROVE Handling'
    <2>. USE <1>2 DEF Handling, DeviceExclusion, NoStaleExit, LoopContinues,
                      LoopReturns, BeginStop
    <2>1. CASE CheckShouldStop(i)
      BY <2>1 DEF CheckShouldStop, kvmVar
    <2>2. CASE EnterKvm(i)
      BY <2>2 DEF EnterKvm, kvmVar
    <2>3. CASE EntryRefused(i) \/ KickedOut(i) \/ ApWoken(i)
      BY <2>3 DEF EntryRefused, KickedOut, ApWoken, Interrupted
    <2>4. CASE GuestExit(i)
      BY <2>4 DEF GuestExit
    <2>5. CASE KvmRunFails(i)
      BY <2>5 DEF KvmRunFails, kvmVar
    <2>6. CASE HandleExit(i)
      BY <2>6 DEF HandleExit
    <2>7. CASE LockIo(i)
      BY <2>7, <1>a DEF LockIo, kvmVar
    <2>8. CASE Device(i)
      BY <2>8, <1>a DEF Device, kvmVar
    <2>9. CASE EatSignal(i)
      BY <2>9 DEF EatSignal, StopRest, kvmVar
    <2>10. CASE StopStep(i)
      BY <2>10, <1>1
    <2>. QED
      BY <2>1, <2>2, <2>3, <2>4, <2>5, <2>6, <2>7, <2>8, <2>9, <2>10
         DEF VcpuStep, GuestStep
  <1>3. CASE ConsoleQuit \/ ConsoleEof
    BY <1>3, HandlingKept
       DEF ConsoleQuit, ConsoleEof, Goto, BeginStop, ConsoleRest, kvmVar
  <1>4. CASE MainStep
    <2>. USE HandlingKept DEF MainRest, kvmVar
    <2>1. CASE Sigaction
      BY <2>1 DEF Sigaction
    <2>2. CASE CreateThread
      <3>1. started \in Vcpu /\ pc[started] = "unborn"
        BY <2>2 DEF CreateThread, Control, MainLoops, ThreadsBorn, Starting, Vcpu, TypeOK
      <3>. QED
        BY <2>2, <3>1 DEF CreateThread
    <2>3. CASE CreateThreadFails
      BY <2>3 DEF CreateThreadFails, BeginStop
    <2>4. CASE PublishStarted
      BY <2>4 DEF PublishStarted, Goto
    <2>5. CASE Join
      BY <2>5 DEF Join
    <2>6. CASE Reap \/ RunReturns \/ UnmapRun \/ ClearRun
      BY <2>6 DEF Reap, RunReturns, UnmapRun, ClearRun, Goto
    <2>7. CASE StopStep(Main)
      BY <2>7, <1>1
    <2>. QED
      BY <1>4, <2>1, <2>2, <2>3, <2>4, <2>5, <2>6, <2>7 DEF MainStep
  <1>5. CASE UNCHANGED vars
    BY <1>5, HandlingKept DEF vars, kvmVar
  <1>. QED
    BY <1>1, <1>2, <1>3, <1>4, <1>5 DEF Next
-----------------------------------------------------------------------------
(* vm_run()'s return code: what the reaped threads left does not change.   *)

(* What rc says of the threads reaped so far stays true.                   *)
LEMMA CodeStep ==
  ASSUME TypeOK, Control, CodeSoFar, [Next]_vars
  PROVE  CodeSoFar'
  <1>. /\ pc \in [Threads -> VcpuPc \cup MainPc \cup ConsolePc]
       /\ started \in 0..NrVcpus /\ mi \in 0..NrVcpus
       /\ result \in [Vcpu -> Results]
    BY DEF TypeOK, PcOK
  <1>. USE DEF CodeSoFar, Reaped, DestroyPc, Threads, Vcpu
  <1>1. ASSUME NEW i \in Vcpu, VcpuMoves(i) PROVE CodeSoFar'
    <2>1. pc'[Main] = pc[Main] /\ UNCHANGED <<started, mi, rc>>
      BY <1>1 DEF VcpuMoves, OthersStay, mainVar
    <2>2. \A j \in 0 .. Reaped - 1 : j \in Vcpu /\ pc[j] = "joined"
      BY DEF Control, ThreadsJoined
    <2>3. \A j \in 0 .. Reaped - 1 : result'[j] = result[j]
      BY <1>1, <2>2 DEF VcpuMoves
    <2>. QED
      BY <2>1, <2>3
  <1>2. CASE ConsoleMoves
    BY <1>2 DEF ConsoleMoves, OthersStay, mainVar
  <1>3. CASE MainStops
    BY <1>3 DEF MainStops, OthersStay, mainVar, StopPc, Control, MainLoops
  <1>4. CASE Sigaction
    BY <1>4 DEF Sigaction, MainRest, Control, MainLoops, Starting
  <1>5. CASE CreateThread
    BY <1>5 DEF CreateThread, mainVar
  <1>6. CASE CreateThreadFails
    BY <1>6 DEF CreateThreadFails, BeginStop
  <1>7. CASE PublishStarted
    BY <1>7 DEF PublishStarted, Goto, MainRest, Control, MainLoops, Starting
  <1>8. CASE Join
    BY <1>8 DEF Join, MainRest, mainVar
  <1>9. CASE Reap
    <2>1. mi \in Vcpu
      BY <1>9 DEF Reap, Goto, Control, MainLoops
    <2>2. Reaped = mi /\ Reaped' = mi + 1
      BY <1>9 DEF Reap, Goto
    <2>3. rc' = IF rc = "OK" THEN result[mi] ELSE rc
      BY <1>9 DEF Reap
    <2>4. UNCHANGED <<result, started>>
      BY <1>9 DEF Reap, MainRest
    <2>5. CASE rc = "OK" /\ result[mi] = "OK"
      BY <1>9, <2>1, <2>2, <2>3, <2>4, <2>5 DEF Reap, Goto
    <2>6. CASE rc = "OK" /\ result[mi] # "OK"
      BY <1>9, <2>1, <2>2, <2>3, <2>4, <2>6 DEF Reap, Goto
    <2>7. CASE rc # "OK"
      BY <1>9, <2>1, <2>2, <2>3, <2>4, <2>7 DEF Reap, Goto
    <2>. QED
      BY <2>5, <2>6, <2>7
  <1>10. CASE RunReturns
    BY <1>10 DEF RunReturns, Goto, MainRest
  <1>11. CASE UnmapRun
    BY <1>11 DEF UnmapRun, Goto, MainRest, mainVar
  <1>12. CASE ClearRun
    BY <1>12 DEF ClearRun, Goto, MainRest
  <1>13. CASE UNCHANGED vars
    BY <1>13 DEF vars, mainVar
  <1>. QED
    BY <1>1, <1>2, <1>3, <1>4, <1>5, <1>6, <1>7, <1>8, <1>9, <1>10, <1>11,
       <1>12, <1>13, VcpuStepMoves, ConsoleStepMoves, MainStopMoves
       DEF Next, MainStep

-----------------------------------------------------------------------------
(* The stop race, first window: should_stop without immediate_exit means   *)
(* that a thread is between the two stores.                                *)

(* A thread that is not at places W before or after a step, and leaves the *)
(* others where they are, does not change who is on its way.               *)
LEMMA OnItsWayKept ==
  ASSUME NEW W, NEW i \in Vcpu, NEW t \in Threads, OthersStay(t),
         \A s \in Threads \ {t} : idx'[s] = idx[s],
         pc[t] \notin W \/ idx[t] # i \/ (pc'[t] \in W /\ idx'[t] = i)
  PROVE  OnItsWay(i, W) => OnItsWay(i, W)'
  BY DEF OnItsWay, OthersStay

(* Main's own steps outside vm_request_stop() change no loop index and     *)
(* move no thread that is in it.                                           *)
LEMMA OnItsWayKeptByMain ==
  ASSUME TypeOK, Control, NEW W, W \subseteq StopPc, NEW i \in Vcpu,
         \/ Sigaction \/ CreateThread \/ CreateThreadFails \/ PublishStarted
         \/ Join \/ Reap \/ RunReturns \/ UnmapRun \/ ClearRun
  PROVE  OnItsWay(i, W) => OnItsWay(i, W)'
  <1>. /\ pc \in [Threads -> VcpuPc \cup MainPc \cup ConsolePc]
       /\ idx \in [Threads -> Vcpu]
    BY DEF TypeOK, PcOK
  <1>. SUFFICES ASSUME NEW t \in Threads, pc[t] \in W, idx[t] = i
                PROVE  pc'[t] \in W /\ idx'[t] = i
    BY DEF OnItsWay
  <1>. USE DEF StopPc
  <1>1. CASE Sigaction
    BY <1>1 DEF Sigaction
  <1>2. CASE CreateThread
    <2>1. started \in Vcpu /\ pc[started] = "unborn"
      BY <1>2 DEF CreateThread, Control, MainLoops, ThreadsBorn, Starting, Vcpu, TypeOK
    <2>. QED
      BY <1>2, <2>1 DEF CreateThread
  <1>3. CASE CreateThreadFails
    BY <1>3 DEF CreateThreadFails, BeginStop
  <1>4. CASE PublishStarted
    BY <1>4 DEF PublishStarted, Goto
  <1>5. CASE Join
    BY <1>5 DEF Join
  <1>6. CASE Reap \/ RunReturns \/ UnmapRun \/ ClearRun
    BY <1>6 DEF Reap, RunReturns, UnmapRun, ClearRun, Goto
  <1>. QED
    BY <1>1, <1>2, <1>3, <1>4, <1>5, <1>6


LoopStep(i) ==
  \/ CheckShouldStop(i) \/ EnterKvm(i) \/ EntryRefused(i) \/ KickedOut(i)
  \/ HandleExit(i) \/ LockIo(i) \/ Device(i)
  \/ GuestExit(i) \/ ApWoken(i) \/ KvmRunFails(i) \/ EatSignal(i)

(* The KVM_RUN loop of a vCPU stops nobody.                                *)
LEMMA LoopStepQuiet ==
  ASSUME TypeOK, NEW i \in Vcpu, LoopStep(i), NEW j \in Vcpu,
         NEW W, W \subseteq StopPc
  PROVE  /\ UNCHANGED <<should_stop, immediate_exit, skipped>>
         /\ OnItsWay(j, W) => OnItsWay(j, W)'
         /\ pc'[Main] = pc[Main]
  <1>. /\ pc \in [Threads -> VcpuPc \cup MainPc \cup ConsolePc]
       /\ idx \in [Threads -> Vcpu]
       /\ i \in Threads /\ Main \in Threads /\ i # Main
    BY DEF TypeOK, PcOK, Threads
  <1>1. UNCHANGED <<should_stop, immediate_exit, skipped>>
    BY DEF LoopStep, CheckShouldStop, EnterKvm, EntryRefused, KickedOut,
           HandleExit, LockIo, Device, GuestExit, ApWoken, KvmRunFails,
           Interrupted, LoopRest, EatSignal
  <1>2. CASE EatSignal(i)
    BY <1>1, <1>2 DEF EatSignal, OnItsWay
  <1>3. CASE ~EatSignal(i)
    <2>1. pc[i] \notin StopPc
      BY <1>3 DEF LoopStep, CheckShouldStop, EnterKvm, EntryRefused,
           KickedOut, HandleExit, LockIo, Device, GuestExit, ApWoken,
           KvmRunFails, StopPc
    <2>2. \A s \in Threads \ {i} : pc'[s] = pc[s] /\ idx'[s] = idx[s]
      BY <1>3 DEF LoopStep, CheckShouldStop, EnterKvm, EntryRefused,
           KickedOut, HandleExit, LockIo, Device, GuestExit, ApWoken,
           KvmRunFails, Interrupted, LoopReturns, LoopContinues, BeginStop
    <2>. QED
      BY <1>1, <2>1, <2>2, OnItsWayKept DEF OthersStay
  <1>. QED
    BY <1>2, <1>3

(* The first window: a stopped vCPU has immediate_exit set, or the request *)
(* is on its way to it.                                                    *)
LEMMA ImmediateExitStep ==
  ASSUME TypeOK, Control, ImmediateExitFollows, [Next]_vars
  PROVE  ImmediateExitFollows'
  <1>. /\ pc \in [Threads -> VcpuPc \cup MainPc \cup ConsolePc]
       /\ idx \in [Threads -> Vcpu]
       /\ should_stop \in [Vcpu -> BOOLEAN]
       /\ immediate_exit \in [Vcpu -> BOOLEAN]
       /\ {"run", "imm"} \subseteq StopPc
       /\ Main \in Threads
    BY DEF TypeOK, PcOK, StopPc, Threads
  <1>. SUFFICES ASSUME NEW i \in Vcpu, should_stop'[i], ~immediate_exit'[i],
                       pc'[Main] \notin DestroyPc
                PROVE  OnItsWay(i, {"run", "imm"})'
    BY DEF ImmediateExitFollows
  <1>0. ASSUME should_stop[i], ~immediate_exit[i], pc[Main] \notin DestroyPc
        PROVE  OnItsWay(i, {"run", "imm"})
    BY <1>0 DEF ImmediateExitFollows
  <1>1. ASSUME NEW t \in Threads, SetShouldStop(t)
        PROVE  OnItsWay(i, {"run", "imm"})'
    <2>1. CASE idx[t] = i
      BY <1>1, <2>1 DEF SetShouldStop, Goto, OnItsWay
    <2>2. CASE idx[t] # i
      BY <1>0, <1>1, <2>2 DEF SetShouldStop, Goto, OnItsWay, DestroyPc
    <2>. QED
      BY <2>1, <2>2
  <1>2. ASSUME NEW t \in Threads, TestRun(t)
        PROVE  OnItsWay(i, {"run", "imm"})'
    <2>1. pc[Main] \notin DestroyPc
      BY <1>2 DEF TestRun, Goto, DestroyPc
    <2>2. run_page[idx[t]] = "mapped"
      BY <2>1 DEF Control, PagesMapped
    <2>. QED
      BY <1>0, <1>2, <2>1, <2>2 DEF TestRun, Goto, OnItsWay, shared
  <1>3. ASSUME NEW t \in Threads, SetImmediateExit(t)
        PROVE  OnItsWay(i, {"run", "imm"})'
    <2>1. idx[t] # i
      BY <1>3 DEF SetImmediateExit
    <2>. QED
      BY <1>0, <1>3, <2>1 DEF SetImmediateExit, Goto, OnItsWay, DestroyPc
  <1>4. ASSUME NEW t \in Threads, TestStarted(t) \/ Kick(t)
        PROVE  OnItsWay(i, {"run", "imm"})'
    BY <1>0, <1>4 DEF TestStarted, Kick, NextTarget, OnItsWay, DestroyPc
  <1>5. ASSUME NEW j \in Vcpu, LoopStep(j)
        PROVE  OnItsWay(i, {"run", "imm"})'
    BY <1>0, <1>5, LoopStepQuiet
  <1>6. CASE ConsoleQuit \/ ConsoleEof
    BY <1>0, <1>6 DEF ConsoleQuit, ConsoleEof, Goto, BeginStop, ConsoleRest,
       shared, OnItsWay, Threads
  <1>7. CASE MainStep /\ ~StopStep(Main)
    <2>1. UNCHANGED <<should_stop, immediate_exit>>
      BY <1>7 DEF MainStep, Sigaction, CreateThread, CreateThreadFails,
         PublishStarted, Join, Reap, RunReturns, UnmapRun, ClearRun, MainRest
    <2>2. pc[Main] \notin DestroyPc
      BY <1>7 DEF MainStep, Sigaction, CreateThread, CreateThreadFails,
         PublishStarted, Join, Reap, RunReturns, UnmapRun, ClearRun, Goto,
         BeginStop, DestroyPc
    <2>. QED
      BY <1>0, <1>7, <2>1, <2>2, OnItsWayKeptByMain DEF MainStep
  <1>8. CASE UNCHANGED vars
    BY <1>0, <1>8 DEF vars, shared, OnItsWay
  <1>. QED
    BY <1>1, <1>2, <1>3, <1>4, <1>5, <1>6, <1>7, <1>8
       DEF Next, MainStep, VcpuStep, GuestStep, StopStep, LoopStep, Threads

(* Second window: a vCPU inside KVM_RUN with immediate_exit set has been   *)
(* signalled, is about to be, or was gone past before it was published.    *)
LEMMA SignalStep ==
  ASSUME TypeOK, Control, SignalFollows, [Next]_vars
  PROVE  SignalFollows'
  <1>. /\ pc \in [Threads -> VcpuPc \cup MainPc \cup ConsolePc]
       /\ idx \in [Threads -> Vcpu]
       /\ immediate_exit \in [Vcpu -> BOOLEAN]
       /\ sig \in [Vcpu -> BOOLEAN]
       /\ skipped \subseteq Vcpu
       /\ {"started", "kill"} \subseteq StopPc
       /\ Vcpu \subseteq Threads /\ Main \in Threads
    BY DEF TypeOK, PcOK, StopPc, Threads
  <1>. DEFINE Due(i) == OnItsWay(i, {"started", "kill"})
  <1>. SUFFICES ASSUME NEW i \in Vcpu, immediate_exit'[i], pc'[i] = "kvm",
                       i \notin skipped', ~sig'[i]
                PROVE  Due(i)'
    BY DEF SignalFollows
  <1>0. ASSUME immediate_exit[i], pc[i] = "kvm", i \notin skipped, ~sig[i]
        PROVE  Due(i)
    BY <1>0 DEF SignalFollows
  <1>a. ASSUME NEW t \in Threads, StopStep(t) PROVE pc[i] = "kvm"
    <2>1. AfterStop(t) # "kvm" /\ "kvm" \notin StopPc
      BY DEF AfterStop, StopPc
    <2>. QED
      BY <1>a, <2>1, StopStepMoves DEF OthersStay
  <1>1. ASSUME NEW t \in Threads, SetShouldStop(t) \/ TestRun(t) PROVE Due(i)'
    <2>1. pc[i] = "kvm"
      BY <1>1, <1>a DEF StopStep
    <2>. QED
      BY <1>0, <1>1, <2>1 DEF SetShouldStop, TestRun, Goto, OnItsWay, shared
  <1>2. ASSUME NEW t \in Threads, SetImmediateExit(t) PROVE Due(i)'
    <2>1. pc[i] = "kvm"
      BY <1>2, <1>a DEF StopStep
    <2>2. CASE idx[t] = i
      BY <1>2, <2>2 DEF SetImmediateExit, Goto, OnItsWay
    <2>3. CASE idx[t] # i
      BY <1>0, <1>2, <2>1, <2>3 DEF SetImmediateExit, Goto, OnItsWay
    <2>. QED
      BY <2>2, <2>3
  <1>3. ASSUME NEW t \in Threads, TestStarted(t) PROVE Due(i)'
    <2>1. pc[i] = "kvm"
      BY <1>3, <1>a DEF StopStep
    <2>2. CASE pc'[t] = "kill" /\ idx' = idx
      BY <1>0, <1>3, <2>1, <2>2 DEF TestStarted, NextTarget, OnItsWay
    <2>3. CASE ~(pc'[t] = "kill" /\ idx' = idx)
      <3>1. idx[t] # i /\ NextTarget(t)
        BY <1>3, <2>1, <2>3 DEF TestStarted
      <3>. QED
        BY <1>0, <1>3, <2>1, <3>1 DEF TestStarted, NextTarget, OnItsWay
    <2>. QED
      BY <2>2, <2>3
  <1>4. ASSUME NEW t \in Threads, Kick(t) PROVE Due(i)'
    <2>1. pc[i] = "kvm"
      BY <1>4, <1>a DEF StopStep
    <2>2. idx[t] # i
      BY <1>4, <2>1 DEF Kick
    <2>. QED
      BY <1>0, <1>4, <2>1, <2>2 DEF Kick, NextTarget, OnItsWay
  <1>5. ASSUME NEW j \in Vcpu, LoopStep(j) PROVE Due(i)'
    <2>1. UNCHANGED <<immediate_exit, skipped>> /\ (Due(i) => Due(i)')
      BY <1>5, LoopStepQuiet
    <2>2. pc[i] = "kvm" /\ sig'[i] = sig[i]
      BY <1>5, <2>1 DEF LoopStep, CheckShouldStop, EnterKvm, EntryRefused,
         KickedOut, HandleExit, LockIo, Device, GuestExit, ApWoken,
         KvmRunFails, Interrupted, EatSignal, LoopReturns, LoopContinues,
         BeginStop
    <2>. QED
      BY <1>0, <2>1, <2>2
  <1>6. CASE ConsoleQuit \/ ConsoleEof
    BY <1>0, <1>6 DEF ConsoleQuit, ConsoleEof, Goto, BeginStop, ConsoleRest,
       shared, OnItsWay, Threads
  <1>7. CASE MainStep /\ ~StopStep(Main)
    <2>1. UNCHANGED <<immediate_exit, sig, skipped>>
      BY <1>7 DEF MainStep, Sigaction, CreateThread, CreateThreadFails,
         PublishStarted, Join, Reap, RunReturns, UnmapRun, ClearRun, MainRest
    <2>2. pc[i] = "kvm"
      BY <1>7 DEF MainStep, Sigaction, CreateThread, CreateThreadFails,
         PublishStarted, Join, Reap, RunReturns, UnmapRun, ClearRun, Goto,
         BeginStop, Threads
    <2>. QED
      BY <1>0, <1>7, <2>1, <2>2, OnItsWayKeptByMain DEF MainStep
  <1>8. CASE UNCHANGED vars
    BY <1>0, <1>8 DEF vars, shared, OnItsWay
  <1>. QED
    BY <1>1, <1>2, <1>3, <1>4, <1>5, <1>6, <1>7, <1>8
       DEF Next, MainStep, VcpuStep, GuestStep, StopStep, LoopStep, Threads

-----------------------------------------------------------------------------

(* The states in which main() calls vm_run() satisfy the invariant.        *)
LEMMA Initially == Init => IInv
  <1>. SUFFICES ASSUME Init PROVE IInv
    OBVIOUS
  <1>1. /\ pc \in [Threads -> {"sigaction", "off", "read", "unborn"}]
        /\ \A i \in Vcpu : pc[i] = "unborn"
        /\ pc[Main] = "sigaction"
        /\ pc[Console] \in {"off", "read"}
    BY DEF Init, Threads
  <1>2. TypeOK
    <2>1. PcOK
      BY <1>1 DEF PcOK, VcpuPc, MainPc, ConsolePc
    <2>2. 0 \in Vcpu
      BY DEF Vcpu
    <2>3. idx \in [Threads -> Vcpu]
      BY <2>2 DEF Init
    <2>4. should_stop \in [Vcpu -> BOOLEAN] /\ immediate_exit \in [Vcpu -> BOOLEAN]
          /\ thread_started \in [Vcpu -> BOOLEAN] /\ fresh \in [Vcpu -> BOOLEAN]
          /\ sig \in [Vcpu -> BOOLEAN]
      BY DEF Init
    <2>5. /\ result \in [Vcpu -> Results] /\ rc \in Results
          /\ run_page \in [Vcpu -> {"mapped", "unmapped", "null"}]
          /\ exit_reason \in [Vcpu -> Reasons \cup {"none"}]
      BY DEF Init, Results
    <2>6. started = 0 /\ mi = 0 /\ user_stop = FALSE /\ io_lock = Free /\ skipped = {}
      BY DEF Init
    <2>7. started \in 0..NrVcpus /\ mi \in 0..NrVcpus
      BY <2>6
    <2>. QED
      BY <2>1, <2>3, <2>4, <2>5, <2>6, <2>7 DEF TypeOK
  <1>3. ThreadsBorn /\ ThreadsJoined /\ MainLoops /\ PagesMapped
    <2>1. /\ started = 0 /\ mi = 0 /\ rc = "OK"
          /\ \A i \in Vcpu : run_page[i] = "mapped"
      BY DEF Init
    <2>2. ThreadsBorn /\ ThreadsJoined
      BY <1>1, <2>1 DEF ThreadsBorn, ThreadsJoined, Reaped, DestroyPc, Vcpu
    <2>3. MainLoops /\ PagesMapped
      BY <1>1, <2>1 DEF Init, MainLoops, Starting, StopPc, PagesMapped
    <2>. QED
      BY <2>2, <2>3
  <1>4. ImmediateExitFollows /\ SignalFollows
    BY <1>1 DEF Init, ImmediateExitFollows, SignalFollows
  <1>5. DeviceExclusion /\ NoStaleExit
    BY <1>1 DEF Init, DeviceExclusion, NoStaleExit, Free, Vcpu
  <1>6. CodeSoFar
    BY <1>1 DEF CodeSoFar, DestroyPc
  <1>. QED
    BY <1>2, <1>3, <1>4, <1>5, <1>6 DEF IInv

(* IInv holds of every reachable state.                                    *)
THEOREM Invariance == Spec => []IInv
  <1>1. IInv /\ [Next]_vars => IInv'
    BY TypeStep, ControlStep, ImmediateExitStep, SignalStep, HandlingStep,
       CodeStep DEF IInv, Control, Handling
  <1>. QED
    BY Initially, <1>1, PTL DEF Spec

(* Every variable keeps its type.                                          *)
THEOREM TypeCorrect == Spec => []TypeOK
  <1>1. IInv => TypeOK
    BY DEF IInv
  <1>. QED
    BY <1>1, Invariance, PTL

(* smp.c:251-258: a vCPU told to stop while it is inside KVM_RUN has a     *)
(* signal pending or a stop request on its way, or it was signalled by     *)
(* nobody because vm_run() had not published its thread.                   *)
THEOREM StopReaches == Spec => []StopReachesKvm
  <1>1. IInv => StopReachesKvm
    <2>. SUFFICES ASSUME IInv, NEW i \in Vcpu, pc[i] = "kvm", should_stop[i],
                         i \notin skipped, ~sig[i]
                  PROVE  OnItsWay(i, StopPc \ {"stop"})
      BY DEF StopReachesKvm
    <2>1. pc[Main] \notin DestroyPc
      <3>1. started \in Int
        BY DEF IInv, TypeOK
      <3>. QED
        BY <3>1 DEF IInv, ThreadsBorn, ThreadsJoined, Reaped, DestroyPc, Vcpu
    <2>2. CASE immediate_exit[i]
      BY <2>2 DEF IInv, SignalFollows, OnItsWay, StopPc
    <2>3. CASE ~immediate_exit[i]
      BY <2>1, <2>3 DEF IInv, ImmediateExitFollows, OnItsWay, StopPc
    <2>. QED
      BY <2>2, <2>3
  <1>. QED
    BY <1>1, Invariance, PTL

(* smp.c:324-331 before vm.c:619-627: no vCPU thread exists when the VM is *)
(* destroyed, even if sigaction() or some pthread_create() failed.         *)
THEOREM Quiescence == Spec => []NoVcpuOutlivesRun
  <1>1. IInv => NoVcpuOutlivesRun
    BY DEF IInv, TypeOK, ThreadsBorn, ThreadsJoined, Reaped, NoVcpuOutlivesRun,
           DestroyPc, Vcpu
  <1>. QED
    BY <1>1, Invariance, PTL

(* No vCPU thread uses a kvm_run page that vm_destroy() has unmapped.      *)
THEOREM RunPages == Spec => []VcpuRunPageMapped
  <1>1. IInv => VcpuRunPageMapped
    <2>. SUFFICES ASSUME IInv, NEW i \in Vcpu, pc[i] \in LoopPc \cup {"imm"}
                  PROVE  \A j \in Vcpu : run_page[j] = "mapped"
      BY DEF VcpuRunPageMapped, IInv, TypeOK, Threads
    <2>1. pc[i] \notin {"unborn", "joined"}
      BY DEF LoopPc
    <2>2. pc[Main] \notin DestroyPc
      BY <2>1 DEF IInv, TypeOK, ThreadsBorn, ThreadsJoined, Reaped, DestroyPc, Vcpu
    <2>. QED
      BY <2>2 DEF IInv, PagesMapped
  <1>. QED
    BY <1>1, Invariance, PTL

(* vmm.h:193-196: io_lock is held exactly by the vCPU in a device callback. *)
THEOREM IoLock == Spec => []DeviceExclusion
  <1>1. IInv => DeviceExclusion
    BY DEF IInv
  <1>. QED
    BY <1>1, Invariance, PTL

(* vm.c:436-438: an interrupted KVM_RUN never replays the last exit.       *)
THEOREM ExitsAreFresh == Spec => []NoStaleExit
  <1>1. IInv => NoStaleExit
    BY DEF IInv
  <1>. QED
    BY <1>1, Invariance, PTL

(* smp.h:22-23: what vm_run() returns.                                     *)
THEOREM ReturnCodeCorrect == Spec => []ReturnCode
  <1>1. IInv => ReturnCode
    <2>. SUFFICES ASSUME IInv, pc[Main] \in DestroyPc
                  PROVE  IF rc = "OK"
                         THEN started = NrVcpus /\ \A i \in Vcpu : result[i] = "OK"
                         ELSE FirstError(rc) \/ (rc = "SYS" /\ started < NrVcpus)
      BY DEF ReturnCode
    <2>1. Reaped = started
      BY DEF Reaped
    <2>. QED
      BY <2>1 DEF IInv, CodeSoFar, FirstError, Vcpu
  <1>. QED
    BY <1>1, Invariance, PTL
=============================================================================
