--------------------------------- MODULE Rtc ---------------------------------
(***************************************************************************)
(* The CMOS clock of src/devices/rtc.c: no clock runs in it, every read of *)
(* a time register asks the host for the time anew.  vm.io_lock is held    *)
(* around every access.  The time is reduced to seconds and minutes, the   *)
(* other bytes to those the code tells apart.                              *)
(*                                                                         *)
(* External: the host's clock, and the guest (mc146818_avoid_UIP() and     *)
(* mc146818_set_time() of Linux), which holds a lock of its own around a   *)
(* reading, so that only the clock comes between its accesses.             *)
(***************************************************************************)
EXTENDS Naturals, Sequences, FiniteSets

CONSTANTS
  Seconds,       (* the seconds of a minute                                *)
  Minutes        (* the minutes after which the clock starts again         *)

VARIABLES
  now,           (* external: the host's time                              *)
  index, cmos,   (* g_rtc                                                  *)
  got,           (* external: what the reading has returned so far         *)
  phase,         (* external: what the guest does next                     *)
  time,          (* external: the time the guest took from the reading     *)
  seen           (* history: the host's times since the reading began      *)

rtc == <<now, index, cmos, got, phase, time, seen>>

Reg  == {"seconds", "minutes", "A", "C", "D", "ram"}
Time == [sec : 0 .. Seconds - 1, min : 0 .. Minutes - 1]

RtcTypeOK ==
  /\ now \in Time
  /\ index \in Reg /\ cmos \in [Reg -> {0, 1}]
  /\ Len(got) <= 5
  /\ phase \in {"select", "data", "done"}
  /\ seen \subseteq Time

RtcInit ==
  /\ now \in Time
  /\ index = "seconds"
  /\ cmos = [r \in Reg |-> IF r = "D" THEN 1 ELSE 0]     \* VRT; UIP is 0
  /\ got = <<>> /\ phase = "done" /\ time = now /\ seen = {now}

-----------------------------------------------------------------------------

(* Mutant: the seconds are those of the CMOS byte.                         *)
rtc_read_reg_stored(reg) ==
  CASE reg = "minutes" -> now.min
    [] reg = "C"       -> 0
    [] OTHER           -> cmos[reg]

rtc_read_reg(reg) ==
  CASE reg = "seconds" -> now.sec
    [] reg = "minutes" -> now.min
    [] reg = "C"       -> 0
    [] OTHER           -> cmos[reg]

(* Bit 7 of the index, the NMI mask, is dropped.                           *)
SetIndex(v) == index' = v.reg /\ UNCHANGED cmos

(* Time registers are bytes like others to a write; C and D are read-only. *)
SetByte(v) ==
  /\ cmos' = IF index \in {"C", "D"} THEN cmos ELSE [cmos EXCEPT ![index] = v]
  /\ UNCHANGED index

-----------------------------------------------------------------------------

(* A reading, register by register.                                        *)
Reading == <<"seconds", "A", "seconds", "minutes", "A", "seconds">>

(* The seconds are still those read first, and no update is in progress.   *)
Agrees(reg, v) ==
  CASE reg = "seconds" -> v = Append(got, v)[1]
    [] reg = "A"       -> v = 0
    [] OTHER           -> TRUE

(* A reading takes less than a minute.                                     *)
Tick ==
  /\ phase # "done" => Cardinality(seen) < Seconds
  /\ now' = IF now.sec + 1 < Seconds
            THEN [now EXCEPT !.sec = @ + 1]
            ELSE [sec |-> 0, min |-> (now.min + 1) % Minutes]
  /\ seen' = IF phase = "done" THEN seen ELSE seen \cup {now'}
  /\ UNCHANGED <<index, cmos, got, phase, time>>

Select ==
  /\ phase \in {"select", "done"}
  /\ \E nmi \in BOOLEAN : SetIndex([reg |-> Reading[Len(got) + 1], nmi |-> nmi])
  /\ phase' = "data"
  /\ seen' = IF phase = "done" THEN {now} ELSE seen
  /\ UNCHANGED <<now, got, time>>

(* The guest begins anew when what it read does not agree.                 *)
ReadByte ==
  /\ phase = "data"
  /\ LET v == rtc_read_reg(index) IN
     \/ /\ ~Agrees(index, v)
        /\ phase' = "select" /\ got' = <<>> /\ seen' = {now}
        /\ UNCHANGED time
     \/ /\ Agrees(index, v) /\ Len(got) < 5
        /\ phase' = "select" /\ got' = Append(got, v)
        /\ UNCHANGED <<time, seen>>
     \/ /\ Agrees(index, v) /\ Len(got) = 5
        /\ phase' = "done" /\ got' = <<>>
        /\ time' = [sec |-> v, min |-> got[4]]
        /\ UNCHANGED seen
  /\ UNCHANGED <<now, index, cmos>>

(* The guest sets the clock or its own bytes; it keeps bit UIP of A.       *)
Write ==
  /\ phase = "done"
  /\ \/ \E r \in Reg, nmi \in BOOLEAN : SetIndex([reg |-> r, nmi |-> nmi])
     \/ \E v \in IF index = "A" THEN {0} ELSE {0, 1} : SetByte(v)
  /\ UNCHANGED <<now, got, phase, time, seen>>

RtcNext == Tick \/ Select \/ ReadByte \/ Write

RtcSpec == RtcInit /\ [][RtcNext]_rtc

-----------------------------------------------------------------------------

(* rtc.c:12, :66: every register is read at another time, and the guest    *)
(* can write bytes where the time is read; still the time the guest takes  *)
(* was the host's at one moment of the reading.                            *)
ReadingIsInstant == phase = "done" => time \in seen
=============================================================================
