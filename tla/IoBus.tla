-------------------------------- MODULE IoBus --------------------------------
(***************************************************************************)
(* The port and MMIO bus of src/vm.c: devices register address ranges      *)
(* before the guest runs, and then the vCPU threads look a device up and   *)
(* call it, once per element of a string instruction, under vm.io_lock.    *)
(*                                                                         *)
(* Addresses are uint64_t.  What a device does is external: it returns     *)
(* VMM_OK, or VMM_ERR_EXIT to end the VM.  An access that no device claims *)
(* touches only the guest's data and is left out with that data.           *)
(***************************************************************************)
EXTENDS Naturals, Sequences

CONSTANTS
  Vcpus,       (* the vCPU threads                                         *)
  Top,         (* 2^64                                                     *)
  MaxDevs,     (* VMM_MAX_PIO_DEVS or VMM_MAX_MMIO_DEVS                    *)
  Offered,     (* the devices that are offered for registration            *)
  MaxCount,    (* bound: elements of a string instruction                  *)
  MaxCalls,    (* bound: device calls in a behaviour                       *)
  Nobody

ASSUME OfferedAssumption ==
  \A d \in Offered : d.base \in Nat /\ d.len \in Nat \ {0} /\ d.base + d.len < Top

ASSUME SizesAssumption == Top \in Nat \ {0} /\ MaxDevs \in Nat /\ MaxCount \in Nat

ASSUME NobodyAssumption == Nobody \notin Vcpus

VARIABLES
  tbl,        (* the device table, in the order of registration            *)
  running,    (* the guest runs; registration is over                      *)
  io_lock,
  op,         (* per vCPU: the access being dispatched, if any             *)
  calls       (* history: the device calls so far                          *)

vars == <<tbl, running, io_lock, op, calls>>

Addr == 0 .. Top - 1
Idle == [at |-> "guest", addr |-> 0, count |-> 0, i |-> 0]

(* An access being dispatched, and a call of a device.                     *)
AccessRecord == [at : {"guest", "exit", "call", "unlock", "ended"},
                 addr : Addr, count : 0 .. MaxCount, i : 0 .. MaxCount]
CallRecord   == [by : Vcpus, dev : Offered, off : Nat, i : 1 .. MaxCount,
                 ret : {"OK", "EXIT"}]

TypeOK ==
  /\ tbl \in Seq(Offered) /\ Len(tbl) <= MaxDevs
  /\ running \in BOOLEAN
  /\ io_lock \in Vcpus \cup {Nobody}
  /\ op \in [Vcpus -> AccessRecord]
  /\ calls \in Seq(CallRecord)

Init ==
  /\ tbl = <<>> /\ running = FALSE
  /\ io_lock = Nobody
  /\ op = [v \in Vcpus |-> Idle]
  /\ calls = <<>>

-----------------------------------------------------------------------------

Plus(a, b) == (a + b) % Top

Overlap(d, e) == d.base < Plus(e.base, e.len) /\ e.base < Plus(d.base, d.len)

(* Mutant: only a range that begins inside another one is refused.         *)
io_register_by_start(d) ==
  /\ ~running /\ Len(tbl) < MaxDevs
  /\ \A k \in DOMAIN tbl :
       ~(tbl[k].base <= d.base /\ d.base < Plus(tbl[k].base, tbl[k].len))
  /\ tbl' = Append(tbl, d)
  /\ UNCHANGED <<running, io_lock, op, calls>>

(* io_register(), when it accepts the device.                              *)
io_register(d) ==
  /\ ~running /\ Len(tbl) < MaxDevs
  /\ \A k \in DOMAIN tbl : ~Overlap(d, tbl[k])
  /\ tbl' = Append(tbl, d)
  /\ UNCHANGED <<running, io_lock, op, calls>>

StartGuest ==
  /\ ~running /\ running' = TRUE
  /\ UNCHANGED <<tbl, io_lock, op, calls>>

Claims(k, addr) == addr >= tbl[k].base /\ addr < Plus(tbl[k].base, tbl[k].len)

(* io_lookup(): the first device that claims the address.                  *)
Claimed(addr) == \E k \in DOMAIN tbl : Claims(k, addr)
io_lookup(addr) ==
  tbl[CHOOSE k \in DOMAIN tbl :
        Claims(k, addr) /\ \A j \in 1 .. k - 1 : ~Claims(j, addr)]

(* External: the guest exits with an access of count elements.             *)
Access(v, addr, count) ==
  /\ running /\ op[v].at = "guest"
  /\ Len(calls) < MaxCalls
  /\ op' = [op EXCEPT ![v] = [at |-> "exit", addr |-> addr, count |-> count, i |-> 0]]
  /\ UNCHANGED <<tbl, running, io_lock, calls>>

(* vcpu_handle_exit() takes io_lock and looks the device up.               *)
Dispatch(v) ==
  /\ op[v].at = "exit" /\ io_lock = Nobody
  /\ io_lock' = v
  /\ op' = [op EXCEPT ![v].at = IF Claimed(op[v].addr) THEN "call" ELSE "unlock"]
  /\ UNCHANGED <<tbl, running, calls>>

Element(v, ret) ==
  LET dev == io_lookup(op[v].addr) IN
  calls' = Append(calls, [by |-> v, dev |-> dev, off |-> op[v].addr - dev.base,
                          i |-> op[v].i + 1, ret |-> ret])

(* Mutant: the lock is given up between two elements.                      *)
CallUnlocked(v, ret) ==
  /\ op[v].at = "call"
  /\ Element(v, ret)
  /\ op' = [op EXCEPT ![v].i = @ + 1,
                      ![v].at = IF ret = "OK" /\ op[v].i + 1 < op[v].count
                                THEN "exit" ELSE "unlock"]
  /\ io_lock' = IF op'[v].at = "exit" THEN Nobody ELSE io_lock
  /\ UNCHANGED <<tbl, running>>

(* Mutant: the loop goes on after VMM_ERR_EXIT.                            *)
CallOn(v, ret) ==
  /\ op[v].at = "call"
  /\ Element(v, ret)
  /\ op' = [op EXCEPT ![v].i = @ + 1,
                      ![v].at = IF op[v].i + 1 < op[v].count THEN "call" ELSE "unlock"]
  /\ UNCHANGED <<tbl, running, io_lock>>

(* One turn of the loop of io_bus_dispatch_pio(), or the only one of       *)
(* io_bus_dispatch_mmio().                                                 *)
Call(v, ret) ==
  /\ op[v].at = "call"
  /\ Element(v, ret)
  /\ op' = [op EXCEPT ![v].i = @ + 1,
                      ![v].at = IF ret = "OK" /\ op[v].i + 1 < op[v].count
                                THEN "call" ELSE "unlock"]
  /\ UNCHANGED <<tbl, running, io_lock>>

(* Unlock, and back to the guest or out of vcpu_run_loop().                *)
Return(v) ==
  /\ op[v].at = "unlock"
  /\ io_lock' = Nobody
  /\ op' = [op EXCEPT ![v] =
              [Idle EXCEPT !.at = IF op[v].i > 0 /\ calls[Len(calls)].ret = "EXIT"
                                  THEN "ended" ELSE "guest"]]
  /\ UNCHANGED <<tbl, running, calls>>

Next ==
  \/ \E d \in Offered : io_register(d)
  \/ StartGuest
  \/ \E v \in Vcpus :
       \/ \E addr \in Addr, count \in 1 .. MaxCount : Access(v, addr, count)
       \/ Dispatch(v)
       \/ \E ret \in {"OK", "EXIT"} : Call(v, ret)
       \/ Return(v)

Spec == Init /\ [][Next]_vars

-----------------------------------------------------------------------------

Covers(d, addr) == d.base <= addr /\ addr < d.base + d.len

(* Whatever was registered in whatever order, an address belongs to at     *)
(* most one device and io_lookup() finds that one (vm.c:30-39, :47-56).    *)
LookupExact ==
  \A addr \in Addr :
    LET owners == {k \in DOMAIN tbl : Covers(tbl[k], addr)} IN
    /\ Claimed(addr) <=> owners # {}
    /\ \A k \in owners : owners = {k} /\ io_lookup(addr) = tbl[k]

(* vmm.h:193-196: the elements of one string instruction reach the device  *)
(* one after the other, with no call of another vCPU in between.           *)
StringsAreWhole ==
  \A n \in 1 .. Len(calls) :
    calls[n].i > 1 =>
      /\ n > 1
      /\ calls[n - 1].by = calls[n].by /\ calls[n - 1].dev = calls[n].dev
      /\ calls[n - 1].i = calls[n].i - 1

(* vmm.h:98-100: a request to stop ends the access; the vCPU calls no      *)
(* device afterwards, not even for the rest of a string.                   *)
ExitEndsVcpu ==
  \A n \in 1 .. Len(calls) :
    calls[n].ret = "EXIT" => \A m \in n + 1 .. Len(calls) : calls[m].by # calls[n].by
=============================================================================
