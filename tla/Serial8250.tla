----------------------------- MODULE Serial8250 -----------------------------
(***************************************************************************)
(* The 16550A of src/devices/serial8250.c.  vCPU threads access it through *)
(* serial_read() and serial_write(), the console thread pushes received    *)
(* bytes through serial8250_push_rx(); each holds s->lock from its first   *)
(* access to the state to the end of update_irq(), so each is one action.  *)
(*                                                                         *)
(* Registers are reduced to the bits that control anything: the divisor    *)
(* latch, the scratch register and the modem lines are left out, and       *)
(* accesses to them are the actions that only run update_irq().            *)
(***************************************************************************)
EXTENDS Naturals, Sequences

CONSTANTS
  RxBuf,   (* SERIAL_RX_BUF, the slots of the receive ring                 *)
  Byte,    (* the bytes that travel                                        *)
  Idle     (* 0, in empty slots and read from an empty FIFO                *)

ASSUME RxBufAssumption == RxBuf \in Nat /\ RxBuf > 1

VARIABLES
  ier,           (* the interrupts enabled, a subset of {"RDI", "THRI"}    *)
  iir,           (* s->iir as last computed: its id and its FIFO bits      *)
  fcr,           (* UART_FCR_ENABLE                                        *)
  lcr,           (* plain; dlab; or conf_b, 0xBF, which has DLAB set too   *)
  mcr,           (* a subset of {"OUT2", "LOOP"}                           *)
  rx_buf, rx_head, rx_tail,
  thri_pending,
  irq_level,     (* the level last passed to irq_set                       *)
  outcome        (* history: what the last operation did to the ring, as   *)
                 (* in RxFifo                                              *)

ring   == <<rx_buf, rx_head, rx_tail>>
serial == <<ier, iir, fcr, lcr, mcr, ring, thri_pending, irq_level, outcome>>

Slots == 0 .. RxBuf - 1
Ids   == {"NO_INT", "THRI", "RDI"}

TypeOK ==
  /\ ier \subseteq {"RDI", "THRI"}
  /\ iir \in [id : Ids, fifo : BOOLEAN]
  /\ fcr \in BOOLEAN
  /\ lcr \in {"plain", "dlab", "conf_b"}
  /\ mcr \subseteq {"OUT2", "LOOP"}
  /\ rx_buf \in [Slots -> Byte \cup {Idle}]
  /\ rx_head \in Slots /\ rx_tail \in Slots
  /\ thri_pending \in BOOLEAN
  /\ irq_level \in BOOLEAN
  /\ outcome \in Byte \cup {Idle, "stored", "full", "cleared", "none"}

SerialInit ==
  /\ ier = {} /\ fcr = FALSE /\ lcr = "plain" /\ mcr = {}
  /\ iir = [id |-> "NO_INT", fifo |-> FALSE]
  /\ rx_buf = [k \in Slots |-> Idle] /\ rx_head = 0 /\ rx_tail = 0
  /\ thri_pending = FALSE
  /\ irq_level = FALSE
  /\ outcome = "none"

-----------------------------------------------------------------------------

Dlab == lcr \in {"dlab", "conf_b"}

(* Received data comes before an empty transmitter.                        *)
Pending(enabled, empty, thri) ==
  CASE "RDI" \in enabled /\ ~empty -> "RDI"
    [] ~("RDI" \in enabled /\ ~empty) /\ "THRI" \in enabled /\ thri -> "THRI"
    [] OTHER -> "NO_INT"

(* Mutant: the interrupt line follows MCR alone.                           *)
update_irq_from_mcr ==
  /\ iir' = [id   |-> Pending(ier', rx_head' = rx_tail', thri_pending'),
             fifo |-> fcr']
  /\ irq_level' = ("OUT2" \in mcr' /\ "LOOP" \notin mcr')

(* The last statement of every operation, on the state it leaves.          *)
update_irq ==
  /\ iir' = [id   |-> Pending(ier', rx_head' = rx_tail', thri_pending'),
             fifo |-> fcr']
  /\ irq_level' = (iir'.id # "NO_INT" /\ "OUT2" \in mcr' /\ "LOOP" \notin mcr')

(* Mutant: the ring may fill up to its last slot and then looks empty.     *)
RingPutLastSlot(c) ==
  /\ rx_buf' = [rx_buf EXCEPT ![rx_head] = c]
  /\ rx_head' = (rx_head + 1) % RxBuf
  /\ outcome' = "stored"
  /\ UNCHANGED rx_tail

(* Mutant: the head does not wrap around.                                  *)
RingPutUnwrapped(c) ==
  IF rx_head + 1 # rx_tail
  THEN /\ rx_buf' = [rx_buf EXCEPT ![rx_head] = c]
       /\ rx_head' = rx_head + 1
       /\ outcome' = "stored"
       /\ UNCHANGED rx_tail
  ELSE outcome' = "full" /\ UNCHANGED ring

(* Append c to the ring, or drop it when all slots but one are taken.      *)
RingPut(c) ==
  LET next == (rx_head + 1) % RxBuf IN
  IF next # rx_tail
  THEN /\ rx_buf' = [rx_buf EXCEPT ![rx_head] = c]
       /\ rx_head' = next
       /\ outcome' = "stored"
       /\ UNCHANGED rx_tail
  ELSE outcome' = "full" /\ UNCHANGED ring

(* The operation does not concern the ring; a FIFO reset empties it.       *)
RingUntouched == outcome' = "none" /\ UNCHANGED ring

RingClear ==
  /\ rx_head' = 0 /\ rx_tail' = 0 /\ UNCHANGED rx_buf
  /\ outcome' = "cleared"

(* Mutant: no update_irq() after the push.                                 *)
PushRxSilently(c) ==
  /\ RingPut(c)
  /\ UNCHANGED <<ier, iir, fcr, lcr, mcr, thri_pending, irq_level>>

(* The host: serial8250_push_rx().                                         *)
PushRx(c) ==
  /\ RingPut(c)
  /\ UNCHANGED <<ier, fcr, lcr, mcr, thri_pending>>
  /\ update_irq

(* The guest: serial_read() of one byte at each offset.                    *)
ReadRx ==
  /\ IF Dlab
     THEN outcome' = "none" /\ UNCHANGED rx_tail
     ELSE IF rx_head # rx_tail
     THEN /\ outcome' = rx_buf[rx_tail]
          /\ rx_tail' = (rx_tail + 1) % RxBuf
     ELSE /\ outcome' = Idle
          /\ UNCHANGED rx_tail
  /\ UNCHANGED <<ier, fcr, lcr, mcr, rx_buf, rx_head, thri_pending>>
  /\ update_irq

(* Reading IIR acknowledges the THRI it reports.                           *)
ReadIir ==
  /\ thri_pending' = (thri_pending /\ (lcr = "conf_b" \/ iir.id # "THRI"))
  /\ RingUntouched
  /\ UNCHANGED <<ier, fcr, lcr, mcr>>
  /\ update_irq

(* IER, LCR, MCR, LSR, MSR and SCR are read without side effect; the same  *)
(* holds of writes to LSR, MSR and SCR.                                    *)
AccessPlain ==
  /\ RingUntouched
  /\ UNCHANGED <<ier, fcr, lcr, mcr, thri_pending>>
  /\ update_irq

(* serial_write() of one byte.  In loopback the byte comes back through    *)
(* the ring instead of leaving for the host.                               *)
WriteTx(c) ==
  /\ IF ~Dlab /\ "LOOP" \in mcr THEN RingPut(c) ELSE RingUntouched
  /\ thri_pending' = (thri_pending \/ ~Dlab)
  /\ UNCHANGED <<ier, fcr, lcr, mcr>>
  /\ update_irq

(* Mutant: enabling THRI does not ask for the interrupt.                   *)
WriteIerNoStart(v) ==
  /\ ier' = IF Dlab THEN ier ELSE v
  /\ RingUntouched
  /\ UNCHANGED <<fcr, lcr, mcr, thri_pending>>
  /\ update_irq

WriteIer(v) ==
  /\ IF Dlab
     THEN UNCHANGED <<ier, thri_pending>>
     ELSE /\ thri_pending' = (thri_pending \/ "THRI" \in v \ ier)
          /\ ier' = v
  /\ RingUntouched
  /\ UNCHANGED <<fcr, lcr, mcr>>
  /\ update_irq

(* Mutant: no update_irq() after a FIFO reset.                             *)
WriteFcrSilently(enable, clear_rx) ==
  /\ fcr' = IF lcr = "conf_b" THEN fcr ELSE enable
  /\ IF lcr # "conf_b" /\ clear_rx
     THEN RingClear ELSE RingUntouched
  /\ UNCHANGED <<ier, iir, lcr, mcr, thri_pending, irq_level>>

WriteFcr(enable, clear_rx) ==
  /\ IF lcr = "conf_b"
     THEN UNCHANGED fcr /\ RingUntouched
     ELSE /\ fcr' = enable
          /\ IF clear_rx THEN RingClear ELSE RingUntouched
  /\ UNCHANGED <<ier, lcr, mcr, thri_pending>>
  /\ update_irq

WriteLcr(v) ==
  /\ lcr' = v
  /\ RingUntouched
  /\ UNCHANGED <<ier, fcr, mcr, thri_pending>>
  /\ update_irq

WriteMcr(v) ==
  /\ mcr' = v
  /\ RingUntouched
  /\ UNCHANGED <<ier, fcr, lcr, thri_pending>>
  /\ update_irq

GuestAccess ==
  \/ ReadRx \/ ReadIir \/ AccessPlain
  \/ \E c \in Byte : WriteTx(c)
  \/ \E v \in SUBSET {"RDI", "THRI"} : WriteIer(v)
  \/ \E e, r \in BOOLEAN : WriteFcr(e, r)
  \/ \E v \in {"plain", "dlab", "conf_b"} : WriteLcr(v)
  \/ \E v \in SUBSET {"OUT2", "LOOP"} : WriteMcr(v)

SerialNext == GuestAccess \/ \E c \in Byte : PushRx(c)

SerialSpec == SerialInit /\ [][SerialNext]_serial

-----------------------------------------------------------------------------

(* The bytes in the ring, oldest first.                                    *)
RxCount == (rx_head + RxBuf - rx_tail) % RxBuf
RxQueue == [k \in 1 .. RxCount |-> rx_buf[(rx_tail + k - 1) % RxBuf]]

Fifo == INSTANCE RxFifo WITH queue <- RxQueue, Capacity <- RxBuf - 1

(* The ring of serial8250.c:104-116, :161-164, :236 and :289-304, used by  *)
(* the console thread and the vCPU threads, is the bounded queue of RxFifo: *)
(* no byte is overtaken, read twice, or lost other than by arriving last   *)
(* at a full queue or by a FIFO reset.                                     *)
RingIsFifo == Fifo!Spec

(* Between two operations IIR and the interrupt line are those of the      *)
(* current registers and FIFO: no operation changes what they depend on    *)
(* and leaves them stale (serial8250.c:77-102).                            *)
InterruptFresh ==
  /\ iir.id = Pending(ier, rx_head = rx_tail, thri_pending)
  /\ iir.fifo = fcr
  /\ irq_level <=> iir.id # "NO_INT" /\ "OUT2" \in mcr /\ "LOOP" \notin mcr
=============================================================================
