---------------------------- MODULE SerialConsole ----------------------------
(***************************************************************************)
(* From the keyboard to the guest's tty and back: the console thread of    *)
(* src/console.c feeds the UART of Serial8250, whose interrupt line goes   *)
(* through the in-kernel IOAPIC to the guest's serial driver.              *)
(*                                                                         *)
(* The IOAPIC and the driver are external.  ISA interrupt 4 is edge        *)
(* triggered: only a rise of irq_level is latched, so the UART may lower   *)
(* and keep its line only in a way that leaves no request behind.  The     *)
(* driver is the 8250 driver the comments of serial8250.c describe: it     *)
(* sets OUT2 and the FIFO up, its handler reads IIR until nothing is       *)
(* pending, and it starts transmission by enabling THRI.                   *)
(***************************************************************************)
EXTENDS Serial8250

CONSTANTS
  CtrlA, KeyX,        (* keys of the escape: Ctrl-A, and x or X            *)
  MaxTyped,           (* bound: keys typed in a behaviour                  *)
  MaxTx               (* bound: bytes the guest sends in a behaviour       *)

ASSUME BytesAssumption == CtrlA \in Byte /\ KeyX \in Byte /\ CtrlA # KeyX

VARIABLES
  typed,      (* history: the keys read from stdin                         *)
  console,    (* the console thread: reading, pushing the second byte of   *)
              (* an escape, or ended by Ctrl-A x or by the end of input    *)
  esc,        (* console_thread(): esc                                     *)
  dropped,    (* history: a push found the ring full                       *)
  irr,        (* a rise of the line is latched and not yet served          *)
  driver,     (* where the guest's driver is                               *)
  received,   (* history: the bytes the driver took from the UART          *)
  cleared,    (* history: the bytes lost when the driver reset the FIFO    *)
  tosend, sent   (* the driver's transmit buffer, and bytes ever put in it *)

keyboard == <<typed, console, esc, dropped>>
guest    == <<irr, driver, received, cleared, tosend, sent>>
vars     == <<serial, keyboard, guest>>

Startup == {"fcr", "mcr", "ier"}

ConsoleTypeOK ==
  /\ TypeOK
  /\ typed \in Seq(Byte) /\ Len(typed) <= MaxTyped
  /\ console \in {"read", "push", "quit", "eof"}
  /\ esc \in BOOLEAN /\ dropped \in BOOLEAN
  /\ irr \in BOOLEAN
  /\ driver \in Startup \cup {"idle", "iir", "rx", "tx"}
  /\ received \in Seq(Byte) /\ Len(received) <= MaxTyped
  /\ cleared \in 0 .. MaxTyped
  /\ tosend \in 0 .. MaxTx /\ sent \in 0 .. MaxTx

Init ==
  /\ SerialInit
  /\ typed = <<>> /\ console = "read" /\ esc = FALSE /\ dropped = FALSE
  /\ irr = FALSE /\ driver = "fcr" /\ received = <<>> /\ cleared = 0
  /\ tosend = 0 /\ sent = 0

-----------------------------------------------------------------------------
(* The console thread.                                                     *)

Latch == irr' = (irr \/ (irq_level' /\ ~irq_level))      \* external: IOAPIC

Push(c) ==
  /\ PushRx(c)
  /\ dropped' = (dropped \/ (rx_head + 1) % RxBuf = rx_tail)
  /\ Latch
  /\ UNCHANGED <<driver, received, cleared, tosend, sent>>

(* Mutant: the Ctrl-A before another key is forgotten.                     *)
ReadKeyForgetsEscape(c) ==
  /\ console = "read" /\ Len(typed) < MaxTyped
  /\ typed' = Append(typed, c)
  /\ \/ /\ esc /\ c = KeyX
        /\ console' = "quit" /\ esc' = FALSE
        /\ UNCHANGED <<serial, dropped, guest>>
     \/ /\ ~esc /\ c = CtrlA
        /\ esc' = TRUE
        /\ UNCHANGED <<console, serial, dropped, guest>>
     \/ /\ IF esc THEN c # KeyX ELSE c # CtrlA
        /\ esc' = FALSE
        /\ Push(c)
        /\ UNCHANGED console

(* One turn of the loop: read a key and act on it.                         *)
ReadKey(c) ==
  /\ console = "read" /\ Len(typed) < MaxTyped
  /\ typed' = Append(typed, c)
  /\ \/ /\ esc /\ c = KeyX                      \* vm_request_stop(), break
        /\ console' = "quit" /\ esc' = FALSE
        /\ UNCHANGED <<serial, dropped, guest>>
     \/ /\ esc /\ c \notin {CtrlA, KeyX}          \* push both, Ctrl-A first
        /\ console' = "push" /\ esc' = FALSE
        /\ Push(CtrlA)
     \/ /\ ~esc /\ c = CtrlA
        /\ esc' = TRUE
        /\ UNCHANGED <<console, serial, dropped, guest>>
     \/ /\ esc <=> c = CtrlA
        /\ esc' = FALSE
        /\ Push(c)
        /\ UNCHANGED console

PushSecond ==
  /\ console = "push"
  /\ console' = "read"
  /\ Push(typed[Len(typed)])
  /\ UNCHANGED <<typed, esc>>

EndOfInput ==
  /\ console = "read"
  /\ console' = "eof"
  /\ UNCHANGED <<serial, typed, esc, dropped, guest>>

-----------------------------------------------------------------------------
(* External: the guest's driver.  The UART operations are those above.     *)

DriverMoves(from, to) ==
  /\ driver = from /\ driver' = to
  /\ Latch
  /\ UNCHANGED keyboard

SetUp ==
  /\ \/ /\ WriteFcr(TRUE, TRUE) /\ cleared' = RxCount
        /\ DriverMoves("fcr", "mcr")
     \/ /\ WriteMcr({"OUT2"}) /\ UNCHANGED cleared
        /\ DriverMoves("mcr", "ier")
     \/ /\ WriteIer({"RDI"}) /\ UNCHANGED cleared
        /\ DriverMoves("ier", "idle")
  /\ UNCHANGED <<received, tosend, sent>>

TakeInterrupt ==
  /\ driver = "idle" /\ irr
  /\ driver' = "iir" /\ irr' = FALSE
  /\ UNCHANGED <<serial, keyboard, received, cleared, tosend, sent>>

HandlerReadsIir ==
  /\ ReadIir
  /\ DriverMoves("iir", IF iir.id = "NO_INT" THEN "idle" ELSE "rx")
  /\ UNCHANGED <<received, cleared, tosend, sent>>

HandlerReceives ==                              \* while LSR reports DR
  /\ IF rx_head # rx_tail
     THEN /\ ReadRx /\ received' = Append(received, outcome')
          /\ DriverMoves("rx", "rx")
     ELSE /\ AccessPlain
          /\ DriverMoves("rx", "tx")
          /\ UNCHANGED received
  /\ UNCHANGED <<cleared, tosend, sent>>

HandlerTransmits ==                             \* the last byte stops THRI
  /\ IF "THRI" \in ier /\ tosend > 0
     THEN (\E c \in Byte : WriteTx(c)) /\ tosend' = tosend - 1
     ELSE WriteIer(ier \ {"THRI"}) /\ UNCHANGED tosend
  /\ DriverMoves("tx", "iir")
  /\ UNCHANGED <<received, cleared, sent>>

(* Under the driver's port lock, so not between "rx" and "tx".             *)
StartTx ==
  /\ driver \in {"idle", "iir"} /\ sent < MaxTx
  /\ tosend' = tosend + 1 /\ sent' = sent + 1
  /\ WriteIer(ier \cup {"THRI"})
  /\ Latch
  /\ UNCHANGED <<keyboard, driver, received, cleared>>

Handler == TakeInterrupt \/ HandlerReadsIir \/ HandlerReceives \/ HandlerTransmits

-----------------------------------------------------------------------------

Next ==
  \/ \E c \in Byte : ReadKey(c)
  \/ PushSecond \/ EndOfInput
  \/ SetUp \/ Handler \/ StartTx

Spec == Init /\ [][Next]_vars

(* The guest serves its interrupts and the console thread is scheduled;    *)
(* nobody has to type or to send.                                          *)
FairSpec ==
  /\ Spec
  /\ WF_vars(SetUp) /\ WF_vars(Handler) /\ WF_vars(PushSecond)

-----------------------------------------------------------------------------

(* What the guest is to receive of the keys typed, read off as a grammar:  *)
(* Ctrl-A Ctrl-A is one Ctrl-A, Ctrl-A x ends the input, any other pair    *)
(* that begins with Ctrl-A stands for itself, and a last Ctrl-A waits.     *)
(* Rest is the meaning of the keys from the n-th on, given those behind.   *)
Rest(from, keys, n) ==
  CASE n > Len(keys) -> <<>>
    [] n <= Len(keys) /\ keys[n] # CtrlA -> <<keys[n]>> \o from[n + 1]
    [] n = Len(keys) /\ keys[n] = CtrlA -> <<>>
    [] n < Len(keys) /\ keys[n] = CtrlA ->
         CASE keys[n + 1] = CtrlA -> <<CtrlA>> \o from[n + 2]
           [] keys[n + 1] = KeyX -> <<>>
           [] OTHER -> <<CtrlA, keys[n + 1]>> \o from[n + 2]

Meaning(keys) ==
  LET from[n \in 1 .. Len(keys) + 1] == Rest(from, keys, n) IN from[1]

(* Until a byte finds the ring full, what the driver received, what is in  *)
(* the ring and what the console still holds is exactly what the keys      *)
(* mean, in order, but for the bytes the driver's FIFO reset threw away    *)
(* (console.c:41-64 with serial8250.c:161-164 and :289-304).               *)
InputInOrder ==
  LET held == IF console = "push" THEN <<typed[Len(typed)]>> ELSE <<>> IN
  ~dropped =>
    received \o RxQueue \o held
      = SubSeq(Meaning(typed), cleared + 1, Len(Meaning(typed)))

(* serial8250.c:91-101: a request is never left behind on the edge-        *)
(* triggered line: while the line is high, the rise that made it so is     *)
(* latched or the handler is running and will read IIR again.              *)
NoLostEdge == irq_level => irr \/ driver \notin {"idle"} \cup Startup

(* Every byte in the ring is eventually taken by the guest.                *)
InputServed == rx_head # rx_tail ~> rx_head = rx_tail

(* serial8250.c:226-229: enabling THRI on an idle transmitter is enough to *)
(* start it, and every byte the guest wants to send is eventually sent.    *)
OutputServed == tosend > 0 ~> tosend = 0
=============================================================================
