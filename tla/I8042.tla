-------------------------------- MODULE I8042 --------------------------------
(***************************************************************************)
(* The keyboard controller of src/devices/i8042.c with its keyboard, which *)
(* only answers commands.  vm.io_lock is held around every access, so each *)
(* read or write of a port is one action.                                  *)
(*                                                                         *)
(* The bytes are reduced to what they mean.  Left out: the output port and *)
(* the CTR bits that are only read back, the status byte, and the reset    *)
(* request, which changes nothing here and ends the vCPU thread (Device of *)
(* VmRun).  External: the IOAPIC, where ISA interrupt 1 is edge triggered, *)
(* and the guest's interrupt handler, which reads one byte per interrupt.  *)
(***************************************************************************)
EXTENDS Naturals, Sequences, FiniteSets

CONSTANT ObufSize         (* OBUF_SIZE                                      *)

VARIABLES
  ctr,           (* the CTR bits that are set, of KBDINT and KBDDIS         *)
  pending_cmd,   (* the command whose argument the next write of 0x60 is    *)
  kbd_pending,   (* the same for a command sent to the keyboard             *)
  obuf, head, count,
  kbd_level,
  irr,           (* external: a rise of the line is latched, not yet served *)
  asked          (* history: what the last command has to be answered with, *)
                 (* until it is read                                        *)

kbc == <<ctr, pending_cmd, kbd_pending, obuf, head, count, kbd_level, irr, asked>>

Places == 0 .. ObufSize - 1

(* Controller commands by what they do, with the answer or the argument.   *)
Answer == [READ_CTR |-> "ctr", AUX_TEST |-> "stuck", SELF_TEST |-> "passed",
           KBD_TEST |-> "good", READ_OUTP |-> "outp"]
TakeArgument == {"WRITE_CTR", "WRITE_OUTP", "WRITE_KBD_OBUF", "WRITE_AUX_OBUF",
                 "WRITE_AUX"}
Command == DOMAIN Answer \cup TakeArgument
           \cup {"KBD_DISABLE", "KBD_ENABLE", "other"}

(* Bytes sent to the keyboard.                                             *)
KbdByte == {"RESET", "GETID", "ECHO", "SETLEDS", "SSCANSET", "zero", "any"}

FromKbc(v) == [val |-> v, from_kbd |-> FALSE]
FromKbd(v) == [val |-> v, from_kbd |-> TRUE]

Entries == {FromKbc(v) : v \in {Answer[c] : c \in DOMAIN Answer} \cup {"byte", "0"}}
           \cup {FromKbd(v) : v \in {"ACK", "BAT_OK", "ID0", "ID1", "ECHO",
                                     "set2", "byte"}}

KbcTypeOK ==
  /\ ctr \subseteq {"KBDINT", "KBDDIS"}
  /\ pending_cmd \in TakeArgument \cup {"none"}
  /\ kbd_pending \in {"SETLEDS", "SSCANSET", "none"}
  /\ obuf \in [Places -> Entries]
  /\ head \in Places /\ count \in 0 .. ObufSize
  /\ kbd_level \in BOOLEAN /\ irr \in BOOLEAN
  /\ asked \in {Answer[c] : c \in DOMAIN Answer} \cup {"none"}

KbcInit ==
  /\ ctr = {"KBDINT"}
  /\ pending_cmd = "none" /\ kbd_pending = "none"
  /\ obuf = [k \in Places |-> FromKbc("0")] /\ head = 0 /\ count = 0
  /\ kbd_level = FALSE /\ irr = FALSE
  /\ asked = "none"

-----------------------------------------------------------------------------

(* The level update_irq() sets.                                            *)
Level ==
  count > 0 /\ obuf[head].from_kbd /\ "KBDINT" \in ctr /\ "KBDDIS" \notin ctr

(* set_irq(0), if lowered, and update_irq().  The request latched so far   *)
(* stays, and a rise of the line is latched.                               *)
update_irq_kbd(lowered, latched) ==
  /\ kbd_level' = Level'
  /\ irr' = (latched \/ (Level' /\ (lowered \/ ~kbd_level)))

Quiet == UNCHANGED <<kbd_level, irr>>

(* obuf_push() of each of the bytes, after the buffer was cleared and the  *)
(* line lowered, or not; those that do not fit are dropped.                *)
obuf_push(bytes, cleared) ==
  LET n == IF cleared THEN 0 ELSE count
      Fits == {k \in 1 .. Len(bytes) : n + k <= ObufSize}
      At(k) == (head + n + k - 1) % ObufSize
  IN /\ obuf' = [p \in Places |->
                   IF \E k \in Fits : p = At(k)
                   THEN bytes[CHOOSE k \in Fits : p = At(k)]
                   ELSE obuf[p]]
     /\ count' = n + Cardinality(Fits)
     /\ UNCHANGED head
     /\ IF Fits = {} THEN Quiet ELSE update_irq_kbd(cleared, irr)

Reply(vals) == obuf_push([k \in DOMAIN vals |-> FromKbd(vals[k])], FALSE)

(* Mutant: the line is not lowered between two bytes.                      *)
obuf_pop_level(latched) ==
  IF count = 0
  THEN irr' = latched /\ UNCHANGED <<head, count, kbd_level>>
  ELSE /\ head' = (head + 1) % ObufSize
       /\ count' = count - 1
       /\ update_irq_kbd(FALSE, latched)

(* A read of 0x60 while the latch holds latched.                           *)
obuf_pop(latched) ==
  IF count = 0
  THEN irr' = latched /\ UNCHANGED <<head, count, kbd_level>>
  ELSE /\ head' = (head + 1) % ObufSize
       /\ count' = count - 1
       /\ update_irq_kbd(TRUE, latched)

ReadData(latched) ==
  /\ UNCHANGED <<ctr, pending_cmd, kbd_pending, obuf>>
  /\ obuf_pop(latched)
  /\ asked' = "none"

Expected(cmd) == IF cmd \in DOMAIN Answer THEN Answer[cmd] ELSE "none"

ControlBits(cmd) ==
  CASE cmd = "KBD_DISABLE" -> ctr \cup {"KBDDIS"}
    [] cmd = "KBD_ENABLE"  -> ctr \ {"KBDDIS"}
    [] OTHER               -> ctr

(* Mutant: a command leaves the old answers in the buffer.                 *)
kbc_command_keeps(cmd) ==
  /\ ctr' = ControlBits(cmd)
  /\ pending_cmd' = IF cmd \in TakeArgument THEN cmd ELSE pending_cmd
  /\ IF cmd \in DOMAIN Answer
     THEN obuf_push(<<FromKbc(Answer[cmd])>>, FALSE)
     ELSE UNCHANGED <<obuf, head, count, kbd_level, irr>>
  /\ asked' = Expected(cmd)
  /\ UNCHANGED kbd_pending

(* A write of 0x64: kbc_command().  Whatever is in the buffer is dropped   *)
(* and the line lowered; an answer or an enabled keyboard sets it anew.    *)
kbc_command(cmd) ==
  /\ ctr' = ControlBits(cmd)
  /\ pending_cmd' = IF cmd \in TakeArgument THEN cmd ELSE pending_cmd
  /\ IF cmd \in DOMAIN Answer
     THEN obuf_push(<<FromKbc(Answer[cmd])>>, TRUE)
     ELSE /\ count' = 0
          /\ UNCHANGED <<obuf, head>>
          /\ IF cmd = "KBD_ENABLE"
             THEN update_irq_kbd(TRUE, irr)
             ELSE kbd_level' = FALSE /\ UNCHANGED irr
  /\ asked' = Expected(cmd)
  /\ UNCHANGED kbd_pending

(* A byte for the keyboard: kbd_write().                                   *)
kbd_write(v) ==
  IF kbd_pending # "none"
  THEN /\ kbd_pending' = "none"
       /\ Reply(IF kbd_pending = "SSCANSET" /\ v = "zero"
                THEN <<"ACK", "set2">> ELSE <<"ACK">>)
  ELSE /\ kbd_pending' = IF v \in {"SETLEDS", "SSCANSET"} THEN v ELSE "none"
       /\ Reply(CASE v = "RESET" -> <<"ACK", "BAT_OK">>
                  [] v = "GETID" -> <<"ACK", "ID0", "ID1">>
                  [] v = "ECHO"  -> <<"ECHO">>
                  [] OTHER       -> <<"ACK">>)

(* The argument of the pending command.                                    *)
TakeCtr ==
  /\ pending_cmd = "WRITE_CTR"
  /\ ctr' \in SUBSET {"KBDINT", "KBDDIS"}
  /\ UNCHANGED <<kbd_pending, obuf, head, count>>
  /\ update_irq_kbd(FALSE, irr)

TakeKbdByte ==
  /\ pending_cmd = "WRITE_KBD_OBUF"
  /\ UNCHANGED <<ctr, kbd_pending>>
  /\ Reply(<<"byte">>)

TakeAuxByte ==
  /\ pending_cmd = "WRITE_AUX_OBUF"
  /\ UNCHANGED <<ctr, kbd_pending>>
  /\ obuf_push(<<FromKbc("byte")>>, FALSE)

TakeNothing ==
  /\ pending_cmd \in {"WRITE_OUTP", "WRITE_AUX"}
  /\ UNCHANGED <<ctr, kbd_pending, obuf, head, count>>
  /\ Quiet

(* No command waits for the byte: it is for the keyboard.                  *)
PassOn(v) ==
  /\ pending_cmd = "none"
  /\ UNCHANGED ctr
  /\ kbd_write(v)

(* A write of 0x60: kbc_data_write().                                      *)
kbc_data_write ==
  /\ \/ TakeCtr \/ TakeKbdByte \/ TakeAuxByte \/ TakeNothing
     \/ \E v \in KbdByte : PassOn(v)
  /\ pending_cmd' = "none"
  /\ UNCHANGED asked

(* External: the handler of interrupt 1 reads one byte, if there is one.   *)
Interrupt == irr /\ ReadData(FALSE)

KbcNext ==
  \/ ReadData(irr)                                \* the driver may poll, too
  \/ \E cmd \in Command : kbc_command(cmd)
  \/ kbc_data_write
  \/ Interrupt

KbcSpec == KbcInit /\ [][KbcNext]_kbc

-----------------------------------------------------------------------------

(* i8042.c:116-123: the line is high exactly when the first byte in the    *)
(* buffer asks for it, and every byte of the keyboard gets a rising edge   *)
(* of its own: when one is first and may interrupt, a request is latched   *)
(* for it, so a handler that reads a byte per interrupt reads them all.    *)
EdgePerByte ==
  /\ kbd_level = Level
  /\ Level => irr

(* i8042.c:207-208: the answer to a controller command is the next byte    *)
(* the guest reads; neither a leftover of an earlier command nor a full    *)
(* buffer can come between.                                                *)
AnswerIsNext == asked # "none" => count > 0 /\ obuf[head] = FromKbc(asked)
=============================================================================
