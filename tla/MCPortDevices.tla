---------------------------- MODULE MCPortDevices ----------------------------
(***************************************************************************)
(* The devices behind the ports, UART, keyboard controller, PM1a registers *)
(* and CMOS clock, in one run.  They share no state: a behaviour is one of *)
(* any of them, while the others stay as they are.  The output buffer has  *)
(* two places: a reply of two bytes just fills it, one of three overflows. *)
(***************************************************************************)
EXTENDS Serial8250, I8042

CONSTANTS Sizes, Seconds, Minutes

ASSUME PortAssumption ==
  /\ ObufSize \in Nat \ {0} /\ Sizes \subseteq {1, 2}
  /\ Seconds \in Nat \ {0} /\ Minutes \in Nat \ {0, 1}

VARIABLES
  dev,                                          (* the device              *)
  sts, en, cnt, poweroff, access,
  now, index, cmos, got, phase, time, seen

Pm  == INSTANCE AcpiPm
Clk == INSTANCE Rtc

pm   == <<sts, en, cnt, poweroff, access>>
clk  == <<now, index, cmos, got, phase, time, seen>>
vars == <<dev, serial, kbc, pm, clk>>

PortInit ==
  /\ dev \in {"serial", "i8042", "acpi_pm", "rtc"}
  /\ SerialInit /\ KbcInit /\ Pm!Init /\ Clk!RtcInit
  /\ dev # "rtc" => now = [sec |-> 0, min |-> 0]

UartStep == dev = "serial"  /\ SerialNext  /\ UNCHANGED <<dev, kbc, pm, clk>>
KbcStep  == dev = "i8042"   /\ KbcNext     /\ UNCHANGED <<dev, serial, pm, clk>>
PmStep   == dev = "acpi_pm" /\ Pm!Next     /\ UNCHANGED <<dev, serial, kbc, clk>>
ClkStep  == dev = "rtc"     /\ Clk!RtcNext /\ UNCHANGED <<dev, serial, kbc, pm>>

PortSpec == PortInit /\ [][UartStep \/ KbcStep \/ PmStep \/ ClkStep]_vars

(* All variables keep their types, whatever is written to the ports.       *)
PortTypeOK == TypeOK /\ KbcTypeOK /\ Pm!TypeOK /\ Clk!RtcTypeOK

(* The properties of AcpiPm and Rtc (acpi.c:317-318, :350, rtc.c:66) under *)
(* names of this module; the second is evaluated only where the registers  *)
(* of AcpiPm are accessed.                                                 *)
ReadingIsInstant  == Clk!ReadingIsInstant
WordsAreFile      == [][dev = "acpi_pm" =>
                          (Pm!ByteWritten' /\ UNCHANGED poweroff) \/ Pm!File!Next]_pm
=============================================================================
