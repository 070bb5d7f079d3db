------------------------ MODULE SerialConsole_proofs ------------------------
(***************************************************************************)
(* Proofs about the console, the UART and the guest's driver together, for *)
(* a ring of any size and any number of keys and bytes.                    *)
(***************************************************************************)
EXTENDS SerialConsole, Serial8250_proofs, SequenceTheorems, WellFoundedInduction

(* The second key of an escape is the last that was typed.                 *)
KeysTyped == typed \in Seq(Byte) /\ (console = "push" => typed # <<>>)

(* No request is left behind, because IIR and the line are always those of *)
(* the registers: a driver that finds nothing pending has a low line.      *)
EdgeInv == TypeOK /\ InterruptFresh /\ KeysTyped /\ NoLostEdge

(* The operation is one of the UART's, or none.                            *)
OnUart == SerialNext \/ UNCHANGED serial

(* The edge is latched, or there is none.                                  *)
LEMMA Latched ==
  ASSUME irq_level => irr, Latch
  PROVE  irq_level' => irr'
BY DEF Latch

-----------------------------------------------------------------------------
(* The console thread.                                                     *)

LEMMA LastKey ==
  ASSUME KeysTyped, console = "push"
  PROVE  typed \in Seq(Byte) /\ Len(typed) \in Nat \ {0} /\ typed[Len(typed)] \in Byte
BY DEF KeysTyped

(* The console thread appends to what was typed.                           *)
LEMMA TypedStep ==
  ASSUME KeysTyped, [Next]_vars
  PROVE  KeysTyped'
<1>1. CASE \E c \in Byte : ReadKey(c)
  <2>1. PICK c \in Byte : ReadKey(c)
    BY <1>1
  <2>2. typed' = Append(typed, c) /\ typed \in Seq(Byte)
    BY <2>1 DEF ReadKey, KeysTyped
  <2> QED
    BY <2>2 DEF KeysTyped
<1>2. CASE PushSecond \/ EndOfInput
  BY <1>2 DEF PushSecond, EndOfInput, KeysTyped
<1>3. CASE SetUp \/ Handler \/ StartTx \/ UNCHANGED vars
  <2>1. UNCHANGED keyboard
    BY <1>3 DEF SetUp, Handler, TakeInterrupt, HandlerReadsIir, HandlerReceives, HandlerTransmits,
                StartTx, DriverMoves, vars
  <2> QED
    BY <2>1 DEF keyboard, KeysTyped
<1> QED
  BY <1>1, <1>2, <1>3 DEF Next

LEMMA ConsoleStep ==
  ASSUME EdgeInv, (\E c \in Byte : ReadKey(c)) \/ PushSecond \/ EndOfInput
  PROVE  OnUart /\ NoLostEdge'
<1>1. CtrlA \in Byte
  BY BytesAssumption DEF BytesAssumption
<1>2. (\E c \in Byte : Push(c)) \/ UNCHANGED <<serial, guest>>
  <2>1. CASE \E c \in Byte : ReadKey(c)
    BY <1>1, <2>1 DEF ReadKey
  <2>2. CASE PushSecond
    <3>1. typed[Len(typed)] \in Byte
      BY <2>2, LastKey DEF EdgeInv, PushSecond
    <3> QED
      BY <2>2, <3>1 DEF PushSecond
  <2>3. CASE EndOfInput
    BY <2>3 DEF EndOfInput
  <2> QED
    BY <2>1, <2>2, <2>3
<1>3. CASE UNCHANGED <<serial, guest>>
  BY <1>3 DEF OnUart, EdgeInv, NoLostEdge, serial, guest
<1>4. ASSUME NEW c \in Byte, Push(c)
      PROVE  OnUart /\ NoLostEdge'
  <2>1. OnUart /\ ier' = ier /\ Latch /\ driver' = driver
    BY <1>4 DEF Push, PushRx, OnUart, SerialNext
  <2>2. NoLostEdge'
    BY <2>1, Latched DEF EdgeInv, NoLostEdge, Latch
  <2> QED
    BY <2>1, <2>2 DEF EdgeInv
<1> QED
  BY <1>2, <1>3, <1>4

-----------------------------------------------------------------------------
(* The driver.                                                             *)

(* While it stays where the line must not be forgotten, or goes there, the *)
(* request is latched.                                                     *)
LEMMA DriverLatches ==
  ASSUME NoLostEdge, Latch, driver \in {"idle"} \cup Startup \/ ~irq_level
  PROVE  NoLostEdge'
BY Latched DEF NoLostEdge

LEMMA DriverStep ==
  ASSUME EdgeInv, SetUp \/ Handler \/ StartTx
  PROVE  OnUart /\ NoLostEdge'
<1>1. CASE SetUp
  <2>1. WriteFcr(TRUE, TRUE) \/ WriteMcr({"OUT2"}) \/ WriteIer({"RDI"})
    BY <1>1 DEF SetUp
  <2>2. OnUart
    BY <2>1 DEF OnUart, SerialNext, GuestAccess
  <2>3. Latch /\ driver \in Startup
    BY <1>1 DEF SetUp, DriverMoves, Startup
  <2> QED
    BY <2>2, <2>3, DriverLatches DEF EdgeInv
<1>2. CASE TakeInterrupt
  <2>1. UNCHANGED serial /\ driver' = "iir"
    BY <1>2 DEF TakeInterrupt
  <2> QED
    BY <2>1 DEF OnUart, EdgeInv, NoLostEdge, serial, Startup
<1>3. CASE HandlerReadsIir
  <2>1. ReadIir /\ Latch /\ driver' = IF iir.id = "NO_INT" THEN "idle" ELSE "rx"
    BY <1>3 DEF HandlerReadsIir, DriverMoves
  <2>2. OnUart
    BY <2>1 DEF OnUart, SerialNext, GuestAccess
  <2>3. CASE iir.id = "NO_INT"
    <3>1. ~irq_level
      BY <2>3 DEF EdgeInv, InterruptFresh
    <3> QED
      BY <2>1, <2>2, <3>1, DriverLatches DEF EdgeInv
  <2>4. CASE iir.id # "NO_INT"
    BY <2>1, <2>2, <2>4 DEF NoLostEdge, Startup
  <2> QED
    BY <2>3, <2>4
<1>4. CASE HandlerReceives
  <2>1. (ReadRx \/ AccessPlain) /\ driver' \in {"rx", "tx"}
    BY <1>4 DEF HandlerReceives, DriverMoves
  <2>2. OnUart
    BY <2>1 DEF OnUart, SerialNext, GuestAccess
  <2> QED
    BY <2>1, <2>2 DEF NoLostEdge, Startup
<1>5. CASE HandlerTransmits
  <2>1. ((\E c \in Byte : WriteTx(c)) \/ WriteIer(ier \ {"THRI"})) /\ driver' = "iir"
    BY <1>5 DEF HandlerTransmits, DriverMoves
  <2>2. ier \ {"THRI"} \in SUBSET {"RDI", "THRI"}
    BY DEF EdgeInv, TypeOK
  <2>3. OnUart
    BY <2>1, <2>2 DEF OnUart, SerialNext, GuestAccess
  <2> QED
    BY <2>1, <2>3 DEF NoLostEdge, Startup
<1>6. CASE StartTx
  <2>1. WriteIer(ier \cup {"THRI"}) /\ Latch /\ driver' = driver /\ driver \in {"idle", "iir"}
    BY <1>6 DEF StartTx
  <2>2. ier \cup {"THRI"} \in SUBSET {"RDI", "THRI"}
    BY DEF EdgeInv, TypeOK
  <2>3. OnUart
    BY <2>1, <2>2 DEF OnUart, SerialNext, GuestAccess
  <2>4. CASE driver = "idle"
    BY <2>1, <2>3, <2>4, DriverLatches DEF EdgeInv
  <2>5. CASE driver = "iir"
    BY <2>1, <2>3, <2>5 DEF NoLostEdge, Startup
  <2> QED
    BY <2>1, <2>4, <2>5
<1> QED
  BY <1>1, <1>2, <1>3, <1>4, <1>5, <1>6 DEF Handler

-----------------------------------------------------------------------------

LEMMA EdgeStart == Init => EdgeInv
<1> SUFFICES ASSUME Init PROVE EdgeInv
  OBVIOUS
<1>1. TypeOK /\ InterruptFresh
  BY UartStart DEF Init
<1>2. KeysTyped
  BY DEF Init, KeysTyped
<1>3. NoLostEdge
  BY DEF Init, SerialInit, NoLostEdge
<1> QED
  BY <1>1, <1>2, <1>3 DEF EdgeInv

LEMMA EdgeStep ==
  ASSUME EdgeInv, [Next]_vars
  PROVE  EdgeInv' /\ OnUart
<1>1. OnUart /\ NoLostEdge'
  <2>1. CASE UNCHANGED vars
    BY <2>1 DEF vars, guest, serial, OnUart, EdgeInv, NoLostEdge
  <2>2. CASE Next
    BY <2>2, ConsoleStep, DriverStep DEF Next
  <2> QED
    BY <2>1, <2>2
<1>2. TypeOK' /\ InterruptFresh'
  BY <1>1, UartKeeps DEF OnUart, EdgeInv
<1>3. KeysTyped'
  BY TypedStep DEF EdgeInv
<1> QED
  BY <1>1, <1>2, <1>3 DEF EdgeInv

(* IIR and line are fresh and no edge is lost (serial8250.c:77-102): the   *)
(* two are inductive together with the types.                              *)
THEOREM EdgeInvariance == Spec => []EdgeInv
<1>1. EdgeInv /\ [Next]_vars => EdgeInv'
  BY EdgeStep
<1> QED
  BY <1>1, EdgeStart, PTL DEF Spec

(* A rise of the edge-triggered line is never lost: while the line is high *)
(* the driver has been or will be called (serial8250.c:91-101), whatever   *)
(* the user types and the guest sends meanwhile.                           *)
THEOREM EdgesKept == Spec => []NoLostEdge
<1>1. EdgeInv => NoLostEdge
  BY DEF EdgeInv
<1> QED
  BY <1>1, EdgeInvariance, PTL

(* The console thread and the driver use the UART only through the         *)
(* operations of serial8250.c, so that what holds of these in any order,   *)
(* the FIFO among it, holds here.                                          *)
THEOREM UsesUart == Spec => SerialSpec
<1>1. Init => SerialInit
  BY DEF Init
<1>2. EdgeInv /\ [Next]_vars => [SerialNext]_serial
  BY EdgeStep DEF OnUart
<1> QED
  BY <1>1, <1>2, EdgeInvariance, PTL DEF Spec, SerialSpec
-----------------------------------------------------------------------------
(* What keys mean, read from each of them on: f[n] is what the keys from   *)
(* the n-th on mean, and e[n] how they end.                                *)

Symbol == Byte \cup {Idle}
State  == {"plain", "esc", "quit"}

EndOf(e, keys, n) ==
  CASE n > Len(keys) -> "plain"
    [] n <= Len(keys) /\ keys[n] # CtrlA -> e[n + 1]
    [] n = Len(keys) /\ keys[n] = CtrlA -> "esc"
    [] n < Len(keys) /\ keys[n] = CtrlA -> IF keys[n + 1] = KeyX THEN "quit" ELSE e[n + 2]

IsReading(f, keys) ==
  /\ f = [n \in 1 .. Len(keys) + 1 |-> f[n]]
  /\ \A n \in 1 .. Len(keys) + 1 : f[n] = Rest(f, keys, n)

Reading(f, e, keys) ==
  /\ IsReading(f, keys)
  /\ \A n \in 1 .. Len(keys) + 1 :
       f[n] \in Seq(Symbol) /\ e[n] \in State /\ e[n] = EndOf(e, keys, n)

(* A set of numbers with a member has a least one.                         *)
LEMMA LeastNumber ==
  ASSUME NEW T \in SUBSET Nat, T # {}
  PROVE  \E x \in T : \A y \in T : x <= y
<1> DEFINE R == OpToRel(<, Nat)
<1>1. \A x, y \in Nat : y < x => <<y, x>> \in R
  BY DEF OpToRel
<1>2. IsWellFoundedOn(R, Nat)
  BY NatLessThanWellFounded, Zenon
<1> HIDE DEF R
<1>3. PICK x \in T : \A y \in T : <<y, x>> \notin R
  BY <1>2, WFMin
<1>4. \A y \in T : ~(y < x)
  BY <1>1, <1>3
<1>5. \A y \in T : x <= y
  BY <1>4
<1> QED
  BY <1>5

(* Two readings of the same keys are the same: they agree behind the last  *)
(* key, and where two agree from each later key on they agree.             *)
LEMMA OneReading ==
  ASSUME NEW keys \in Seq(Byte), NEW f, NEW g, IsReading(f, keys), IsReading(g, keys)
  PROVE  f = g
<1> DEFINE l == Len(keys)
           D == {m \in 0 .. l : f[l + 1 - m] # g[l + 1 - m]}
<1>1. l \in Nat
  OBVIOUS
<1>2. D = {}
  <2> SUFFICES ASSUME D # {} PROVE FALSE
    OBVIOUS
  <2>1. D \in SUBSET Nat
    BY <1>1
  <2>2. PICK m \in D : \A k \in D : m <= k
    BY <2>1, LeastNumber
  <2> DEFINE n == l + 1 - m
  <2>3. m \in 0 .. l /\ f[n] # g[n]
    BY <2>2
  <2>4. n \in 1 .. l + 1 /\ n \in Nat
    BY <1>1, <2>3
  <2>5. f[n] = Rest(f, keys, n) /\ g[n] = Rest(g, keys, n)
    BY <2>4 DEF IsReading
  <2>6. n <= l => f[n + 1] = g[n + 1]
    <3> SUFFICES ASSUME n <= l PROVE f[n + 1] = g[n + 1]
      OBVIOUS
    <3>1. m - 1 \in 0 .. l /\ ~(m <= m - 1) /\ l + 1 - (m - 1) = n + 1
      BY <1>1, <2>3
    <3>2. m - 1 \notin D
      BY <2>2, <3>1
    <3> HIDE DEF n
    <3> QED
      BY <3>1, <3>2
  <2>7. n < l => f[n + 2] = g[n + 2]
    <3> SUFFICES ASSUME n < l PROVE f[n + 2] = g[n + 2]
      OBVIOUS
    <3>1. m - 2 \in 0 .. l /\ ~(m <= m - 2) /\ l + 1 - (m - 2) = n + 2
      BY <1>1, <2>3
    <3>2. m - 2 \notin D
      BY <2>2, <3>1
    <3> HIDE DEF n
    <3> QED
      BY <3>1, <3>2
  <2> HIDE DEF n, D
  <2>8. Rest(f, keys, n) = Rest(g, keys, n)
    <3>1. n > l \/ (n <= l /\ keys[n] # CtrlA) \/ (n = l /\ keys[n] = CtrlA)
          \/ (n < l /\ keys[n] = CtrlA)
      BY <1>1, <2>4
    <3> QED
      BY <1>1, <2>4, <2>6, <2>7, <3>1 DEF Rest
  <2> QED
    BY <2>3, <2>5, <2>8
<1>3. \A n \in 1 .. l + 1 : f[n] = g[n]
  <2> SUFFICES ASSUME NEW n \in 1 .. l + 1 PROVE f[n] = g[n]
    OBVIOUS
  <2>1. l + 1 - n \in 0 .. l /\ l + 1 - (l + 1 - n) = n
    BY <1>1
  <2> QED
    BY <1>2, <2>1
<1> QED
  BY <1>3 DEF IsReading

LEMMA MeaningIs ==
  ASSUME NEW keys \in Seq(Byte), NEW f, IsReading(f, keys)
  PROVE  Meaning(keys) = f[1]
<1> DEFINE Fits(g) == g = [n \in 1 .. Len(keys) + 1 |-> Rest(g, keys, n)]
           from    == CHOOSE g : Fits(g)
<1>1. Meaning(keys) = from[1]
  BY DEF Meaning
<1>2. Fits(f)
  BY DEF IsReading
<1>3. Fits(from)
  BY <1>2
<1> HIDE DEF from
<1>4. IsReading(from, keys)
  BY <1>3 DEF IsReading
<1> QED
  BY <1>1, <1>4, OneReading

(* What one more key adds, and the end it leads to.                        *)
More(s, c) ==
  CASE s = "plain" -> IF c = CtrlA THEN <<>> ELSE <<c>>
    [] s = "esc"   -> IF c = CtrlA THEN <<CtrlA>> ELSE IF c = KeyX THEN <<>> ELSE <<CtrlA, c>>
    [] s = "quit"  -> <<>>

After(s, c) ==
  CASE s = "plain" -> IF c = CtrlA THEN "esc" ELSE "plain"
    [] s = "esc"   -> IF c = KeyX THEN "quit" ELSE "plain"
    [] s = "quit"  -> "quit"

LEMMA Additions ==
  ASSUME NEW s \in State, NEW c \in Byte
  PROVE  More(s, c) \in Seq(Symbol) /\ After(s, c) \in State
<1>1. CtrlA \in Symbol /\ c \in Symbol
  BY BytesAssumption DEF BytesAssumption, Symbol
<1>2. <<>> \in Seq(Symbol) /\ <<c>> \in Seq(Symbol) /\ <<CtrlA>> \in Seq(Symbol)
      /\ <<CtrlA, c>> \in Seq(Symbol)
  BY <1>1
<1> QED
  BY <1>2 DEF More, After, State

Associative(p, q, r) == (p \o q) \o r = p \o (q \o r)

(* The pieces a meaning is put together from.                              *)
LEMMA Pieces ==
  ASSUME NEW p \in Seq(Symbol), NEW q \in Seq(Symbol), NEW r \in Seq(Symbol)
  PROVE  /\ p \o q \in Seq(Symbol) /\ Associative(p, q, r)
         /\ p \o <<>> = p /\ <<>> \o p = p
<1>1. p \o q \in Seq(Symbol)
  BY ConcatProperties, Zenon
<1>2. (p \o q) \o r = p \o (q \o r)
  BY ConcatAssociative
<1>3. p \o <<>> = p /\ <<>> \o p = p
  BY ConcatEmptySeq, Zenon
<1>4. Associative(p, q, r)
  BY <1>2, Zenon DEF Associative
<1> QED
  BY <1>1, <1>3, <1>4, Zenon

(* A reading of the keys with one more adds its piece to the meaning.      *)
ReadOn(f, e, keys, c) ==
  \E g, d : /\ Reading(g, d, Append(keys, c))
            /\ g[1] = f[1] \o More(e[1], c) /\ d[1] = After(e[1], c)

LEMMA OneMoreKey ==
  ASSUME NEW keys \in Seq(Byte), NEW c \in Byte, NEW f, NEW e, Reading(f, e, keys)
  PROVE  ReadOn(f, e, keys, c)
<1> DEFINE l    == Len(keys)
           more == Append(keys, c)
           g    == [n \in 1 .. l + 2 |-> IF n <= l + 1 THEN f[n] \o More(e[n], c) ELSE <<>>]
           d    == [n \in 1 .. l + 2 |-> IF n <= l + 1 THEN After(e[n], c) ELSE "plain"]
<1>1. l \in Nat /\ Len(more) = l + 1 /\ more[l + 1] = c /\ \A n \in 1 .. l : more[n] = keys[n]
  BY AppendProperties
<1>2. \A n \in 1 .. l : keys[n] \in Byte
  BY ElementOfSeq
<1>3. \A n \in 1 .. l + 1 : /\ f[n] \in Seq(Symbol) /\ e[n] \in State
                            /\ f[n] = Rest(f, keys, n) /\ e[n] = EndOf(e, keys, n)
  BY DEF Reading, IsReading
<1>4. \A n \in 1 .. l + 1 : /\ More(e[n], c) \in Seq(Symbol) /\ After(e[n], c) \in State
                            /\ f[n] \o More(e[n], c) \in Seq(Symbol)
  BY <1>3, Additions, Pieces
<1>5. /\ \A n \in 1 .. l + 1 : g[n] = f[n] \o More(e[n], c) /\ d[n] = After(e[n], c)
      /\ g[l + 2] = <<>> /\ d[l + 2] = "plain"
  <2>1. \A n \in 1 .. l + 1 : n \in 1 .. l + 2 /\ n <= l + 1
    BY <1>1
  <2>2. l + 2 \in 1 .. l + 2 /\ ~(l + 2 <= l + 1)
    BY <1>1
  <2> QED
    BY <2>1, <2>2
<1>6. g = [n \in 1 .. Len(more) + 1 |-> g[n]]
  <2>1. Len(more) + 1 = l + 2
    BY <1>1
  <2> HIDE DEF more
  <2> QED
    BY <2>1
<1> HIDE DEF g, d, more, l
<1>7. ASSUME NEW n \in 1 .. l + 2
      PROVE  /\ g[n] \in Seq(Symbol) /\ d[n] \in State
             /\ g[n] = Rest(g, more, n) /\ d[n] = EndOf(d, more, n)
  <2>1. CASE n = l + 2
    <3>1. g[n] = <<>> /\ d[n] = "plain" /\ n > Len(more)
      BY <1>1, <1>5, <2>1
    <3>2. <<>> \in Seq(Symbol)
      OBVIOUS
    <3>3. ~(n <= Len(more)) /\ n # Len(more) /\ ~(n < Len(more))
      BY <1>1, <2>1
    <3> QED
      BY <3>1, <3>2, <3>3 DEF Rest, EndOf, State
  <2>2. CASE n = l + 1
    <3>1. /\ n \in 1 .. l + 1 /\ n + 1 = l + 2 /\ n > l /\ n = Len(more)
          /\ ~(n > Len(more)) /\ n <= Len(more) /\ ~(n < Len(more)) /\ more[n] = c
          /\ ~(n <= l) /\ n # l /\ ~(n < l)
      BY <1>1, <2>2
    <3>2. f[n] = <<>> /\ e[n] = "plain"
      BY <1>3, <3>1 DEF Rest, EndOf, l
    <3>3. g[n] = <<>> \o More("plain", c) /\ d[n] = After("plain", c)
      BY <1>5, <3>1, <3>2
    <3>4. More("plain", c) \in Seq(Symbol) /\ After("plain", c) \in State
      BY Additions DEF State
    <3>5. g[n] = More("plain", c)
      BY <3>3, <3>4, Pieces
    <3>6. c # CtrlA => <<c>> \o g[n + 1] = <<c>>
      <4> SUFFICES ASSUME c # CtrlA PROVE <<c>> \o g[n + 1] = <<c>>
        OBVIOUS
      <4>1. <<c>> \in Seq(Symbol) /\ g[n + 1] = <<>>
        BY <1>5, <3>1 DEF Symbol
      <4> QED
        BY <4>1, Pieces, Zenon
    <3> QED
      BY <1>5, <3>1, <3>3, <3>4, <3>5, <3>6 DEF Rest, EndOf, More, After
  <2>3. CASE n <= l
    <3>1. /\ n \in 1 .. l /\ n \in 1 .. l + 1 /\ n + 1 \in 1 .. l + 1 /\ ~(n > l)
          /\ ~(n > Len(more)) /\ n <= Len(more) /\ n # Len(more) /\ n < Len(more)
          /\ more[n] = keys[n] /\ (n < l => more[n + 1] = keys[n + 1] /\ n + 2 \in 1 .. l + 1)
          /\ (n = l => more[n + 1] = c /\ n + 2 = l + 2)
      BY <1>1, <2>3
    <3>2. /\ f[n] = Rest(f, keys, n) /\ e[n] = EndOf(e, keys, n)
          /\ g[n] = f[n] \o More(e[n], c) /\ d[n] = After(e[n], c)
          /\ g[n] \in Seq(Symbol) /\ d[n] \in State
      BY <1>3, <1>4, <1>5, <3>1
    <3>3. CASE keys[n] # CtrlA
      <4>1. f[n] = <<keys[n]>> \o f[n + 1] /\ e[n] = e[n + 1]
        BY <3>1, <3>2, <3>3 DEF Rest, EndOf, l
      <4>2. Rest(g, more, n) = <<keys[n]>> \o g[n + 1] /\ EndOf(d, more, n) = d[n + 1]
        BY <3>1, <3>3 DEF Rest, EndOf
      <4>3. g[n + 1] = f[n + 1] \o More(e[n + 1], c) /\ d[n + 1] = After(e[n + 1], c)
        BY <1>5, <3>1
      <4>4. (<<keys[n]>> \o f[n + 1]) \o More(e[n + 1], c) = <<keys[n]>> \o (f[n + 1] \o More(e[n + 1], c))
        <5>1. <<keys[n]>> \in Seq(Symbol)
          BY <1>2, <3>1 DEF Symbol
        <5>2. f[n + 1] \in Seq(Symbol) /\ More(e[n + 1], c) \in Seq(Symbol)
          BY <1>3, <1>4, <3>1
        <5>3. Associative(<<keys[n]>>, f[n + 1], More(e[n + 1], c))
          BY <5>1, <5>2, Pieces, Zenon
        <5> QED
          BY <5>3 DEF Associative
      <4> QED
        BY <3>2, <4>1, <4>2, <4>3, <4>4
    <3>4. CASE keys[n] = CtrlA /\ n = l
      <4>1. f[n] = <<>> /\ e[n] = "esc"
        BY <3>1, <3>2, <3>4 DEF Rest, EndOf, l
      <4>2. More("esc", c) \in Seq(Symbol)
        BY Additions DEF State
      <4>3. g[n] = More("esc", c) /\ d[n] = After("esc", c)
        BY <3>2, <4>1, <4>2, Pieces
      <4>4. g[n + 2] = <<>> /\ d[n + 2] = "plain"
        BY <1>5, <3>1, <3>4
      <4>5. <<CtrlA>> \o <<>> = <<CtrlA>> /\ <<CtrlA, c>> \o <<>> = <<CtrlA, c>>
        <5>1. <<CtrlA>> \in Seq(Symbol) /\ <<CtrlA, c>> \in Seq(Symbol)
          BY BytesAssumption DEF BytesAssumption, Symbol
        <5> QED
          BY <5>1, Pieces
      <4>6. EndOf(d, more, n) = IF c = KeyX THEN "quit" ELSE "plain"
        BY <3>1, <3>4, <4>4 DEF EndOf
      <4>7. Rest(g, more, n) = More("esc", c)
        BY <3>1, <3>4, <4>4, <4>5, BytesAssumption DEF Rest, More, BytesAssumption
      <4> QED
        BY <3>2, <4>3, <4>6, <4>7 DEF After
    <3>5. CASE keys[n] = CtrlA /\ n < l /\ keys[n + 1] = KeyX
      <4>1. f[n] = <<>> /\ e[n] = "quit"
        BY <3>1, <3>2, <3>5, BytesAssumption DEF Rest, EndOf, l, BytesAssumption
      <4>2. g[n] = <<>> /\ d[n] = "quit"
        BY <3>2, <4>1 DEF More, After
      <4> QED
        BY <3>1, <3>2, <3>5, <4>2, BytesAssumption DEF Rest, EndOf, BytesAssumption
    <3>6. CASE keys[n] = CtrlA /\ n < l /\ keys[n + 1] # KeyX
      <4> DEFINE p == IF keys[n + 1] = CtrlA THEN <<CtrlA>> ELSE <<CtrlA, keys[n + 1]>>
      <4>1. f[n] = p \o f[n + 2] /\ e[n] = e[n + 2]
        BY <3>1, <3>2, <3>6 DEF Rest, EndOf, l
      <4>2. Rest(g, more, n) = p \o g[n + 2] /\ EndOf(d, more, n) = d[n + 2]
        BY <3>1, <3>6 DEF Rest, EndOf
      <4>3. g[n + 2] = f[n + 2] \o More(e[n + 2], c) /\ d[n + 2] = After(e[n + 2], c)
        BY <1>5, <3>1, <3>6
      <4>4. p \in Seq(Symbol)
        <5>1. n + 1 \in 1 .. l
          BY <1>1, <3>1, <3>6
        <5>2. CtrlA \in Symbol /\ keys[n + 1] \in Symbol
          BY <1>2, <5>1, BytesAssumption DEF BytesAssumption, Symbol
        <5> QED
          BY <5>2
      <4>5. f[n + 2] \in Seq(Symbol) /\ More(e[n + 2], c) \in Seq(Symbol)
        BY <1>3, <1>4, <3>1, <3>6
      <4> HIDE DEF p
      <4>6. (p \o f[n + 2]) \o More(e[n + 2], c) = p \o (f[n + 2] \o More(e[n + 2], c))
        <5>1. Associative(p, f[n + 2], More(e[n + 2], c))
          BY <4>4, <4>5, Pieces, Zenon
        <5> QED
          BY <5>1 DEF Associative
      <4> QED
        BY <3>2, <4>1, <4>2, <4>3, <4>6
    <3>7. n = l \/ n < l
      BY <1>1, <2>3
    <3> QED
      BY <3>3, <3>4, <3>5, <3>6, <3>7
  <2>4. n = l + 2 \/ n = l + 1 \/ n <= l
    BY <1>1
  <2> QED
    BY <2>1, <2>2, <2>3, <2>4
<1>8. Reading(g, d, more)
  <2>1. Len(more) + 1 = l + 2
    BY <1>1
  <2> QED
    BY <1>6, <1>7, <2>1 DEF Reading, IsReading
<1>9. g[1] = f[1] \o More(e[1], c) /\ d[1] = After(e[1], c)
  <2>1. 1 \in 1 .. l + 1
    BY <1>1
  <2> QED
    BY <1>5, <2>1
<1> QED
  BY <1>8, <1>9 DEF more, ReadOn

-----------------------------------------------------------------------------
(* The bytes on their way.                                                 *)

(* Appending and taking do not change what the pieces make up together.    *)
Appends(w, q, a)  == w \o Append(q, a) = (w \o q) \o <<a>>
Takes(l, r, q)    == (l \o Append(r, Head(q))) \o Tail(q) = (l \o r) \o q
TwoByOne(w, a, b) == w \o <<a, b>> = (w \o <<a>>) \o <<b>>
Dropped(l, w)     == SubSeq(l \o w, Len(l) + 1, Len(l \o w)) = w

LEMMA AppendsIt ==
  ASSUME NEW w \in Seq(Symbol), NEW q \in Seq(Symbol), NEW a \in Symbol
  PROVE  Appends(w, q, a) /\ Append(q, a) \in Seq(Symbol)
<1>1. Append(q, a) = q \o <<a>> /\ <<a>> \in Seq(Symbol) /\ Append(q, a) \in Seq(Symbol)
  BY AppendIsConcat
<1>2. Associative(w, q, <<a>>)
  BY <1>1, Pieces, Zenon
<1> QED
  BY <1>1, <1>2 DEF Appends, Associative

LEMMA TwoByOneIt ==
  ASSUME NEW w \in Seq(Symbol), NEW a \in Symbol, NEW b \in Symbol
  PROVE  TwoByOne(w, a, b)
<1> DEFINE u == <<a>> \o <<b>>
           v == <<a, b>>
<1>0. u = v
  <2>1. u \in Seq(Symbol) /\ Len(u) = 2 /\ u[1] = a /\ u[2] = b
    OBVIOUS
  <2>2. v \in Seq(Symbol) /\ Len(v) = 2 /\ v[1] = a /\ v[2] = b
    OBVIOUS
  <2> HIDE DEF u, v
  <2>3. \A i \in 1 .. Len(u) : i = 1 \/ i = 2
    BY <2>1
  <2>4. Len(u) = Len(v) /\ \A i \in 1 .. Len(u) : u[i] = v[i]
    BY <2>1, <2>2, <2>3
  <2> QED
    BY <2>1, <2>2, <2>4, SeqEqual
<1>1. <<a>> \in Seq(Symbol) /\ <<b>> \in Seq(Symbol) /\ <<a>> \o <<b>> = <<a, b>>
  BY <1>0
<1>2. Associative(w, <<a>>, <<b>>)
  BY <1>1, Pieces, Zenon
<1> QED
  BY <1>1, <1>2 DEF TwoByOne, Associative

LEMMA TakesIt ==
  ASSUME NEW l \in Seq(Symbol), NEW r \in Seq(Symbol), NEW q \in Seq(Symbol), q # <<>>
  PROVE  Takes(l, r, q) /\ Append(r, Head(q)) \in Seq(Symbol) /\ Tail(q) \in Seq(Symbol)
<1> DEFINE h == Head(q)
           t == Tail(q)
<1>1. h \in Symbol /\ t \in Seq(Symbol) /\ <<h>> \in Seq(Symbol) /\ q = <<h>> \o t
  OBVIOUS
<1>2. Append(r, h) = r \o <<h>> /\ Append(r, h) \in Seq(Symbol)
  BY <1>1, AppendIsConcat
<1> HIDE DEF h, t
<1>3. r \o <<h>> \in Seq(Symbol) /\ l \o r \in Seq(Symbol)
  BY <1>1, Pieces, Zenon
<1>4. /\ Associative(l, r, <<h>>) /\ Associative(l \o r, <<h>>, t)
  BY <1>1, <1>3, Pieces, Zenon
<1>5. (l \o Append(r, h)) \o t = (l \o r) \o q
  BY <1>1, <1>2, <1>4 DEF Associative
<1> QED
  BY <1>1, <1>2, <1>5 DEF Takes, h, t

LEMMA DroppedIt ==
  ASSUME NEW l \in Seq(Symbol), NEW w \in Seq(Symbol)
  PROVE  Dropped(l, w)
<1> DEFINE s == l \o w
           m == Len(l)
           n == Len(w)
<1>1. m \in Nat /\ n \in Nat /\ s \in Seq(Symbol) /\ Len(s) = m + n
  BY ConcatProperties
<1>2. \A i \in 1 .. n : s[m + i] = w[i]
  OBVIOUS
<1>3. \A i \in m + 1 .. m + n : s[i] \in Symbol
  BY <1>1
<1> DEFINE u == SubSeq(s, m + 1, m + n)
<1> HIDE DEF s, m, n
<1>4. u \in Seq(Symbol) /\ Len(u) = n /\ \A i \in 1 .. n : u[i] = s[m + i]
  <2>1. /\ u \in Seq(Symbol) /\ Len(u) = IF m + 1 <= m + n THEN (m + n) - (m + 1) + 1 ELSE 0
        /\ \A i \in 1 .. (m + n) - (m + 1) + 1 : u[i] = s[(m + 1) + i - 1]
    BY <1>1, <1>3, SubSeqProperties
  <2>2. (m + n) - (m + 1) + 1 = n /\ (~(m + 1 <= m + n) => n = 0)
        /\ \A i \in 1 .. n : (m + 1) + i - 1 = m + i
    BY <1>1
  <2> HIDE DEF u
  <2> QED
    BY <2>1, <2>2
<1> HIDE DEF u
<1>5. u = w
  <2>1. Len(u) = Len(w) /\ \A i \in 1 .. Len(u) : u[i] = w[i]
    BY <1>2, <1>4 DEF n
  <2> QED
    BY <1>4, <2>1, SeqEqual
<1> QED
  BY <1>1, <1>5 DEF Dropped, u, s, m

-----------------------------------------------------------------------------
(* What the keys typed so far mean, and what is on its way to the guest.   *)

EndsIn(keys, s) == \E f, e : Reading(f, e, keys) /\ e[1] = s

LEMMA NoKeys == Meaning(<<>>) = <<>> /\ EndsIn(<<>>, "plain")
<1> DEFINE f == [n \in 1 .. 1 |-> <<>>]
           e == [n \in 1 .. 1 |-> "plain"]
<1>1. f[1] = <<>> /\ e[1] = "plain" /\ f = [n \in 1 .. 1 |-> f[n]] /\ Len(<<>>) = 0
  OBVIOUS
<1> HIDE DEF f, e
<1>2. <<>> \in Seq(Byte) /\ <<>> \in Seq(Symbol)
  OBVIOUS
<1>3. \A n \in 1 .. Len(<<>>) + 1 : n = 1 /\ n > Len(<<>>) /\ ~(n <= Len(<<>>)) /\ n # Len(<<>>) /\ ~(n < Len(<<>>))
  BY <1>1
<1>4. \A n \in 1 .. Len(<<>>) + 1 : f[n] = Rest(f, <<>>, n) /\ e[n] = EndOf(e, <<>>, n)
  BY <1>1, <1>3 DEF Rest, EndOf
<1>5. Len(<<>>) + 1 = 1
  BY <1>1
<1>6. IsReading(f, <<>>)
  BY <1>1, <1>4, <1>5 DEF IsReading
<1>7. Reading(f, e, <<>>)
  BY <1>1, <1>2, <1>3, <1>4, <1>6 DEF Reading, State
<1>8. Meaning(<<>>) = f[1]
  BY <1>2, <1>6, MeaningIs
<1> QED
  BY <1>1, <1>7, <1>8 DEF EndsIn

(* A key typed adds to what the keys mean.                                 *)
LEMMA KeyAdds ==
  ASSUME NEW keys \in Seq(Byte), NEW c \in Byte, NEW s, EndsIn(keys, s)
  PROVE  /\ Meaning(keys) \in Seq(Symbol)
         /\ Meaning(Append(keys, c)) = Meaning(keys) \o More(s, c)
         /\ EndsIn(Append(keys, c), After(s, c))
<1> DEFINE more == Append(keys, c)
<1>1. PICK f, e : Reading(f, e, keys) /\ e[1] = s
  BY DEF EndsIn
<1>2. PICK g, d : Reading(g, d, more) /\ g[1] = f[1] \o More(e[1], c) /\ d[1] = After(e[1], c)
  <2>1. Reading(f, e, keys)
    BY <1>1
  <2>2. ReadOn(f, e, keys, c)
    BY <2>1, OneMoreKey, Zenon
  <2> QED
    BY <2>2 DEF ReadOn
<1>3. more \in Seq(Byte) /\ 1 \in 1 .. Len(keys) + 1
  OBVIOUS
<1> HIDE DEF more
<1>4. g[1] = f[1] \o More(s, c) /\ d[1] = After(s, c)
  BY <1>1, <1>2
<1>5. Meaning(keys) = f[1] /\ Meaning(more) = g[1]
  BY <1>1, <1>2, <1>3, MeaningIs DEF Reading
<1>6. f[1] \in Seq(Symbol)
  BY <1>1, <1>3 DEF Reading
<1> QED
  BY <1>2, <1>4, <1>5, <1>6 DEF EndsIn, more

LEMMA QueueNow ==
  ASSUME TypeOK
  PROVE  /\ RxQueue \in Seq(Symbol) /\ Len(RxQueue) = RxCount
         /\ RxQueue = <<>> <=> rx_head = rx_tail
<1>1. rx_buf \in [Slots -> Symbol] /\ rx_head \in Slots /\ rx_tail \in Slots
  BY DEF TypeOK, Symbol
<1>2. IsQueue(Queue(rx_buf, rx_head, rx_tail), Symbol, Count(rx_head, rx_tail))
  BY <1>1, QueueIsSeq
<1>3. EmptyOrNot(rx_buf, rx_head, rx_tail)
  BY <1>1, EmptyQueue
<1>4. RxQueue = Queue(rx_buf, rx_head, rx_tail) /\ RxCount = Count(rx_head, rx_tail)
  BY DEF RxQueue, RxCount, Queue, Count
<1> QED
  BY <1>2, <1>3, <1>4 DEF IsQueue, EmptyOrNot

LEMMA PushedLast ==
  ASSUME TypeOK, NEW c \in Byte, Push(c)
  PROVE  /\ UNCHANGED <<lcr, mcr, driver, received, cleared>>
         /\ ~dropped' => ~dropped /\ RxQueue' = Append(RxQueue, c)
<1>1. RingPut(c) /\ UNCHANGED <<lcr, mcr, driver, received, cleared>>
      /\ dropped' = (dropped \/ (rx_head + 1) % RxBuf = rx_tail)
  BY DEF Push, PushRx
<1>2. ASSUME (rx_head + 1) % RxBuf # rx_tail PROVE RxQueue' = Append(RxQueue, c)
  <2>1. rx_buf \in [Slots -> Symbol] /\ rx_head \in Slots /\ rx_tail \in Slots /\ c \in Symbol
    BY DEF TypeOK, Symbol
  <2>2. Roomy(rx_head, rx_tail)
    BY <1>2, Zenon DEF Roomy
  <2>3. Appended(rx_buf, rx_head, rx_tail, c)
    BY <2>1, <2>2, PutAppends, Zenon
  <2>4. Content' = Queue([rx_buf EXCEPT ![rx_head] = c], (rx_head + 1) % RxBuf, rx_tail)
    BY <1>1, <1>2 DEF RingPut, Content
  <2>5. Content = Queue(rx_buf, rx_head, rx_tail)
    BY DEF Content
  <2> QED
    BY <2>3, <2>4, <2>5, QueueIsContent DEF Appended
<1> QED
  BY <1>1, <1>2

LEMMA ReadFirst ==
  ASSUME TypeOK, ReadRx, lcr = "plain", rx_head # rx_tail
  PROVE  RxQueue # <<>> /\ outcome' = Head(RxQueue) /\ RxQueue' = Tail(RxQueue)
<1>1. rx_buf \in [Slots -> Symbol] /\ rx_head \in Slots /\ rx_tail \in Slots
  BY DEF TypeOK, Symbol
<1>2. /\ Queue(rx_buf, rx_head, rx_tail) # <<>>
      /\ Head(Queue(rx_buf, rx_head, rx_tail)) = rx_buf[rx_tail]
      /\ Queue(rx_buf, rx_head, (rx_tail + 1) % RxBuf) = Tail(Queue(rx_buf, rx_head, rx_tail))
  BY <1>1, GetTakesHead, Zenon
<1>3. /\ outcome' = rx_buf[rx_tail] /\ rx_tail' = (rx_tail + 1) % RxBuf
      /\ rx_buf' = rx_buf /\ rx_head' = rx_head
  BY DEF ReadRx, Dlab
<1> QED
  BY <1>2, <1>3, QueueIsContent DEF Content

LEMMA Kept ==
  ASSUME RingUntouched \/ UNCHANGED serial
  PROVE  RxQueue' = RxQueue
<1>1. Content' = Content
  BY DEF RingUntouched, serial, ring, Content
<1> QED
  BY <1>1, QueueIsContent

LEMMA Emptied ==
  ASSUME TypeOK, RingClear
  PROVE  RxQueue' = <<>>
BY ClearRefines DEF Fifo!Clear

-----------------------------------------------------------------------------
(* The account of the bytes: what the keys mean is what the FIFO reset     *)
(* lost, what the driver received, what is in the ring and what the        *)
(* console holds.                                                          *)

Held(state, keys) == IF state = "push" THEN <<keys[Len(keys)]>> ELSE <<>>
Mode(state, escape) == IF state = "quit" THEN "quit" ELSE IF escape THEN "esc" ELSE "plain"

KeysInv ==
  /\ esc \in BOOLEAN
  /\ console \in {"push", "quit"} => ~esc
  /\ EndsIn(typed, Mode(console, esc))

PlainLine == lcr = "plain" /\ "LOOP" \notin mcr

Before(lost) ==
  /\ lost \in Seq(Symbol) /\ received \in Seq(Symbol)
  /\ Len(lost) = cleared
  /\ driver = "fcr" => lost = <<>> /\ received = <<>>

Balance(lost) ==
  ~dropped => Meaning(typed) = ((lost \o received) \o RxQueue) \o Held(console, typed)

OrderInv == KeysInv /\ PlainLine /\ \E lost : Before(lost) /\ Balance(lost)

LEMMA OrderStart == Init => OrderInv
<1> SUFFICES ASSUME Init PROVE OrderInv
  OBVIOUS
<1>1. KeysInv
  BY NoKeys DEF Init, KeysInv, Mode
<1>2. PlainLine
  BY DEF Init, SerialInit, PlainLine
<1>3. <<>> \in Seq(Symbol) /\ Len(<<>>) = 0
  OBVIOUS
<1>4. Before(<<>>)
  BY <1>3 DEF Init, Before
<1>5. TypeOK /\ rx_head = rx_tail
  BY UartStart DEF Init, SerialInit
<1>6. RxQueue = <<>>
  BY <1>5, QueueNow
<1>7. ((<<>> \o <<>>) \o <<>>) \o <<>> = <<>>
  BY <1>3, Pieces
<1>8. Balance(<<>>)
  BY <1>6, <1>7, NoKeys DEF Init, Balance, Held
<1> QED
  BY <1>1, <1>2, <1>4, <1>8 DEF OrderInv

(* A byte pushed is added to those on their way.                           *)
LEMMA OnTheWay ==
  ASSUME TypeOK, NEW lost, Before(lost), NEW c \in Byte, Push(c)
  PROVE  /\ Before(lost)' /\ (PlainLine => PlainLine')
         /\ (lost \o received) \o RxQueue \in Seq(Symbol)
         /\ ~dropped' => /\ ~dropped
                         /\ (lost \o received') \o RxQueue' = ((lost \o received) \o RxQueue) \o <<c>>
<1>1. /\ UNCHANGED <<lcr, mcr, driver, received, cleared>>
      /\ ~dropped' => ~dropped /\ RxQueue' = Append(RxQueue, c)
  BY PushedLast
<1>2. lost \o received \in Seq(Symbol) /\ RxQueue \in Seq(Symbol) /\ c \in Symbol
  BY QueueNow, Pieces DEF Before, Symbol
<1>3. (lost \o received) \o RxQueue \in Seq(Symbol)
  BY <1>2, Pieces
<1>4. Appends(lost \o received, RxQueue, c)
  BY <1>2, AppendsIt, Zenon
<1>5. Before(lost)' /\ (PlainLine => PlainLine')
  BY <1>1 DEF Before, PlainLine
<1> QED
  BY <1>1, <1>3, <1>4, <1>5 DEF Appends

(* Reading a key and pushing what it completes.                            *)
LEMMA KeyKeeps ==
  ASSUME TypeOK, KeysTyped, OrderInv, NEW c \in Byte, ReadKey(c)
  PROVE  OrderInv'
<1> DEFINE s == Mode(console, esc)
           m == Meaning(typed)
<1>1. PICK lost : Before(lost) /\ Balance(lost)
  BY DEF OrderInv
<1>2. KeysInv /\ PlainLine /\ typed \in Seq(Byte) /\ console = "read" /\ typed' = Append(typed, c)
  BY DEF OrderInv, KeysTyped, ReadKey
<1>3. s = (IF esc THEN "esc" ELSE "plain") /\ EndsIn(typed, s)
  BY <1>2 DEF KeysInv, Mode
<1>4. m \in Seq(Symbol) /\ Meaning(typed') = m \o More(s, c) /\ EndsIn(typed', After(s, c))
  BY <1>2, <1>3, KeyAdds
<1>5. Len(typed') = Len(typed) + 1 /\ typed'[Len(typed')] = c
  BY <1>2
<1>6. ASSUME ~dropped PROVE m = (lost \o received) \o RxQueue
  <2>1. m = ((lost \o received) \o RxQueue) \o <<>>
    BY <1>1, <1>2, <1>6 DEF Balance, Held
  <2>2. lost \o received \in Seq(Symbol) /\ RxQueue \in Seq(Symbol)
    BY <1>1, QueueNow, Pieces DEF Before
  <2>3. (lost \o received) \o RxQueue \in Seq(Symbol)
    BY <2>2, Pieces
  <2> QED
    BY <2>1, <2>3, Pieces
<1>7. CtrlA \in Byte /\ KeyX # CtrlA
  BY BytesAssumption DEF BytesAssumption
<1>8. m \o <<>> = m
  BY <1>4, Pieces
<1> HIDE DEF s, m
<1>9. CASE More(s, c) = <<>> /\ console' \in {"read", "quit"} /\ UNCHANGED <<serial, dropped, guest>>
           /\ esc' \in BOOLEAN /\ (console' = "quit" => ~esc') /\ After(s, c) = Mode(console', esc')
  <2>1. KeysInv'
    BY <1>4, <1>9 DEF KeysInv
  <2>2. PlainLine'
    BY <1>2, <1>9 DEF PlainLine, serial
  <2>3. Before(lost)'
    BY <1>1, <1>9 DEF Before, guest
  <2>4. RxQueue' = RxQueue /\ received' = received /\ dropped' = dropped
    BY <1>9, Kept DEF guest
  <2>5. Held(console', typed') = <<>>
    BY <1>9 DEF Held
  <2>6. ASSUME ~dropped PROVE Meaning(typed') = ((lost \o received) \o RxQueue) \o <<>>
    BY <1>4, <1>6, <1>9, <2>6, <1>8
  <2>7. Balance(lost)'
    BY <2>4, <2>5, <2>6 DEF Balance
  <2> QED
    BY <2>1, <2>2, <2>3, <2>7 DEF OrderInv
<1>10. ASSUME NEW b \in Byte, Push(b), esc' = FALSE, After(s, c) = "plain",
              console' \in {"read", "push"},
              m \o More(s, c) = (m \o <<b>>) \o Held(console', typed')
       PROVE  OrderInv'
  <2>1. KeysInv'
    BY <1>4, <1>10 DEF KeysInv, Mode
  <2>2. /\ Before(lost)' /\ PlainLine'
        /\ ~dropped' => /\ ~dropped
                        /\ (lost \o received') \o RxQueue' = ((lost \o received) \o RxQueue) \o <<b>>
    BY <1>1, <1>2, <1>10, OnTheWay
  <2>3. Balance(lost)'
    BY <1>4, <1>6, <1>10, <2>2 DEF Balance
  <2> QED
    BY <2>1, <2>2, <2>3 DEF OrderInv
<1>11. CASE esc /\ c = KeyX /\ console' = "quit" /\ esc' = FALSE /\ UNCHANGED <<serial, dropped, guest>>
  <2>1. s = "esc" /\ c # CtrlA
    BY <1>3, <1>7, <1>11
  <2>2. More(s, c) = <<>> /\ After(s, c) = "quit"
    BY <1>11, <2>1 DEF More, After
  <2>3. Mode(console', esc') = "quit"
    BY <1>11 DEF Mode
  <2> QED
    BY <1>9, <1>11, <2>2, <2>3
<1>12. CASE esc /\ c \notin {CtrlA, KeyX} /\ console' = "push" /\ esc' = FALSE /\ Push(CtrlA)
  <2>1. s = "esc" /\ c # CtrlA /\ c # KeyX
    BY <1>3, <1>12
  <2>2. More(s, c) = <<CtrlA, c>> /\ After(s, c) = "plain"
    BY <2>1 DEF More, After
  <2>3. Held(console', typed') = <<c>>
    BY <1>5, <1>12 DEF Held
  <2>4. TwoByOne(m, CtrlA, c)
    BY <1>4, <1>7, TwoByOneIt DEF Symbol
  <2>5. m \o More(s, c) = (m \o <<CtrlA>>) \o Held(console', typed')
    BY <2>2, <2>3, <2>4 DEF TwoByOne
  <2> QED
    BY <1>7, <1>10, <1>12, <2>2, <2>5
<1>13. CASE ~esc /\ c = CtrlA /\ esc' = TRUE /\ UNCHANGED <<console, serial, dropped, guest>>
  <2>1. s = "plain"
    BY <1>3, <1>13
  <2>2. More(s, c) = <<>> /\ After(s, c) = "esc"
    BY <1>13, <2>1 DEF More, After
  <2>3. Mode(console', esc') = "esc" /\ console' = "read"
    BY <1>2, <1>13 DEF Mode
  <2> QED
    BY <1>9, <1>13, <2>2, <2>3
<1>14. CASE (esc <=> c = CtrlA) /\ esc' = FALSE /\ Push(c) /\ console' = console
  <2>1. More(s, c) = <<c>> /\ After(s, c) = "plain"
    BY <1>3, <1>7, <1>14 DEF More, After
  <2>2. Held(console', typed') = <<>>
    BY <1>2, <1>14 DEF Held
  <2>3. m \o <<c>> \in Seq(Symbol)
    <3>1. <<c>> \in Seq(Symbol)
      BY DEF Symbol
    <3> QED
      BY <1>4, <3>1, Pieces
  <2>4. (m \o <<c>>) \o <<>> = m \o <<c>>
    BY <2>3, Pieces
  <2> QED
    BY <1>2, <1>10, <1>14, <2>1, <2>2, <2>4
<1> QED
  BY <1>11, <1>12, <1>13, <1>14 DEF ReadKey

(* The second key of an escape.                                            *)
LEMMA SecondKeeps ==
  ASSUME TypeOK, KeysTyped, OrderInv, PushSecond
  PROVE  OrderInv'
<1> DEFINE c == typed[Len(typed)]
<1>1. PICK lost : Before(lost) /\ Balance(lost)
  BY DEF OrderInv
<1>2. /\ KeysInv /\ PlainLine /\ console = "push" /\ console' = "read" /\ Push(c)
      /\ UNCHANGED <<typed, esc>>
  BY DEF OrderInv, PushSecond
<1>3. c \in Byte
  BY <1>2, LastKey
<1>4. KeysInv'
  BY <1>2 DEF KeysInv, Mode
<1> HIDE DEF c
<1>5. /\ Before(lost)' /\ PlainLine' /\ (lost \o received) \o RxQueue \in Seq(Symbol)
      /\ ~dropped' => /\ ~dropped
                      /\ (lost \o received') \o RxQueue' = ((lost \o received) \o RxQueue) \o <<c>>
  BY <1>1, <1>2, <1>3, OnTheWay
<1>6. Held(console, typed) = <<c>> /\ Held(console', typed') = <<>>
  BY <1>2 DEF Held, c
<1>7. (((lost \o received) \o RxQueue) \o <<c>>) \o <<>> = ((lost \o received) \o RxQueue) \o <<c>>
  <2>1. <<c>> \in Seq(Symbol)
    BY <1>3 DEF Symbol
  <2>2. ((lost \o received) \o RxQueue) \o <<c>> \in Seq(Symbol)
    BY <1>5, <2>1, Pieces
  <2> QED
    BY <2>2, Pieces
<1>8. Balance(lost)'
  BY <1>1, <1>2, <1>5, <1>6, <1>7 DEF Balance
<1> QED
  BY <1>4, <1>5, <1>8 DEF OrderInv

(* A step of the driver that leaves the ring and what it received alone.   *)
LEMMA DriverIdles ==
  ASSUME OrderInv, UNCHANGED <<typed, console, esc, dropped, received, cleared>>,
         RxQueue' = RxQueue, PlainLine', driver' # "fcr"
  PROVE  OrderInv'
<1>1. PICK lost : Before(lost) /\ Balance(lost)
  BY DEF OrderInv
<1>2. Before(lost)' /\ Balance(lost)'
  BY <1>1 DEF Before, Balance
<1>3. KeysInv'
  BY DEF OrderInv, KeysInv
<1> QED
  BY <1>2, <1>3 DEF OrderInv

(* The reset of the FIFO loses what is in the ring.                        *)
LEMMA ResetKeeps ==
  ASSUME TypeOK, OrderInv, WriteFcr(TRUE, TRUE), cleared' = RxCount,
         DriverMoves("fcr", "mcr"), received' = received
  PROVE  OrderInv'
<1>1. PICK lost : Before(lost) /\ Balance(lost)
  BY DEF OrderInv
<1>2. UNCHANGED <<typed, console, esc, dropped>> /\ driver = "fcr" /\ driver' = "mcr"
  BY DEF DriverMoves, keyboard
<1>3. PlainLine' /\ RingClear
  BY DEF OrderInv, PlainLine, WriteFcr
<1>4. RxQueue' = <<>> /\ RxQueue \in Seq(Symbol) /\ Len(RxQueue) = RxCount
  BY <1>3, Emptied, QueueNow
<1>5. lost = <<>> /\ received = <<>> /\ received' = <<>>
  BY <1>1, <1>2 DEF Before
<1>6. ((<<>> \o <<>>) \o RxQueue) = RxQueue /\ ((RxQueue \o <<>>) \o <<>>) = RxQueue
  <2>1. <<>> \in Seq(Symbol)
    OBVIOUS
  <2> QED
    BY <1>4, <2>1, Pieces
<1>7. ASSUME NEW q, q = RxQueue PROVE Before(q)' /\ Balance(q)'
  <2>1. Before(q)'
    BY <1>2, <1>4, <1>5, <1>7 DEF Before
  <2>2. /\ Meaning(typed') = Meaning(typed) /\ Held(console', typed') = Held(console, typed)
        /\ dropped' = dropped
    BY <1>2
  <2>3. (lost \o received) \o RxQueue = (q \o received') \o RxQueue'
    BY <1>4, <1>5, <1>6, <1>7
  <2> QED
    BY <1>1, <2>1, <2>2, <2>3 DEF Balance
<1>8. KeysInv'
  BY <1>2 DEF OrderInv, KeysInv
<1> QED
  BY <1>3, <1>7, <1>8 DEF OrderInv

(* What the driver takes goes from the head of the ring to the end of what *)
(* it received.                                                            *)
LEMMA ReceiveKeeps ==
  ASSUME TypeOK, OrderInv, HandlerReceives
  PROVE  OrderInv'
<1>1. PICK lost : Before(lost) /\ Balance(lost)
  BY DEF OrderInv
<1>2. /\ UNCHANGED <<typed, console, esc, dropped, cleared>>
      /\ driver' # "fcr" /\ driver' \in {"rx", "tx"}
  BY DEF HandlerReceives, DriverMoves, keyboard
<1>3. CASE rx_head = rx_tail
  <2>1. AccessPlain /\ received' = received
    BY <1>3 DEF HandlerReceives
  <2>2. RxQueue' = RxQueue
    BY <2>1, Kept DEF AccessPlain
  <2>3. PlainLine'
    BY <2>1 DEF AccessPlain, OrderInv, PlainLine
  <2> QED
    BY <1>2, <2>1, <2>2, <2>3, DriverIdles
<1>4. CASE rx_head # rx_tail
  <2>1. ReadRx /\ received' = Append(received, outcome')
    BY <1>4 DEF HandlerReceives
  <2>2. RxQueue # <<>> /\ outcome' = Head(RxQueue) /\ RxQueue' = Tail(RxQueue)
    BY <1>4, <2>1, ReadFirst DEF OrderInv, PlainLine
  <2>3. lost \in Seq(Symbol) /\ received \in Seq(Symbol) /\ RxQueue \in Seq(Symbol)
    BY <1>1, QueueNow DEF Before
  <2>4. Takes(lost, received, RxQueue) /\ Append(received, Head(RxQueue)) \in Seq(Symbol)
    BY <2>2, <2>3, TakesIt, Zenon
  <2>5. (lost \o received') \o RxQueue' = (lost \o received) \o RxQueue /\ received' \in Seq(Symbol)
    BY <2>1, <2>2, <2>4 DEF Takes
  <2>6. Before(lost)'
    BY <1>1, <1>2, <2>5 DEF Before
  <2>7. Balance(lost)'
    BY <1>1, <1>2, <2>5 DEF Balance
  <2>8. PlainLine'
    BY <2>1 DEF ReadRx, OrderInv, PlainLine
  <2>9. KeysInv'
    BY <1>2 DEF OrderInv, KeysInv
  <2> QED
    BY <2>6, <2>7, <2>8, <2>9 DEF OrderInv
<1> QED
  BY <1>3, <1>4

LEMMA OrderStep ==
  ASSUME TypeOK, KeysTyped, OrderInv, [Next]_vars
  PROVE  OrderInv'
<1>1. CASE \E c \in Byte : ReadKey(c)
  BY <1>1, KeyKeeps
<1>2. CASE PushSecond
  BY <1>2, SecondKeeps
<1>3. CASE EndOfInput
  <2>1. /\ UNCHANGED <<serial, typed, esc, dropped, received, cleared, driver>>
        /\ console = "read" /\ console' = "eof"
    BY <1>3 DEF EndOfInput, guest
  <2>2. PICK lost : Before(lost) /\ Balance(lost)
    BY DEF OrderInv
  <2>3. KeysInv' /\ PlainLine'
    BY <2>1 DEF OrderInv, KeysInv, Mode, PlainLine, serial
  <2>4. RxQueue' = RxQueue
    BY <2>1, Kept
  <2>5. Held(console', typed') = Held(console, typed)
    BY <2>1 DEF Held
  <2>6. Before(lost)' /\ Balance(lost)'
    BY <2>1, <2>2, <2>4, <2>5 DEF Before, Balance
  <2> QED
    BY <2>3, <2>6 DEF OrderInv
<1>4. CASE SetUp
  <2>1. received' = received
    BY <1>4 DEF SetUp
  <2>2. CASE WriteFcr(TRUE, TRUE) /\ cleared' = RxCount /\ DriverMoves("fcr", "mcr")
    BY <2>1, <2>2, ResetKeeps
  <2>3. CASE /\ \/ WriteMcr({"OUT2"}) /\ DriverMoves("mcr", "ier")
                \/ WriteIer({"RDI"}) /\ DriverMoves("ier", "idle")
             /\ cleared' = cleared
    <3>1. RingUntouched /\ lcr' = lcr /\ (mcr' = mcr \/ mcr' = {"OUT2"})
      BY <2>3 DEF WriteMcr, WriteIer
    <3>2. UNCHANGED <<typed, console, esc, dropped>> /\ driver' # "fcr"
      BY <2>3 DEF DriverMoves, keyboard
    <3>3. RxQueue' = RxQueue /\ PlainLine'
      BY <3>1, Kept DEF OrderInv, PlainLine
    <3> QED
      BY <2>1, <2>3, <3>2, <3>3, DriverIdles
  <2> QED
    BY <1>4, <2>2, <2>3 DEF SetUp
<1>5. CASE HandlerReceives
  BY <1>5, ReceiveKeeps
<1>6. CASE TakeInterrupt \/ HandlerReadsIir \/ HandlerTransmits \/ StartTx \/ UNCHANGED vars
  <2>1. UNCHANGED <<typed, console, esc, dropped, received, cleared>>
    BY <1>6 DEF TakeInterrupt, HandlerReadsIir, HandlerTransmits, StartTx, DriverMoves, keyboard,
                vars, guest
  <2>2. driver' # "fcr" \/ UNCHANGED vars
    BY <1>6 DEF TakeInterrupt, HandlerReadsIir, HandlerTransmits, StartTx, DriverMoves
  <2>3. (RingUntouched /\ UNCHANGED <<lcr, mcr>>) \/ UNCHANGED serial
    <3>1. CASE TakeInterrupt \/ UNCHANGED vars
      BY <3>1 DEF TakeInterrupt, vars
    <3>2. CASE HandlerReadsIir \/ StartTx
      BY <3>2 DEF HandlerReadsIir, StartTx, ReadIir, WriteIer
    <3>3. CASE HandlerTransmits
      <4>1. "LOOP" \notin mcr
        BY DEF OrderInv, PlainLine
      <4> QED
        BY <3>3, <4>1 DEF HandlerTransmits, WriteTx, WriteIer
    <3> QED
      BY <1>6, <3>1, <3>2, <3>3
  <2>4. RxQueue' = RxQueue
    BY <2>3, Kept
  <2>5. PlainLine'
    BY <2>3 DEF OrderInv, PlainLine, serial
  <2>6. CASE driver' # "fcr"
    BY <2>1, <2>4, <2>5, <2>6, DriverIdles
  <2>7. CASE UNCHANGED vars
    <3>1. driver' = driver
      BY <2>7 DEF vars, guest
    <3>2. PICK lost : Before(lost) /\ Balance(lost)
      BY DEF OrderInv
    <3>3. Before(lost)' /\ Balance(lost)'
      BY <2>1, <2>4, <3>1, <3>2 DEF Before, Balance
    <3>4. KeysInv'
      BY <2>1 DEF OrderInv, KeysInv
    <3> QED
      BY <2>5, <3>3, <3>4 DEF OrderInv
  <2> QED
    BY <2>2, <2>6, <2>7
<1> QED
  BY <1>1, <1>2, <1>3, <1>4, <1>5, <1>6 DEF Next, Handler

(* The account gives what the run checks.                                  *)
LEMMA OrderImplies ==
  ASSUME TypeOK, KeysTyped, OrderInv
  PROVE  InputInOrder
<1> DEFINE held == IF console = "push" THEN <<typed[Len(typed)]>> ELSE <<>>
           w == (received \o RxQueue) \o held
<1> SUFFICES ASSUME ~dropped
             PROVE  w = SubSeq(Meaning(typed), cleared + 1, Len(Meaning(typed)))
  BY Zenon DEF InputInOrder
<1>1. PICK lost : Before(lost) /\ Balance(lost)
  BY DEF OrderInv
<1>2. held = Held(console, typed)
  BY DEF Held
<1>3. held \in Seq(Symbol)
  <2>1. CASE console = "push"
    <3>1. typed[Len(typed)] \in Symbol
      BY <2>1, LastKey DEF Symbol
    <3> QED
      BY <2>1, <3>1
  <2>2. CASE console # "push"
    BY <2>2
  <2> QED
    BY <2>1, <2>2
<1>4. lost \in Seq(Symbol) /\ received \in Seq(Symbol) /\ Len(lost) = cleared
  BY <1>1 DEF Before
<1>5. RxQueue \in Seq(Symbol)
  BY QueueNow
<1> HIDE DEF held
<1>6. received \o RxQueue \in Seq(Symbol) /\ w \in Seq(Symbol)
  <2>1. received \o RxQueue \in Seq(Symbol)
    BY <1>4, <1>5, Pieces
  <2> QED
    BY <1>3, <2>1, Pieces
<1>7. Associative(lost, received, RxQueue) /\ Associative(lost, received \o RxQueue, held)
  BY <1>3, <1>4, <1>5, <1>6, Pieces, Zenon
<1>8. Meaning(typed) = ((lost \o received) \o RxQueue) \o held
  BY <1>1, <1>2 DEF Balance
<1>9. Meaning(typed) = lost \o w
  BY <1>7, <1>8 DEF Associative
<1>10. Dropped(lost, w)
  BY <1>4, <1>6, DroppedIt, Zenon
<1> HIDE DEF w
<1> QED
  BY <1>4, <1>9, <1>10 DEF Dropped

(* What the guest receives is what was typed, in order, without a key      *)
(* twice or overtaken, and without an escape ever cut in two, until a byte *)
(* finds the ring full (console.c:41-64, serial8250.c:161-164, :289-304),  *)
(* for any number of keys, any bytes and a ring of any size.               *)
THEOREM InputOrder == Spec => []InputInOrder
<1>1. EdgeInv /\ OrderInv /\ [Next]_vars => OrderInv'
  BY OrderStep DEF EdgeInv
<1>2. EdgeInv /\ OrderInv => InputInOrder
  BY OrderImplies DEF EdgeInv
<1> QED
  BY <1>1, <1>2, OrderStart, EdgeInvariance, PTL DEF Spec
=============================================================================
