------------------------- MODULE PortDevices_proofs -------------------------
(***************************************************************************)
(* Proofs about the devices behind the ports: the keyboard controller for  *)
(* an output buffer of any size, the PM1a registers, the clock for minutes *)
(* and hours of any length; and about all of them, the UART included, in   *)
(* one run.                                                                *)
(***************************************************************************)
EXTENDS MCPortDevices, Serial8250_proofs, FiniteSetTheorems

-----------------------------------------------------------------------------
(* The keyboard controller.                                                *)

Size == ObufSize \in Nat \ {0}

LEMMA SizeHolds == Size
BY PortAssumption DEF PortAssumption, Size

(* Places of the buffer are reduced by at most one turn.                   *)
LEMMA PlaceWrap ==
  ASSUME Size, NEW x \in 0 .. 2 * ObufSize - 1
  PROVE  x % ObufSize = IF x < ObufSize THEN x ELSE x - ObufSize
<1> USE DEF Size
<1>1. CASE x < ObufSize
  BY <1>1
<1>2. CASE x >= ObufSize
  BY <1>2
<1> QED
  BY <1>1, <1>2

-----------------------------------------------------------------------------
(* obuf_push().                                                            *)

Before(cleared) == IF cleared THEN 0 ELSE count
Taken(l, n)     == IF n + l <= ObufSize THEN l ELSE ObufSize - n

(* As many bytes are taken as fit.                                         *)
LEMMA FitsValue ==
  ASSUME Size, NEW l \in Nat, NEW n \in 0 .. ObufSize
  PROVE  /\ {k \in 1 .. l : n + k <= ObufSize} = 1 .. Taken(l, n)
         /\ Cardinality(1 .. Taken(l, n)) = Taken(l, n)
         /\ Taken(l, n) \in Nat
<1> USE DEF Size
<1>1. Taken(l, n) \in Nat
  BY DEF Taken
<1>2. \A k \in Nat : n + k <= ObufSize /\ k <= l <=> k <= Taken(l, n)
  BY DEF Taken
<1>3. {k \in 1 .. l : n + k <= ObufSize} = 1 .. Taken(l, n)
  BY <1>1, <1>2
<1>4. Cardinality(1 .. Taken(l, n)) = Taken(l, n)
  <2> DEFINE m == Taken(l, n)
  <2>1. m \in Nat
    BY <1>1
  <2> HIDE DEF m
  <2>2. Cardinality(1 .. m) = IF 1 > m THEN 0 ELSE m - 1 + 1
    BY <2>1, FS_Interval
  <2>3. Cardinality(1 .. m) = m
    BY <2>1, <2>2
  <2> QED
    BY <2>3 DEF m
<1> QED
  BY <1>1, <1>3, <1>4

(* Bytes are put behind those that are there: the first keeps its place,   *)
(* or is the first of the new ones.                                        *)
LEMMA PushFacts ==
  ASSUME Size, KbcTypeOK, NEW bytes \in Seq(Entries), bytes # <<>>,
         NEW cleared \in BOOLEAN, obuf_push(bytes, cleared)
  PROVE  /\ obuf' \in [Places -> Entries] /\ head' = head
         /\ count' \in Before(cleared) .. ObufSize
         /\ Before(cleared) > 0 => obuf'[head] = obuf[head]
         /\ Before(cleared) = 0 => count' > 0 /\ obuf'[head] = bytes[1]
         /\ \/ update_irq_kbd(cleared, irr)
            \/ obuf' = obuf /\ count' = count /\ Quiet
<1> USE DEF Size
<1> DEFINE n     == Before(cleared)
           l     == Len(bytes)
           m     == Taken(l, n)
           At(k) == (head + n + k - 1) % ObufSize
<1>1. /\ n \in 0 .. ObufSize /\ l \in Nat \ {0} /\ head \in Places
      /\ obuf \in [Places -> Entries] /\ count \in 0 .. ObufSize
  BY DEF KbcTypeOK, Before
<1>2. m \in Nat /\ n + m <= ObufSize /\ m <= l /\ (n < ObufSize => m > 0)
  <2> HIDE DEF n, l
  <2> QED
    BY <1>1 DEF Taken
<1>3. {k \in 1 .. l : n + k <= ObufSize} = 1 .. m /\ Cardinality(1 .. m) = m
  <2> HIDE DEF n, l
  <2> QED
    BY <1>1, FitsValue
<1>4. /\ obuf' = [p \in Places |->
                    IF \E k \in 1 .. m : p = At(k)
                    THEN bytes[CHOOSE k \in 1 .. m : p = At(k)] ELSE obuf[p]]
      /\ count' = n + m /\ head' = head
      /\ IF 1 .. m = {} THEN Quiet ELSE update_irq_kbd(cleared, irr)
  BY <1>3 DEF obuf_push, Before
<1>5. \A k \in 1 .. m : At(k) = IF head + n + k - 1 < ObufSize
                                THEN head + n + k - 1 ELSE head + n + k - 1 - ObufSize
  <2> TAKE k \in 1 .. m
  <2> DEFINE x == head + n + k - 1
  <2>1. x \in 0 .. 2 * ObufSize - 1
    <3> HIDE DEF n, m
    <3> QED
      BY <1>1, <1>2 DEF Places
  <2> HIDE DEF x
  <2>2. x % ObufSize = IF x < ObufSize THEN x ELSE x - ObufSize
    BY <2>1, PlaceWrap
  <2> HIDE DEF n, m
  <2> QED
    BY <1>1, <1>2, <2>2 DEF x, Places
<1>6. obuf' \in [Places -> Entries]
  <2> SUFFICES ASSUME NEW p \in Places PROVE obuf'[p] \in Entries
    BY <1>4
  <2>1. CASE \E k \in 1 .. m : p = At(k)
    <3> DEFINE j == CHOOSE k \in 1 .. m : p = At(k)
    <3>1. j \in 1 .. m
      BY <2>1
    <3>2. obuf'[p] = bytes[j]
      BY <1>4, <2>1
    <3>3. j \in 1 .. Len(bytes)
      <4> HIDE DEF j, m
      <4> QED
        BY <1>1, <1>2, <3>1
    <3> HIDE DEF j
    <3> QED
      BY <3>2, <3>3
  <2>2. CASE ~\E k \in 1 .. m : p = At(k)
    BY <1>1, <1>4, <2>2
  <2> QED
    BY <2>1, <2>2
<1>7. n > 0 => obuf'[head] = obuf[head]
  <2> SUFFICES ASSUME n > 0, NEW k \in 1 .. m PROVE head # At(k)
    BY <1>1, <1>4
  <2>1. At(k) = IF head + n + k - 1 < ObufSize
                THEN head + n + k - 1 ELSE head + n + k - 1 - ObufSize
    BY <1>5
  <2> HIDE DEF n, m, At
  <2> QED
    BY <1>1, <1>2, <2>1 DEF Places
<1>8. n = 0 => m > 0 /\ obuf'[head] = bytes[1]
  <2> SUFFICES ASSUME n = 0 PROVE m > 0 /\ obuf'[head] = bytes[1]
    OBVIOUS
  <2>1. m > 0 /\ 1 \in 1 .. m
    <3> HIDE DEF n, m
    <3> QED
      BY <1>2
  <2>2. \A k \in 1 .. m : head = At(k) <=> k = 1
    <3> TAKE k \in 1 .. m
    <3>1. At(k) = IF head + n + k - 1 < ObufSize
                  THEN head + n + k - 1 ELSE head + n + k - 1 - ObufSize
      BY <1>5
    <3> HIDE DEF n, m, At
    <3> QED
      BY <1>1, <1>2, <3>1 DEF Places
  <2>3. (CHOOSE k \in 1 .. m : head = At(k)) = 1
    <3> HIDE DEF m, At
    <3> QED
      BY <2>1, <2>2
  <2>4. obuf'[head] = bytes[CHOOSE k \in 1 .. m : head = At(k)]
    BY <1>1, <1>4, <2>1, <2>2
  <2> QED
    BY <2>1, <2>3, <2>4
<1>9. \/ update_irq_kbd(cleared, irr)
      \/ obuf' = obuf /\ count' = count /\ Quiet
  <2>1. CASE m > 0
    <3> HIDE DEF m
    <3> QED
      BY <1>2, <1>4, <2>1
  <2>2. CASE m = 0
    <3>1. Quiet
      BY <1>4, <2>2
    <3>2. ~cleared /\ n = count
      BY <1>8, <2>2 DEF Before
    <3>3. obuf' = [p \in Places |-> obuf[p]]
      BY <1>4, <2>2
    <3>4. count' = count
      BY <1>1, <1>4, <2>2, <3>2
    <3> QED
      BY <1>1, <3>1, <3>3, <3>4
  <2>3. m > 0 \/ m = 0
    <3> HIDE DEF m
    <3> QED
      BY <1>2
  <2> QED
    BY <2>1, <2>2, <2>3
<1>10. count' \in n .. ObufSize /\ (n = 0 => count' > 0)
  <2> HIDE DEF n, m
  <2> QED
    BY <1>1, <1>2, <1>4, <1>8
<1> QED
  BY <1>4, <1>6, <1>7, <1>8, <1>9, <1>10

-----------------------------------------------------------------------------
(* The bytes that are pushed.                                              *)

LEMMA KbcEntry ==
  /\ \A c \in DOMAIN Answer : FromKbc(Answer[c]) \in Entries
  /\ FromKbc("byte") \in Entries /\ FromKbc("0") \in Entries
BY Zenon DEF Entries

LEMMA KbdEntry ==
  \A v \in {"ACK", "BAT_OK", "ID0", "ID1", "ECHO", "set2", "byte"} : FromKbd(v) \in Entries
BY Zenon DEF Entries

KbdVal == {"ACK", "BAT_OK", "ID0", "ID1", "ECHO", "set2", "byte"}

LEMMA ReplyBytes ==
  ASSUME NEW vals \in Seq(KbdVal), vals # <<>>
  PROVE  /\ [k \in DOMAIN vals |-> FromKbd(vals[k])] \in Seq(Entries)
         /\ [k \in DOMAIN vals |-> FromKbd(vals[k])] # <<>>
<1> DEFINE bytes == [k \in DOMAIN vals |-> FromKbd(vals[k])]
<1>1. Len(vals) \in Nat \ {0} /\ DOMAIN vals = 1 .. Len(vals)
  OBVIOUS
<1>2. \A k \in 1 .. Len(vals) : FromKbd(vals[k]) \in Entries
  <2> TAKE k \in 1 .. Len(vals)
  <2>1. vals[k] \in KbdVal
    OBVIOUS
  <2> QED
    BY <2>1, KbdEntry DEF KbdVal
<1>3. bytes \in [1 .. Len(vals) -> Entries]
  BY <1>1, <1>2
<1> HIDE DEF bytes
<1>4. bytes \in Seq(Entries) /\ Len(bytes) = Len(vals)
  BY <1>1, <1>3
<1>5. bytes # <<>>
  BY <1>1, <1>4
<1> QED
  BY <1>4, <1>5 DEF bytes

-----------------------------------------------------------------------------
(* What every step keeps.                                                  *)

KbcInv == KbcTypeOK /\ EdgePerByte /\ AnswerIsNext

(* update_irq() sets the line as the first byte wants it, and latches.     *)
LEMMA EdgeLatched ==
  ASSUME NEW lowered \in BOOLEAN, NEW latched \in BOOLEAN, update_irq_kbd(lowered, latched),
         kbd_level \in BOOLEAN, \/ lowered \/ (kbd_level => latched)
  PROVE  EdgePerByte' /\ kbd_level' \in BOOLEAN /\ irr' \in BOOLEAN
BY DEF update_irq_kbd, EdgePerByte, Level

(* A push behind what is there keeps the answer at the front.              *)
LEMMA PushKeeps ==
  ASSUME Size, KbcInv, NEW bytes \in Seq(Entries), bytes # <<>>, obuf_push(bytes, FALSE),
         ctr' = ctr, asked' = asked
  PROVE  /\ obuf' \in [Places -> Entries] /\ head' \in Places /\ count' \in 0 .. ObufSize
         /\ kbd_level' \in BOOLEAN /\ irr' \in BOOLEAN
         /\ EdgePerByte' /\ AnswerIsNext'
<1>1. Before(FALSE) = count
  BY DEF Before
<1>2. /\ obuf' \in [Places -> Entries] /\ head' = head
      /\ count' \in count .. ObufSize
      /\ count > 0 => obuf'[head] = obuf[head]
      /\ \/ update_irq_kbd(FALSE, irr)
         \/ obuf' = obuf /\ count' = count /\ Quiet
  BY <1>1, PushFacts DEF KbcInv
<1>3. head \in Places /\ count \in 0 .. ObufSize /\ kbd_level \in BOOLEAN /\ irr \in BOOLEAN
  BY DEF KbcInv, KbcTypeOK
<1>4. EdgePerByte' /\ kbd_level' \in BOOLEAN /\ irr' \in BOOLEAN
  <2>1. CASE update_irq_kbd(FALSE, irr)
    <3>1. kbd_level => irr
      BY DEF KbcInv, EdgePerByte
    <3> QED
      BY <1>3, <2>1, <3>1, EdgeLatched
  <2>2. CASE obuf' = obuf /\ count' = count /\ Quiet
    BY <1>2, <1>3, <2>2 DEF KbcInv, EdgePerByte, Level, Quiet
  <2> QED
    BY <1>2, <2>1, <2>2
<1>5. AnswerIsNext'
  BY <1>2, <1>3, Size DEF KbcInv, AnswerIsNext, Size
<1>6. count' \in 0 .. ObufSize
  BY <1>2, <1>3 DEF Size
<1> QED
  BY <1>2, <1>3, <1>4, <1>5, <1>6

LEMMA KbcStart == Size /\ KbcInit => KbcInv
<1> SUFFICES ASSUME Size, KbcInit PROVE KbcInv
  OBVIOUS
<1>1. 0 \in Places /\ 0 \in 0 .. ObufSize
  BY DEF Places, Size
<1>2. obuf \in [Places -> Entries]
  BY KbcEntry DEF KbcInit
<1>3. kbd_level \in BOOLEAN /\ irr \in BOOLEAN
  BY Zenon DEF KbcInit
<1>4. KbcTypeOK
  BY <1>1, <1>2, <1>3 DEF KbcInit, KbcTypeOK
<1>5. EdgePerByte /\ AnswerIsNext
  <2>1. ~Level
    BY DEF KbcInit, Level
  <2>2. AnswerIsNext
    BY DEF KbcInit, AnswerIsNext
  <2>3. kbd_level = FALSE /\ Level = FALSE
    BY <2>1 DEF KbcInit, Level
  <2>4. EdgePerByte
    BY <2>1, <2>3, Zenon DEF EdgePerByte
  <2> QED
    BY <2>2, <2>4
<1> QED
  BY <1>4, <1>5 DEF KbcInv

(* A byte is read, and the next one gets its edge.                         *)
LEMMA ReadStep ==
  ASSUME Size, KbcInv, NEW latched \in BOOLEAN, latched = irr \/ ~latched, ReadData(latched)
  PROVE  KbcInv'
<1> USE DEF ReadData
<1>1. /\ head \in Places /\ count \in 0 .. ObufSize /\ kbd_level \in BOOLEAN
      /\ irr \in BOOLEAN
  BY DEF KbcInv, KbcTypeOK
<1>2. /\ head' \in Places /\ count' \in 0 .. ObufSize
      /\ EdgePerByte' /\ kbd_level' \in BOOLEAN /\ irr' \in BOOLEAN
  <2>1. CASE count = 0
    BY <1>1, <2>1 DEF obuf_pop, KbcInv, EdgePerByte, Level
  <2>2. CASE count # 0
    <3>1. head' = (head + 1) % ObufSize /\ count' = count - 1 /\ update_irq_kbd(TRUE, latched)
      BY <2>2 DEF obuf_pop
    <3>2. (head + 1) % ObufSize \in Places
      <4> DEFINE x == head + 1
      <4>1. x \in 0 .. 2 * ObufSize - 1
        BY <1>1 DEF Places, Size
      <4> HIDE DEF x
      <4>2. x % ObufSize \in Places
        BY <4>1, PlaceWrap DEF Places, Size
      <4> QED
        BY <4>2 DEF x
    <3>3. count - 1 \in 0 .. ObufSize
      BY <1>1, <2>2 DEF Size
    <3> QED
      BY <1>1, <3>1, <3>2, <3>3, EdgeLatched
  <2> QED
    BY <2>1, <2>2
<1>3. KbcTypeOK'
  BY <1>2 DEF KbcInv, KbcTypeOK
<1>4. AnswerIsNext'
  BY DEF AnswerIsNext
<1> QED
  BY <1>2, <1>3, <1>4 DEF KbcInv

(* A command empties the buffer and puts its answer there.                 *)
LEMMA CommandStep ==
  ASSUME Size, KbcInv, NEW cmd \in Command, kbc_command(cmd)
  PROVE  KbcInv'
<1>1. /\ head \in Places /\ count \in 0 .. ObufSize /\ kbd_level \in BOOLEAN
      /\ irr \in BOOLEAN /\ obuf \in [Places -> Entries]
      /\ ctr \subseteq {"KBDINT", "KBDDIS"}
      /\ pending_cmd \in TakeArgument \cup {"none"}
  BY DEF KbcInv, KbcTypeOK
<1>2. /\ ctr' \subseteq {"KBDINT", "KBDDIS"}
      /\ pending_cmd' \in TakeArgument \cup {"none"} /\ kbd_pending' = kbd_pending
  BY <1>1 DEF kbc_command, ControlBits
<1>3. asked' \in {Answer[c] : c \in DOMAIN Answer} \cup {"none"}
  BY Zenon DEF kbc_command, Expected
<1>4. /\ obuf' \in [Places -> Entries] /\ head' \in Places /\ count' \in 0 .. ObufSize
      /\ kbd_level' \in BOOLEAN /\ irr' \in BOOLEAN
      /\ EdgePerByte' /\ AnswerIsNext'
  <2>1. CASE cmd \in DOMAIN Answer
    <3> DEFINE e     == FromKbc(Answer[cmd])
               bytes == <<e>>
    <3>1. e \in Entries
      BY <2>1, KbcEntry
    <3>2. asked' = Answer[cmd] /\ obuf_push(bytes, TRUE)
      BY <2>1 DEF kbc_command, Expected
    <3> HIDE DEF e
    <3>3. bytes \in Seq(Entries) /\ bytes # <<>> /\ bytes[1] = e
      BY <3>1
    <3> HIDE DEF bytes
    <3>4. Before(TRUE) = 0
      BY DEF Before
    <3>5. /\ obuf' \in [Places -> Entries] /\ head' = head
          /\ count' \in 0 .. ObufSize /\ count' > 0 /\ obuf'[head] = e
          /\ \/ update_irq_kbd(TRUE, irr)
             \/ obuf' = obuf /\ count' = count /\ Quiet
      BY <3>2, <3>3, <3>4, PushFacts DEF KbcInv
    <3>6. AnswerIsNext'
      BY <3>2, <3>5 DEF AnswerIsNext, e
    <3>7. EdgePerByte' /\ kbd_level' \in BOOLEAN /\ irr' \in BOOLEAN
      <4>1. CASE update_irq_kbd(TRUE, irr)
        BY <1>1, <4>1, EdgeLatched
      <4>2. CASE obuf' = obuf /\ count' = count /\ Quiet
        <5>1. ctr' = ctr
          BY <2>1 DEF kbc_command, ControlBits, Answer
        <5>2. UNCHANGED <<ctr, obuf, head, count, kbd_level, irr>>
          BY <3>5, <4>2, <5>1 DEF Quiet
        <5> QED
          BY <1>1, <5>2 DEF KbcInv, EdgePerByte, Level
      <4> QED
        BY <3>5, <4>1, <4>2
    <3> QED
      BY <1>1, <3>5, <3>6, <3>7
  <2>2. CASE cmd \notin DOMAIN Answer
    <3>1. count' = 0 /\ obuf' = obuf /\ head' = head /\ asked' = "none"
      BY <2>2 DEF kbc_command, Expected
    <3>2. AnswerIsNext' /\ 0 \in 0 .. ObufSize
      BY <3>1 DEF AnswerIsNext, Size
    <3>3. EdgePerByte' /\ kbd_level' \in BOOLEAN /\ irr' \in BOOLEAN
      <4>1. CASE cmd = "KBD_ENABLE"
        <5>1. update_irq_kbd(TRUE, irr)
          BY <2>2, <4>1 DEF kbc_command
        <5> QED
          BY <1>1, <5>1, EdgeLatched
      <4>2. CASE cmd # "KBD_ENABLE"
        <5>1. kbd_level' = FALSE /\ irr' = irr
          BY <2>2, <4>2 DEF kbc_command
        <5>2. Level' = FALSE
          BY <3>1 DEF Level
        <5>3. EdgePerByte'
          BY <5>1, <5>2, Zenon DEF EdgePerByte
        <5> QED
          BY <1>1, <5>1, <5>3
      <4> QED
        BY <4>1, <4>2
    <3> QED
      BY <1>1, <3>1, <3>2, <3>3
  <2> QED
    BY <2>1, <2>2
<1>5. KbcTypeOK'
  BY <1>2, <1>3, <1>4 DEF KbcInv, KbcTypeOK
<1> QED
  BY <1>4, <1>5 DEF KbcInv

(* The byte is an argument, or goes to the keyboard, which answers.        *)
LEMMA DataStep ==
  ASSUME Size, KbcInv, kbc_data_write
  PROVE  KbcInv'
<1>1. /\ head \in Places /\ count \in 0 .. ObufSize /\ kbd_level \in BOOLEAN
      /\ irr \in BOOLEAN /\ obuf \in [Places -> Entries]
      /\ ctr \subseteq {"KBDINT", "KBDDIS"} /\ kbd_pending \in {"SETLEDS", "SSCANSET", "none"}
      /\ asked \in {Answer[c] : c \in DOMAIN Answer} \cup {"none"}
  BY DEF KbcInv, KbcTypeOK
<1>2. pending_cmd' = "none" /\ asked' = asked
  BY DEF kbc_data_write
<1>3. ASSUME /\ obuf' \in [Places -> Entries] /\ head' \in Places /\ count' \in 0 .. ObufSize
             /\ kbd_level' \in BOOLEAN /\ irr' \in BOOLEAN
             /\ EdgePerByte' /\ AnswerIsNext'
             /\ ctr' \subseteq {"KBDINT", "KBDDIS"}
             /\ kbd_pending' \in {"SETLEDS", "SSCANSET", "none"}
      PROVE  KbcInv'
  BY <1>1, <1>2, <1>3 DEF KbcInv, KbcTypeOK
<1>4. ASSUME NEW vals \in Seq(KbdVal), vals # <<>>, Reply(vals), ctr' = ctr,
             kbd_pending' \in {"SETLEDS", "SSCANSET", "none"}
      PROVE  KbcInv'
  <2> DEFINE bytes == [k \in DOMAIN vals |-> FromKbd(vals[k])]
  <2>1. bytes \in Seq(Entries) /\ bytes # <<>>
    BY <1>4, ReplyBytes
  <2>2. obuf_push(bytes, FALSE)
    BY <1>4 DEF Reply
  <2> HIDE DEF bytes
  <2> QED
    BY <1>1, <1>2, <1>3, <1>4, <2>1, <2>2, PushKeeps
<1>5. CASE TakeCtr
  <2>1. ctr' \subseteq {"KBDINT", "KBDDIS"} /\ update_irq_kbd(FALSE, irr)
    BY <1>5 DEF TakeCtr
  <2>2. kbd_level => irr
    BY DEF KbcInv, EdgePerByte
  <2>3. EdgePerByte' /\ kbd_level' \in BOOLEAN /\ irr' \in BOOLEAN
    BY <1>1, <2>1, <2>2, EdgeLatched
  <2>4. AnswerIsNext'
    BY <1>2, <1>5 DEF TakeCtr, KbcInv, AnswerIsNext
  <2> QED
    BY <1>1, <1>3, <1>5, <2>1, <2>3, <2>4 DEF TakeCtr
<1>6. CASE TakeKbdByte
  <2>1. <<"byte">> \in Seq(KbdVal) /\ <<"byte">> # <<>>
    BY DEF KbdVal
  <2> QED
    BY <1>1, <1>4, <1>6, <2>1 DEF TakeKbdByte
<1>7. CASE TakeAuxByte
  <2> DEFINE e     == FromKbc("byte")
             bytes == <<e>>
  <2>1. e \in Entries
    BY KbcEntry
  <2>2. obuf_push(bytes, FALSE) /\ ctr' = ctr /\ kbd_pending' = kbd_pending
    BY <1>7 DEF TakeAuxByte
  <2> HIDE DEF e
  <2>3. bytes \in Seq(Entries) /\ bytes # <<>>
    BY <2>1
  <2> HIDE DEF bytes
  <2> QED
    BY <1>1, <1>2, <1>3, <2>2, <2>3, PushKeeps
<1>8. CASE TakeNothing
  <2>1. UNCHANGED <<ctr, kbd_pending, obuf, head, count, kbd_level, irr>>
    BY <1>8 DEF TakeNothing, Quiet
  <2>2. EdgePerByte' /\ AnswerIsNext'
    BY <1>2, <2>1 DEF KbcInv, EdgePerByte, AnswerIsNext, Level
  <2> QED
    BY <1>1, <1>3, <2>1, <2>2
<1>9. ASSUME NEW v \in KbdByte, PassOn(v) PROVE KbcInv'
  <2>1. /\ <<"ACK">> \in Seq(KbdVal) /\ <<"ACK", "set2">> \in Seq(KbdVal)
        /\ <<"ACK", "BAT_OK">> \in Seq(KbdVal) /\ <<"ACK", "ID0", "ID1">> \in Seq(KbdVal)
        /\ <<"ECHO">> \in Seq(KbdVal)
    BY DEF KbdVal
  <2>2. CASE kbd_pending # "none"
    BY <1>4, <1>9, <2>1, <2>2 DEF PassOn, kbd_write
  <2>3. CASE kbd_pending = "none"
    BY <1>4, <1>9, <2>1, <2>3 DEF PassOn, kbd_write
  <2> QED
    BY <2>2, <2>3
<1> QED
  BY <1>5, <1>6, <1>7, <1>8, <1>9 DEF kbc_data_write

LEMMA KbcKeeps == Size /\ KbcInv /\ [KbcNext]_kbc => KbcInv'
<1> SUFFICES ASSUME Size, KbcInv, [KbcNext]_kbc PROVE KbcInv'
  OBVIOUS
<1>1. irr \in BOOLEAN
  BY DEF KbcInv, KbcTypeOK
<1>2. CASE ReadData(irr)
  BY <1>1, <1>2, ReadStep
<1>3. CASE Interrupt
  BY <1>3, ReadStep DEF Interrupt
<1>4. CASE UNCHANGED kbc
  BY <1>4 DEF kbc, KbcInv, KbcTypeOK, EdgePerByte, AnswerIsNext, Level
<1> QED
  BY <1>2, <1>3, <1>4, CommandStep, DataStep DEF KbcNext

-----------------------------------------------------------------------------

(* The three together are inductive, for an output buffer of any size.     *)
THEOREM KbcInvariance == KbcSpec => []KbcInv
<1>1. KbcInit => KbcInv
  BY KbcStart, SizeHolds
<1>2. KbcInv /\ [KbcNext]_kbc => KbcInv'
  BY KbcKeeps, SizeHolds
<1> QED
  BY <1>1, <1>2, PTL DEF KbcSpec

(* Every byte of the keyboard gets an edge of its own (i8042.c:116-123).   *)
THEOREM Edges == KbcSpec => []EdgePerByte
<1>1. KbcInv => EdgePerByte
  BY DEF KbcInv
<1>2. KbcSpec => []KbcInv
  BY KbcInvariance
<1> QED
  BY <1>1, <1>2, PTL

(* The answer to a command is the next byte read (i8042.c:207-208).        *)
THEOREM Answers == KbcSpec => []AnswerIsNext
<1>1. KbcInv => AnswerIsNext
  BY DEF KbcInv
<1>2. KbcSpec => []KbcInv
  BY KbcInvariance
<1> QED
  BY <1>1, <1>2, PTL

-----------------------------------------------------------------------------
(* The PM1a registers.                                                     *)

(* The six bytes, as RegisterFile has them.                                *)
Bytes == [k \in 0 .. 5 |->
            CASE k = 0 -> sts.lo [] k = 1 -> sts.hi
              [] k = 2 -> en.lo  [] k = 3 -> en.hi
              [] k = 4 -> cnt.lo [] k = 5 -> cnt.hi]

LEMMA PmStart == Pm!Init => Pm!TypeOK
<1> SUFFICES ASSUME Pm!Init PROVE Pm!TypeOK
  OBVIOUS
<1>1. {} \in Pm!File!Octet /\ {} \in SUBSET (Pm!File!Bit \ {Pm!File!SLP_EN})
  BY DEF Pm!File!Octet
<1>2. Pm!Zero \in Pm!Word
  BY <1>1 DEF Pm!Zero, Pm!Word
<1>3. Pm!Zero \in [lo : Pm!File!Octet, hi : SUBSET (Pm!File!Bit \ {Pm!File!SLP_EN})]
  BY <1>1 DEF Pm!Zero
<1>4. access.op = "none" /\ poweroff = FALSE
  BY DEF Pm!Init
<1> QED
  BY <1>2, <1>3, <1>4 DEF Pm!Init, Pm!TypeOK

LEMMA PmTypes ==
  ASSUME Pm!TypeOK, [Pm!Next]_pm
  PROVE  Pm!TypeOK'
<1>1. CASE UNCHANGED pm
  BY <1>1 DEF pm, Pm!TypeOK
<1>2. ASSUME NEW a \in Pm!Accesses, Pm!pm_read(a) PROVE Pm!TypeOK'
  BY <1>2 DEF Pm!pm_read, Pm!TypeOK
<1>3. ASSUME NEW a \in Pm!Accesses, NEW v \in Pm!Word, Pm!pm_write(a, v)
      PROVE  Pm!TypeOK'
  <2>1. access'.op = "write"
    BY <1>3 DEF Pm!pm_write
  <2>2. CASE UNCHANGED <<sts, en, cnt, poweroff>>
    BY <2>1, <2>2 DEF Pm!TypeOK
  <2>3. CASE Pm!ClearSts(v)
    <3>1. sts' = Pm!Zero
      BY <2>3 DEF Pm!ClearSts, Pm!TypeOK, Pm!Zero
    <3> QED
      BY <2>1, <2>3, <3>1 DEF Pm!ClearSts, Pm!TypeOK, Pm!Zero
  <2>4. CASE Pm!SetEn(v)
    BY <2>1, <2>4 DEF Pm!SetEn, Pm!TypeOK, Pm!Zero
  <2>5. CASE Pm!SetCnt(v)
    <3>1. v.lo \in Pm!File!Octet /\ v.hi \in Pm!File!Octet /\ v = [lo |-> v.lo, hi |-> v.hi]
      BY DEF Pm!Word
    <3>2. [v EXCEPT !.hi = @ \ {Pm!File!SLP_EN}] = [lo |-> v.lo, hi |-> v.hi \ {Pm!File!SLP_EN}]
      BY <3>1
    <3>3. v.hi \ {Pm!File!SLP_EN} \in SUBSET (Pm!File!Bit \ {Pm!File!SLP_EN})
      BY <3>1 DEF Pm!File!Octet
    <3>4. poweroff' \in BOOLEAN
      BY <2>5 DEF Pm!SetCnt, Pm!TypeOK
    <3>5. cnt' \in [lo : Pm!File!Octet, hi : SUBSET (Pm!File!Bit \ {Pm!File!SLP_EN})]
      BY <2>5, <3>1, <3>2, <3>3 DEF Pm!SetCnt, Pm!TypeOK
    <3> QED
      BY <2>1, <2>5, <3>4, <3>5 DEF Pm!SetCnt, Pm!TypeOK, Pm!Zero
  <2> QED
    BY <1>3, <2>2, <2>3, <2>4, <2>5 DEF Pm!pm_write
<1> QED
  BY <1>1, <1>2, <1>3 DEF Pm!Next

(* A read gives the bytes of the register file.                            *)
LEMMA ReadOfFile ==
  ASSUME NEW a \in Pm!Accesses, Pm!pm_read(a)
  PROVE  Pm!File!Read(a)
<1>1. \A k \in Pm!File!Covered(a) :
        Pm!Regs[k + 1] = IF k = 4 THEN Bytes[k] \cup {Pm!File!SCI_EN} ELSE Bytes[k]
  <2> SUFFICES ASSUME NEW k \in 0 .. 5
               PROVE  Pm!Regs[k + 1] = IF k = 4 THEN Bytes[k] \cup {Pm!File!SCI_EN} ELSE Bytes[k]
    BY DEF Pm!File!Covered, Pm!File!Cell
  <2>1. /\ Pm!Regs[1] = sts.lo /\ Pm!Regs[2] = sts.hi
        /\ Pm!Regs[3] = en.lo /\ Pm!Regs[4] = en.hi
        /\ Pm!Regs[5] = cnt.lo \cup {Pm!File!SCI_EN} /\ Pm!Regs[6] = cnt.hi
    BY DEF Pm!Regs
  <2>2. /\ Bytes[0] = sts.lo /\ Bytes[1] = sts.hi /\ Bytes[2] = en.lo /\ Bytes[3] = en.hi
        /\ Bytes[4] = cnt.lo /\ Bytes[5] = cnt.hi
    BY DEF Bytes
  <2>3. CASE k = 4
    BY <2>1, <2>2, <2>3
  <2>4. CASE k \in {0, 1}
    BY <2>1, <2>2, <2>4
  <2>5. CASE k \in {2, 3, 5}
    BY <2>1, <2>2, <2>5
  <2> QED
    BY <2>3, <2>4, <2>5
<1>2. access' = [op    |-> "read",
                 bytes |-> [k \in Pm!File!Covered(a) |->
                              IF k = 4 THEN Bytes[k] \cup {Pm!File!SCI_EN} ELSE Bytes[k]]]
  BY <1>1 DEF Pm!pm_read
<1>3. Bytes' = Bytes /\ poweroff' = poweroff
  BY DEF Pm!pm_read, Bytes
<1> QED
  BY <1>2, <1>3 DEF Pm!File!Read, Bytes

(* A write of a word is one of the register file.                          *)
LEMMA WriteOfFile ==
  ASSUME Pm!TypeOK, NEW a \in Pm!Accesses, a.size = 2, NEW v \in Pm!Word, Pm!pm_write(a, v)
  PROVE  \E bytes \in [Pm!File!Covered(a) -> Pm!File!Octet] : Pm!File!Write(a, bytes)
<1> DEFINE b == [k \in Pm!File!Covered(a) |-> IF k = a.off THEN v.lo ELSE v.hi]
<1>1. /\ a.off \in {0, 2, 4}
      /\ Pm!File!Covered(a) = {a.off, a.off + 1}
  BY DEF Pm!Accesses, Pm!File!Covered, Pm!File!Cell
<1>2. v.lo \in Pm!File!Octet /\ v.hi \in Pm!File!Octet /\ v = [lo |-> v.lo, hi |-> v.hi]
  BY DEF Pm!Word
<1>3. b \in [Pm!File!Covered(a) -> Pm!File!Octet]
  BY <1>2
<1>4. b[a.off] = v.lo /\ b[a.off + 1] = v.hi
  BY <1>1
<1>5. access' = [op |-> "write", bytes |-> b]
  BY DEF Pm!pm_write
<1> HIDE DEF b
<1>6. CASE a.off = 0
  <2>1. Pm!ClearSts(v)
    BY <1>6 DEF Pm!pm_write
  <2>2. Pm!File!Covered(a) = {0, 1} /\ b[0] = v.lo /\ b[1] = v.hi
    BY <1>1, <1>4, <1>6
  <2>3. Bytes' = [k \in 0 .. 5 |-> IF k \in {0, 1} THEN Bytes[k] \ b[k] ELSE Bytes[k]]
    BY <2>1, <2>2 DEF Pm!ClearSts, Bytes
  <2>4. Pm!File!Write(a, b)
    BY <1>5, <2>1, <2>2, <2>3
       DEF Pm!File!Write, Pm!File!Stored, Pm!File!Cell, Pm!ClearSts, Bytes
  <2> QED
    BY <1>3, <2>4
<1>7. CASE a.off = 2
  <2>1. Pm!SetEn(v)
    BY <1>7 DEF Pm!pm_write
  <2>2. Pm!File!Covered(a) = {2, 3} /\ b[2] = v.lo /\ b[3] = v.hi
    BY <1>1, <1>4, <1>7
  <2>3. Bytes' = [k \in 0 .. 5 |-> IF k \in {2, 3} THEN b[k] ELSE Bytes[k]]
    BY <2>1, <2>2 DEF Pm!SetEn, Bytes
  <2>4. Pm!File!Write(a, b)
    BY <1>5, <2>1, <2>2, <2>3
       DEF Pm!File!Write, Pm!File!Stored, Pm!File!Cell, Pm!SetEn, Bytes
  <2> QED
    BY <1>3, <2>4
<1>8. CASE a.off = 4
  <2>1. Pm!SetCnt(v)
    BY <1>8 DEF Pm!pm_write
  <2>2. Pm!File!Covered(a) = {4, 5} /\ b[4] = v.lo /\ b[5] = v.hi
    BY <1>1, <1>4, <1>8
  <2>3. CASE {Pm!File!S5, Pm!File!SLP_EN} \subseteq v.hi
    <3>1. poweroff' = TRUE /\ Bytes' = Bytes
      BY <2>1, <2>3 DEF Pm!SetCnt, Bytes
    <3>2. Pm!File!Write(a, b)
      BY <1>5, <2>2, <2>3, <3>1 DEF Pm!File!Write, Bytes
    <3> QED
      BY <1>3, <3>2
  <2>4. CASE ~({Pm!File!S5, Pm!File!SLP_EN} \subseteq v.hi)
    <3>1. /\ cnt' = [lo |-> v.lo, hi |-> v.hi \ {Pm!File!SLP_EN}]
          /\ UNCHANGED <<sts, en, poweroff>>
      BY <1>2, <2>1, <2>4 DEF Pm!SetCnt
    <3>2. Bytes' = [k \in 0 .. 5 |-> CASE k = 4 -> b[4] [] k = 5 -> b[5] \ {Pm!File!SLP_EN}
                                       [] OTHER -> Bytes[k]]
      BY <2>2, <3>1 DEF Bytes
    <3>3. Pm!File!Write(a, b)
      BY <1>5, <2>2, <2>4, <3>1, <3>2
         DEF Pm!File!Write, Pm!File!Stored, Pm!File!Cell, Bytes
    <3> QED
      BY <1>3, <3>3
  <2> QED
    BY <2>3, <2>4
<1> QED
  BY <1>1, <1>6, <1>7, <1>8

(* A write of a byte cannot power off.                                     *)
LEMMA ByteIsWritten ==
  ASSUME NEW a \in Pm!Accesses, a.size = 1, NEW v \in Pm!Word, Pm!pm_write(a, v)
  PROVE  Pm!ByteWritten' /\ UNCHANGED poweroff
<1>1. Pm!File!Covered(a) = {a.off}
  BY DEF Pm!Accesses, Pm!File!Covered, Pm!File!Cell
<1>2. access'.op = "write" /\ DOMAIN access'.bytes = {a.off}
  BY <1>1 DEF Pm!pm_write
<1>3. UNCHANGED poweroff
  <2>1. v.hi = {}
    BY DEF Pm!pm_write
  <2> QED
    BY <2>1 DEF Pm!pm_write, Pm!ClearSts, Pm!SetEn, Pm!SetCnt
<1> QED
  BY <1>2, <1>3 DEF Pm!ByteWritten

LEMMA PmRefines ==
  ASSUME Pm!TypeOK, Pm!Next
  PROVE  (Pm!ByteWritten' /\ UNCHANGED poweroff) \/ Pm!File!Next
<1>1. PICK a \in Pm!Accesses : Pm!pm_read(a) \/ \E v \in Pm!Word : Pm!pm_write(a, v)
  BY DEF Pm!Next
<1>2. CASE Pm!pm_read(a)
  BY <1>2, ReadOfFile DEF Pm!File!Next
<1>3. CASE \E v \in Pm!Word : Pm!pm_write(a, v)
  <2>1. PICK v \in Pm!Word : Pm!pm_write(a, v)
    BY <1>3
  <2>2. a.size \in {1, 2}
    BY PortAssumption DEF PortAssumption, Pm!Accesses
  <2>3. CASE a.size = 1
    BY <2>1, <2>3, ByteIsWritten
  <2>4. CASE a.size = 2
    BY <2>1, <2>4, WriteOfFile DEF Pm!File!Next
  <2> QED
    BY <2>2, <2>3, <2>4
<1> QED
  BY <1>1, <1>2, <1>3

-----------------------------------------------------------------------------
(* The clock.                                                              *)

(* A second of the minute or of the next.                                  *)
Wrapped(n) == IF n < Seconds THEN n ELSE n - Seconds

(* The reading began at second s, n ticks ago: the times since then differ *)
(* in their seconds, so if the seconds are still those read first, there   *)
(* was no tick since, and the minutes read are those of now.               *)
Elapsed(s, n) ==
  /\ now \in seen /\ IsFiniteSet(seen) /\ Cardinality(seen) = n + 1
  /\ now.sec = Wrapped(s + n)
  /\ \A t \in seen : \E k \in 0 .. n : t.sec = Wrapped(s + k)
  /\ got # <<>> =>
       \E k \in 0 .. n :
         /\ got[1] = Wrapped(s + k)
         /\ k = n /\ Len(got) >= 4 => got[4] = now.min

SecondOf == 0 .. Seconds - 1

RtcInv ==
  /\ Clk!RtcTypeOK /\ got \in Seq(Nat)
  /\ phase = "done" => got = <<>> /\ time \in seen
  /\ phase = "data" => index = Clk!Reading[Len(got) + 1]
  /\ phase # "done" => \E s, n \in SecondOf : Elapsed(s, n)

LEMMA ClockNumbers == Seconds \in Nat /\ Seconds > 0 /\ Minutes \in Nat /\ Minutes > 1
BY PortAssumption DEF PortAssumption

LEMMA TimeFields ==
  ASSUME now \in Clk!Time
  PROVE  now.sec \in SecondOf /\ now.sec \in Nat /\ now.min \in Nat
BY ClockNumbers DEF Clk!Time, SecondOf

(* Less than a minute apart, seconds differ.                               *)
LEMMA SecondsDiffer ==
  ASSUME NEW s \in SecondOf, NEW n \in SecondOf, NEW k \in 0 .. n,
         Wrapped(s + k) = Wrapped(s + n)
  PROVE  k = n
BY ClockNumbers DEF Wrapped, SecondOf

(* A reading starts with the time it is.                                   *)
LEMMA ReadingStarts ==
  ASSUME now \in Clk!Time, seen' = {now}, now' = now, got' = <<>>
  PROVE  \E s, n \in SecondOf : Elapsed(s, n)'
<1>1. Cardinality({now}) = 1 /\ IsFiniteSet({now})
  BY FS_Singleton
<1>2. now.sec \in SecondOf /\ 0 \in SecondOf
  BY TimeFields, ClockNumbers DEF SecondOf
<1>3. Wrapped(now.sec + 0) = now.sec
  BY <1>2, ClockNumbers DEF Wrapped, SecondOf
<1>4. Elapsed(now.sec, 0)'
  <2>1. now'.sec = Wrapped(now.sec + 0)
    BY <1>3
  <2>2. \A t \in seen' : \E k \in 0 .. 0 : t.sec = Wrapped(now.sec + k)
    BY <1>3
  <2> QED
    BY <1>1, <2>1, <2>2 DEF Elapsed, Wrapped
<1> QED
  BY <1>2, <1>4

(* One second later.                                                       *)
LEMMA TickKeeps ==
  ASSUME RtcInv, phase # "done", Clk!Tick
  PROVE  \E s, n \in SecondOf : Elapsed(s, n)'
<1>1. PICK s \in SecondOf, n \in SecondOf : Elapsed(s, n)
  BY DEF RtcInv
<1>2. now \in Clk!Time /\ now.sec \in SecondOf
  BY TimeFields DEF RtcInv, Clk!RtcTypeOK
<1>3. n + 1 \in SecondOf /\ IsFiniteSet(seen) /\ Cardinality(seen) = n + 1
  <2>1. IsFiniteSet(seen) /\ Cardinality(seen) = n + 1
    BY <1>1 DEF Elapsed
  <2>2. Clk!Cardinality(seen) < Seconds
    BY DEF Clk!Tick
  <2>3. Clk!Cardinality(seen) = Cardinality(seen)
    BY DEF Clk!Cardinality, Cardinality, Clk!IsFiniteSet, IsFiniteSet
  <2> QED
    BY <2>1, <2>2, <2>3, ClockNumbers DEF SecondOf
<1>4. now'.sec = Wrapped(s + (n + 1))
  <2>1. now.sec = Wrapped(s + n)
    BY <1>1 DEF Elapsed
  <2>2. now'.sec = IF now.sec + 1 < Seconds THEN now.sec + 1 ELSE 0
    BY <1>2 DEF Clk!Tick, Clk!Time
  <2> QED
    BY <1>2, <1>3, <2>1, <2>2, ClockNumbers DEF Wrapped, SecondOf
<1>5. seen' = seen \cup {now'} /\ got' = got
  BY DEF Clk!Tick
<1>6. \A t \in seen : \E k \in 0 .. n : t.sec = Wrapped(s + k)
  BY <1>1 DEF Elapsed
<1>7. now' \notin seen
  <2> SUFFICES ASSUME now' \in seen PROVE FALSE
    OBVIOUS
  <2>1. PICK k \in 0 .. n : now'.sec = Wrapped(s + k)
    BY <1>6
  <2>2. k \in 0 .. n + 1 /\ k # n + 1
    BY <1>3 DEF SecondOf
  <2> QED
    BY <1>3, <1>4, <2>1, <2>2, SecondsDiffer
<1>8. IsFiniteSet(seen') /\ Cardinality(seen') = n + 1 + 1
  <2>1. Cardinality(seen \cup {now'}) = Cardinality(seen) + 1
    BY <1>3, <1>7, FS_AddElement
  <2>2. IsFiniteSet(seen \cup {now'})
    BY <1>3, FS_AddElement
  <2> QED
    BY <1>3, <1>5, <2>1, <2>2
<1>9. \A t \in seen' : \E k \in 0 .. n + 1 : t.sec = Wrapped(s + k)
  <2> TAKE t \in seen'
  <2>1. CASE t = now'
    BY <1>3, <1>4, <2>1 DEF SecondOf
  <2>2. CASE t \in seen
    <3>1. PICK k \in 0 .. n : t.sec = Wrapped(s + k)
      BY <1>6, <2>2
    <3>2. k \in 0 .. n + 1
      BY <1>3 DEF SecondOf
    <3> QED
      BY <3>1, <3>2
  <2> QED
    BY <1>5, <2>1, <2>2
<1>10. got # <<>> => \E k \in 0 .. n + 1 : got[1] = Wrapped(s + k) /\ k # n + 1
  <2> SUFFICES ASSUME got # <<>>
               PROVE  \E k \in 0 .. n + 1 : got[1] = Wrapped(s + k) /\ k # n + 1
    OBVIOUS
  <2>1. PICK k \in 0 .. n : got[1] = Wrapped(s + k)
    BY <1>1 DEF Elapsed
  <2>2. k \in 0 .. n + 1 /\ k # n + 1
    BY <1>3 DEF SecondOf
  <2> QED
    BY <2>1, <2>2
<1>11. Elapsed(s, n + 1)'
  <2>1. /\ now' \in seen' /\ IsFiniteSet(seen') /\ Cardinality(seen') = n + 1 + 1
        /\ now'.sec = Wrapped(s + (n + 1))
        /\ \A t \in seen' : \E k \in 0 .. n + 1 : t.sec = Wrapped(s + k)
    BY <1>4, <1>5, <1>8, <1>9
  <2>2. got' # <<>> =>
          \E k \in 0 .. n + 1 :
            /\ got'[1] = Wrapped(s + k)
            /\ k = n + 1 /\ Len(got') >= 4 => got'[4] = now'.min
    BY <1>5, <1>10
  <2> QED
    BY <2>1, <2>2 DEF Elapsed, Wrapped
<1> QED
  BY <1>3, <1>11

(* The byte that is read is that of the register whose turn it is.         *)
LEMMA ByteRead ==
  ASSUME RtcInv, phase = "data"
  PROVE  /\ Len(got) \in 0 .. 5
         /\ Clk!rtc_read_reg(index) \in Nat
         /\ Len(got) \in {0, 2, 5} => index = "seconds" /\ Clk!rtc_read_reg(index) = now.sec
         /\ Len(got) = 3 => index = "minutes" /\ Clk!rtc_read_reg(index) = now.min
<1>1. Len(got) \in 0 .. 5 /\ index = Clk!Reading[Len(got) + 1]
  <2>1. got \in Seq(Nat) /\ Len(got) <= 5 /\ index = Clk!Reading[Len(got) + 1]
    BY DEF RtcInv, Clk!RtcTypeOK
  <2> DEFINE l == Len(got)
  <2>2. l \in Nat /\ l <= 5
    BY <2>1
  <2> HIDE DEF l
  <2>3. l \in 0 .. 5
    BY <2>2
  <2> QED
    BY <2>1, <2>3 DEF l
<1>2. /\ Clk!Reading[1] = "seconds" /\ Clk!Reading[2] = "A" /\ Clk!Reading[3] = "seconds"
      /\ Clk!Reading[4] = "minutes" /\ Clk!Reading[5] = "A" /\ Clk!Reading[6] = "seconds"
  BY DEF Clk!Reading
<1>3. now.sec \in Nat /\ now.min \in Nat
  BY TimeFields DEF RtcInv, Clk!RtcTypeOK
<1>4. index \in Clk!Reg /\ cmos[index] \in {0, 1}
  BY DEF RtcInv, Clk!RtcTypeOK
<1>5. Clk!rtc_read_reg(index) \in Nat
  BY <1>3, <1>4 DEF Clk!rtc_read_reg
<1>6. Len(got) \in {0, 2, 5} => index = "seconds"
  <2>1. CASE Len(got) = 0
    BY <1>1, <1>2, <2>1
  <2>2. CASE Len(got) = 2
    BY <1>1, <1>2, <2>2
  <2>3. CASE Len(got) = 5
    BY <1>1, <1>2, <2>3
  <2> QED
    BY <2>1, <2>2, <2>3
<1>7. Len(got) = 3 => index = "minutes"
  BY <1>1, <1>2
<1> QED
  BY <1>1, <1>5, <1>6, <1>7 DEF Clk!rtc_read_reg

(* A byte of the reading.                                                  *)
LEMMA ByteKeeps ==
  ASSUME RtcInv, Clk!ReadByte
  PROVE  RtcInv'
<1> DEFINE v == Clk!rtc_read_reg(index)
<1>1. /\ phase = "data" /\ now' = now /\ index' = index /\ cmos' = cmos
      /\ Clk!RtcTypeOK /\ now \in Clk!Time /\ got \in Seq(Nat) /\ seen \subseteq Clk!Time
  BY DEF Clk!ReadByte, RtcInv, Clk!RtcTypeOK
<1>2. /\ Len(got) \in 0 .. 5 /\ v \in Nat
      /\ Len(got) \in {0, 2, 5} => index = "seconds" /\ v = now.sec
      /\ Len(got) = 3 => index = "minutes" /\ v = now.min
  BY <1>1, ByteRead
<1>3. \/ phase' = "select" /\ got' = <<>> /\ seen' = {now}
      \/ /\ Len(got) < 5 /\ phase' = "select" /\ got' = Append(got, v) /\ UNCHANGED <<time, seen>>
      \/ /\ Clk!Agrees(index, v) /\ Len(got) = 5
         /\ phase' = "done" /\ got' = <<>> /\ seen' = seen
         /\ time' = [sec |-> v, min |-> got[4]]
  BY DEF Clk!ReadByte
<1>4. PICK s \in SecondOf, n \in SecondOf : Elapsed(s, n)
  BY <1>1 DEF RtcInv
<1> HIDE DEF v
<1>5. CASE phase' = "select" /\ got' = <<>> /\ seen' = {now}
  <2>1. \E a, b \in SecondOf : Elapsed(a, b)'
    BY <1>1, <1>5, ReadingStarts
  <2>2. got' \in Seq(Nat) /\ Len(got') = 0
    BY <1>5
  <2> QED
    BY <1>1, <1>5, <2>1, <2>2 DEF RtcInv, Clk!RtcTypeOK
<1>6. CASE Len(got) < 5 /\ phase' = "select" /\ got' = Append(got, v) /\ UNCHANGED <<time, seen>>
  <2>1. got' \in Seq(Nat) /\ Len(got') = Len(got) + 1 /\ Len(got') <= 5
    BY <1>1, <1>2, <1>6
  <2>2. /\ \A k \in 1 .. Len(got) : got'[k] = got[k]
        /\ got'[Len(got) + 1] = v
    BY <1>1, <1>2, <1>6
  <2>3. Elapsed(s, n)'
    <3>1. /\ now' \in seen' /\ IsFiniteSet(seen') /\ Cardinality(seen') = n + 1
          /\ now'.sec = Wrapped(s + n)
          /\ \A t \in seen' : \E k \in 0 .. n : t.sec = Wrapped(s + k)
      BY <1>1, <1>4, <1>6 DEF Elapsed
    <3>2. \E k \in 0 .. n :
            /\ got'[1] = Wrapped(s + k)
            /\ k = n /\ Len(got') >= 4 => got'[4] = now'.min
      <4>1. CASE Len(got) = 0
        <5>1. got'[1] = Wrapped(s + n)
          BY <1>2, <1>4, <2>2, <4>1 DEF Elapsed
        <5>2. n \in 0 .. n
          BY DEF SecondOf
        <5> QED
          BY <2>1, <4>1, <5>1, <5>2
      <4>2. CASE Len(got) > 0
        <5>1. got # <<>> /\ got'[1] = got[1]
          BY <1>2, <2>2, <4>2
        <5>2. PICK k \in 0 .. n : /\ got[1] = Wrapped(s + k)
                                  /\ k = n /\ Len(got) >= 4 => got[4] = now.min
          BY <1>4, <5>1 DEF Elapsed
        <5>3. ASSUME k = n, Len(got') >= 4 PROVE got'[4] = now'.min
          <6>1. CASE Len(got) = 3
            BY <1>1, <1>2, <2>2, <6>1
          <6>2. CASE Len(got) >= 4
            <7>1. 4 \in 1 .. Len(got)
              BY <1>2, <6>2
            <7> QED
              BY <1>1, <2>2, <5>2, <5>3, <6>2, <7>1
          <6> DEFINE l == Len(got)
          <6>3. l \in Nat /\ l + 1 >= 4
            BY <1>2, <2>1, <5>3
          <6> HIDE DEF l
          <6>4. l = 3 \/ l >= 4
            BY <6>3
          <6> QED
            BY <6>1, <6>2, <6>4 DEF l
        <5> QED
          BY <5>1, <5>2, <5>3
      <4> QED
        BY <1>2, <4>1, <4>2
    <3> QED
      BY <3>1, <3>2 DEF Elapsed, Wrapped
  <2> QED
    BY <1>1, <1>6, <2>1, <2>3 DEF RtcInv, Clk!RtcTypeOK
<1>7. CASE /\ Clk!Agrees(index, v) /\ Len(got) = 5
           /\ phase' = "done" /\ got' = <<>> /\ seen' = seen
           /\ time' = [sec |-> v, min |-> got[4]]
  <2>1. index = "seconds" /\ v = now.sec
    BY <1>2, <1>7
  <2>2. v = got[1]
    <3>1. 1 \in 1 .. Len(got) /\ got \in Seq(Nat) /\ v \in Nat
      BY <1>1, <1>2, <1>7
    <3>2. Append(got, v)[1] = got[1]
      BY <3>1
    <3> QED
      BY <1>7, <2>1, <3>2 DEF Clk!Agrees
  <2>3. PICK k \in 0 .. n : got[1] = Wrapped(s + k) /\ (k = n => got[4] = now.min)
    <3>1. got # <<>> /\ Len(got) >= 4
      BY <1>7
    <3> QED
      BY <1>4, <3>1, Zenon DEF Elapsed
  <2>4. k = n
    BY <1>4, <2>1, <2>2, <2>3, SecondsDiffer DEF Elapsed
  <2>5. time' = now /\ now \in seen
    <3>1. now = [sec |-> now.sec, min |-> now.min]
      <4>1. now \in Clk!Time
        BY <1>1
      <4> QED
        BY <4>1 DEF Clk!Time
    <3>2. time' = [sec |-> now.sec, min |-> now.min]
      BY <1>7, <2>1, <2>3, <2>4
    <3>3. now \in seen
      BY <1>4 DEF Elapsed
    <3> QED
      BY <3>1, <3>2, <3>3
  <2>6. got' \in Seq(Nat) /\ Len(got') = 0
    BY <1>7
  <2> QED
    BY <1>1, <1>7, <2>5, <2>6 DEF RtcInv, Clk!RtcTypeOK
<1> QED
  BY <1>3, <1>5, <1>6, <1>7

LEMMA RtcStep == RtcInv /\ [Clk!RtcNext]_clk => RtcInv'
<1> SUFFICES ASSUME RtcInv, [Clk!RtcNext]_clk PROVE RtcInv'
  OBVIOUS
<1>1. /\ Clk!RtcTypeOK /\ got \in Seq(Nat) /\ now \in Clk!Time /\ seen \subseteq Clk!Time
      /\ index \in Clk!Reg /\ cmos \in [Clk!Reg -> {0, 1}] /\ Len(got) <= 5
  BY DEF RtcInv, Clk!RtcTypeOK
<1>2. CASE Clk!Tick
  <2>1. now' \in Clk!Time
    <3>1. now.sec \in 0 .. Seconds - 1 /\ now.min \in 0 .. Minutes - 1
          /\ now = [sec |-> now.sec, min |-> now.min]
      BY <1>1 DEF Clk!Time
    <3>2. CASE now.sec + 1 < Seconds
      <4>1. now' = [sec |-> now.sec + 1, min |-> now.min]
        BY <1>2, <3>1, <3>2 DEF Clk!Tick
      <4> QED
        BY <3>1, <3>2, <4>1, ClockNumbers DEF Clk!Time
    <3>3. CASE ~(now.sec + 1 < Seconds)
      <4>1. now' = [sec |-> 0, min |-> (now.min + 1) % Minutes]
        BY <1>2, <3>3 DEF Clk!Tick
      <4>2. (now.min + 1) % Minutes \in 0 .. Minutes - 1
        BY <3>1, ClockNumbers
      <4> QED
        BY <4>1, <4>2, ClockNumbers DEF Clk!Time
    <3> QED
      BY <3>2, <3>3
  <2>2. /\ UNCHANGED <<index, cmos, got, phase, time>>
        /\ seen' = IF phase = "done" THEN seen ELSE seen \cup {now'}
    BY <1>2 DEF Clk!Tick
  <2>3. phase # "done" => \E s, n \in SecondOf : Elapsed(s, n)'
    BY <1>2, TickKeeps
  <2> QED
    BY <2>1, <2>2, <2>3 DEF RtcInv, Clk!RtcTypeOK
<1>3. CASE Clk!Select
  <2>1. /\ phase \in {"select", "done"} /\ phase' = "data"
        /\ index' = Clk!Reading[Len(got) + 1] /\ UNCHANGED <<cmos, now, got, time>>
        /\ seen' = IF phase = "done" THEN {now} ELSE seen
    BY <1>3 DEF Clk!Select, Clk!SetIndex
  <2>2. index' \in Clk!Reg
    <3> DEFINE l == Len(got)
    <3>1. l \in Nat /\ l <= 5 /\ index' = Clk!Reading[l + 1]
      BY <1>1, <2>1
    <3>2. \A k \in 1 .. 6 : Clk!Reading[k] \in Clk!Reg
      BY DEF Clk!Reading, Clk!Reg
    <3> HIDE DEF l
    <3>3. l + 1 \in 1 .. 6
      BY <3>1
    <3> QED
      BY <3>1, <3>2, <3>3
  <2>3. \E s, n \in SecondOf : Elapsed(s, n)'
    <3>1. CASE phase = "done"
      BY <1>1, <2>1, <3>1, ReadingStarts DEF RtcInv
    <3>2. CASE phase = "select"
      <4>1. PICK s \in SecondOf, n \in SecondOf : Elapsed(s, n)
        BY <3>2 DEF RtcInv
      <4>2. seen' = seen /\ now' = now /\ got' = got
        BY <2>1, <3>2
      <4>3. Elapsed(s, n)'
        BY <4>1, <4>2 DEF Elapsed, Wrapped
      <4> QED
        BY <4>3
    <3> QED
      BY <2>1, <3>1, <3>2
  <2> QED
    BY <1>1, <2>1, <2>2, <2>3 DEF RtcInv, Clk!RtcTypeOK
<1>4. CASE Clk!ReadByte
  BY <1>4, ByteKeeps
<1>5. CASE Clk!Write
  <2>1. phase = "done" /\ UNCHANGED <<now, got, phase, time, seen>>
    BY <1>5 DEF Clk!Write
  <2>2. index' \in Clk!Reg /\ cmos' \in [Clk!Reg -> {0, 1}]
    BY <1>1, <1>5 DEF Clk!Write, Clk!SetIndex, Clk!SetByte
  <2> QED
    BY <1>1, <2>1, <2>2 DEF RtcInv, Clk!RtcTypeOK
<1>6. CASE UNCHANGED clk
  <2>1. UNCHANGED <<now, index, cmos, got, phase, time, seen>>
    BY <1>6 DEF clk
  <2>2. ASSUME NEW s \in SecondOf, NEW n \in SecondOf, Elapsed(s, n)
        PROVE  Elapsed(s, n)'
    BY <2>1, <2>2 DEF Elapsed, Wrapped
  <2> QED
    BY <2>1, <2>2 DEF RtcInv, Clk!RtcTypeOK
<1> QED
  BY <1>2, <1>3, <1>4, <1>5, <1>6 DEF Clk!RtcNext

LEMMA RtcStart == Clk!RtcInit => RtcInv
<1> SUFFICES ASSUME Clk!RtcInit PROVE RtcInv
  OBVIOUS
<1>1. now \in Clk!Time /\ index = "seconds" /\ got = <<>> /\ phase = "done" /\ seen = {now}
      /\ time = now
  BY DEF Clk!RtcInit
<1>2. cmos \in [Clk!Reg -> {0, 1}] /\ index \in Clk!Reg
  BY <1>1 DEF Clk!RtcInit, Clk!Reg
<1>3. got \in Seq(Nat) /\ Len(got) <= 5
  BY <1>1
<1> QED
  BY <1>1, <1>2, <1>3 DEF RtcInv, Clk!RtcTypeOK

-----------------------------------------------------------------------------
(* All of them in one run.                                                 *)

PortInv ==
  /\ TypeOK /\ InterruptFresh
  /\ KbcInv
  /\ Pm!TypeOK
  /\ RtcInv

LEMMA PortStart == PortInit => PortInv
BY UartStart, KbcStart, SizeHolds, PmStart, RtcStart DEF PortInit, PortInv

LEMMA PortStep ==
  ASSUME PortInv, [UartStep \/ KbcStep \/ PmStep \/ ClkStep]_vars
  PROVE  PortInv'
<1>1. [SerialNext]_serial /\ [KbcNext]_kbc /\ [Pm!Next]_pm /\ [Clk!RtcNext]_clk
  BY DEF UartStep, KbcStep, PmStep, ClkStep, vars
<1>2. TypeOK' /\ InterruptFresh'
  BY <1>1, UartKeeps DEF PortInv
<1>3. KbcInv'
  BY <1>1, KbcKeeps, SizeHolds DEF PortInv
<1>4. Pm!TypeOK'
  BY <1>1, PmTypes DEF PortInv
<1>5. RtcInv'
  BY <1>1, RtcStep DEF PortInv
<1> QED
  BY <1>2, <1>3, <1>4, <1>5 DEF PortInv

(* What keeps the registers in their ranges is inductive when the four     *)
(* devices share a behaviour, since none reads the state of another        *)
(* (serial8250.c, i8042.c, acpi.c:313-360, rtc.c).                         *)
THEOREM PortInvariance == PortSpec => []PortInv
<1>1. PortInv /\ [UartStep \/ KbcStep \/ PmStep \/ ClkStep]_vars => PortInv'
  BY PortStep
<1> QED
  BY <1>1, PortStart, PTL DEF PortSpec

(* Whatever is written to the ports, no register of any device leaves its  *)
(* range (serial8250.c, i8042.c, acpi.c:313-360, rtc.c).                   *)
THEOREM PortTypes == PortSpec => []PortTypeOK
<1>1. PortInv => PortTypeOK
  BY DEF PortInv, PortTypeOK, KbcInv, RtcInv
<1> QED
  BY <1>1, PortInvariance, PTL

(* The time Linux takes from six reads of the clock, each of which asks    *)
(* the host anew, was the host's time at one moment of the reading         *)
(* (rtc.c:12, :66), for minutes and hours of any length.                   *)
THEOREM InstantRead == PortSpec => []ReadingIsInstant
<1>1. PortInv => ReadingIsInstant
  BY DEF PortInv, RtcInv, ReadingIsInstant, Clk!ReadingIsInstant
<1> QED
  BY <1>1, PortInvariance, PTL

(* Every read of the PM1a block and every write of a whole register is one *)
(* of the register file acpi.c:317-318 promises; a write of a single byte  *)
(* never powers off.                                                       *)
THEOREM WordsOfFile == PortSpec => WordsAreFile
<1>1. PortInv /\ [UartStep \/ KbcStep \/ PmStep \/ ClkStep]_vars
      => [dev = "acpi_pm" => (Pm!ByteWritten' /\ UNCHANGED poweroff) \/ Pm!File!Next]_pm
  <2> SUFFICES ASSUME PortInv, [UartStep \/ KbcStep \/ PmStep \/ ClkStep]_vars, pm' # pm
               PROVE  (Pm!ByteWritten' /\ UNCHANGED poweroff) \/ Pm!File!Next
    OBVIOUS
  <2>1. Pm!Next
    BY DEF UartStep, KbcStep, PmStep, ClkStep, vars
  <2> QED
    BY <2>1, PmRefines DEF PortInv
<1> QED
  BY <1>1, PortInvariance, PTL DEF PortSpec, WordsAreFile
=============================================================================
