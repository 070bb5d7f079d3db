-------------------------- MODULE Serial8250_proofs --------------------------
(***************************************************************************)
(* Proofs about the UART, for a receive ring of any size and any bytes.    *)
(***************************************************************************)
EXTENDS Serial8250, Integers, TLAPS

-----------------------------------------------------------------------------
(* The UART: the ring.                                                     *)

(* Indices of the ring are reduced by at most one turn.                    *)
LEMMA Wrap ==
  ASSUME NEW x \in 0 .. 2 * RxBuf - 1
  PROVE  x % RxBuf = IF x < RxBuf THEN x ELSE x - RxBuf
<1> USE RxBufAssumption DEF RxBufAssumption
<1>1. CASE x < RxBuf
  BY <1>1
<1>2. CASE x >= RxBuf
  BY <1>2
<1> QED
  BY <1>1, <1>2

(* RxCount and RxQueue of a buffer b with a head h and a tail t.           *)
Count(h, t) == (h + RxBuf - t) % RxBuf
Queue(b, h, t) == [k \in 1 .. Count(h, t) |-> b[(t + k - 1) % RxBuf]]

(* What the lemmas below say of a ring, named so that the lemmas are cited *)
(* without the arithmetic and the theory of sequences.                     *)
IsQueue(q, S, n) == q \in Seq(S) /\ Len(q) = n
EmptyOrNot(b, h, t) == Queue(b, h, t) = <<>> <=> h = t
Roomy(h, t) == (h + 1) % RxBuf # t
Appended(b, h, t, c) ==
  /\ Count(h, t) < RxBuf - 1
  /\ Queue([b EXCEPT ![h] = c], (h + 1) % RxBuf, t) = Append(Queue(b, h, t), c)

(* The number of bytes between tail and head.                              *)
LEMMA CountValue ==
  ASSUME NEW h \in Slots, NEW t \in Slots
  PROVE  /\ Count(h, t) = IF h >= t THEN h - t ELSE h + RxBuf - t
         /\ Count(h, t) \in 0 .. RxBuf - 1
<1> USE RxBufAssumption DEF RxBufAssumption, Slots
<1>1. h + RxBuf - t \in 0 .. 2 * RxBuf - 1
  OBVIOUS
<1> QED
  BY <1>1, Wrap DEF Count

(* The slot of the k-th byte.                                              *)
LEMMA SlotValue ==
  ASSUME NEW t \in Slots, NEW k \in 1 .. RxBuf
  PROVE  /\ (t + k - 1) % RxBuf = IF t + k - 1 < RxBuf THEN t + k - 1 ELSE t + k - 1 - RxBuf
         /\ (t + k - 1) % RxBuf \in Slots
<1> USE RxBufAssumption DEF RxBufAssumption, Slots
<1>1. t + k - 1 \in 0 .. 2 * RxBuf - 1
  OBVIOUS
<1> QED
  BY <1>1, Wrap

(* The slot after another.                                                 *)
LEMMA NextSlot ==
  ASSUME NEW s \in Slots
  PROVE  /\ (s + 1) % RxBuf = IF s + 1 = RxBuf THEN 0 ELSE s + 1
         /\ (s + 1) % RxBuf \in Slots
<1> USE RxBufAssumption DEF RxBufAssumption, Slots
<1>1. s + 1 \in 0 .. 2 * RxBuf - 1
  OBVIOUS
<1> QED
  BY <1>1, Wrap

(* A queue is a sequence of the bytes in the buffer.                       *)
LEMMA QueueIsSeq ==
  ASSUME NEW S, NEW b \in [Slots -> S], NEW h \in Slots, NEW t \in Slots
  PROVE  IsQueue(Queue(b, h, t), S, Count(h, t))
<1> DEFINE n == Count(h, t)
<1>1. n \in Nat /\ n < RxBuf
  BY CountValue, RxBufAssumption DEF RxBufAssumption
<1>2. \A k \in 1 .. n : b[(t + k - 1) % RxBuf] \in S
  <2> TAKE k \in 1 .. n
  <2>1. k \in 1 .. RxBuf
    BY <1>1, RxBufAssumption DEF RxBufAssumption
  <2> QED
    BY <2>1, SlotValue
<1>3. Queue(b, h, t) \in [1 .. n -> S]
  BY <1>2 DEF Queue
<1> HIDE DEF n
<1> QED
  BY <1>1, <1>3 DEF n, IsQueue

(* Head and tail in the same place mean an empty queue, and nothing else   *)
(* does.                                                                   *)
LEMMA EmptyQueue ==
  ASSUME NEW S, NEW b \in [Slots -> S], NEW h \in Slots, NEW t \in Slots
  PROVE  EmptyOrNot(b, h, t)
<1>1. Count(h, t) = 0 <=> h = t
  <2>1. Count(h, t) = IF h >= t THEN h - t ELSE h + RxBuf - t
    BY CountValue
  <2> QED
    BY <2>1, RxBufAssumption DEF Slots, RxBufAssumption
<1>2. IsQueue(Queue(b, h, t), S, Count(h, t))
  BY QueueIsSeq
<1>3. \A q \in Seq(S) : q = <<>> <=> Len(q) = 0
  OBVIOUS
<1> QED
  <2> DEFINE q == Queue(b, h, t)
             n == Count(h, t)
  <2>1. q \in Seq(S) /\ Len(q) = n /\ (n = 0 <=> h = t)
    BY <1>1, <1>2 DEF IsQueue
  <2> HIDE DEF q, n
  <2>2. q = <<>> <=> h = t
    BY <1>3, <2>1
  <2> QED
    BY <2>2 DEF q, EmptyOrNot

(* RingPut into a ring that has a slot to spare appends.                   *)
LEMMA PutAppends ==
  ASSUME NEW S, NEW b \in [Slots -> S], NEW h \in Slots, NEW t \in Slots,
         NEW c \in S, Roomy(h, t)
  PROVE  Appended(b, h, t, c)
<1> DEFINE n    == Count(h, t)
           next == (h + 1) % RxBuf
           bb   == [b EXCEPT ![h] = c]
<1>1. /\ next \in Slots
      /\ next = IF h + 1 = RxBuf THEN 0 ELSE h + 1
  BY NextSlot
<1>2. n \in Nat /\ n < RxBuf - 1 /\ Count(next, t) = n + 1
  <2>1. n = (IF h >= t THEN h - t ELSE h + RxBuf - t)
    BY CountValue
  <2>2. Count(next, t) = IF next >= t THEN next - t ELSE next + RxBuf - t
    BY <1>1, CountValue
  <2> HIDE DEF n, next
  <2> QED
    BY <1>1, <2>1, <2>2, RxBufAssumption DEF Slots, RxBufAssumption, next, Roomy
<1>3. \A k \in 1 .. n : (t + k - 1) % RxBuf \in Slots \ {h}
  <2> TAKE k \in 1 .. n
  <2>1. k \in 1 .. RxBuf
    BY <1>2, RxBufAssumption DEF RxBufAssumption
  <2>2. /\ (t + k - 1) % RxBuf = IF t + k - 1 < RxBuf THEN t + k - 1 ELSE t + k - 1 - RxBuf
        /\ (t + k - 1) % RxBuf \in Slots
    BY <2>1, SlotValue
  <2>3. n = (IF h >= t THEN h - t ELSE h + RxBuf - t)
    BY CountValue
  <2> HIDE DEF n
  <2> QED
    BY <1>2, <2>2, <2>3, RxBufAssumption DEF Slots, RxBufAssumption
<1>4. (t + (n + 1) - 1) % RxBuf = h
  <2>1. n + 1 \in 1 .. RxBuf
    BY <1>2, RxBufAssumption DEF RxBufAssumption
  <2>2. (t + (n + 1) - 1) % RxBuf = IF t + (n + 1) - 1 < RxBuf THEN t + (n + 1) - 1
                                                            ELSE t + (n + 1) - 1 - RxBuf
    BY <2>1, SlotValue
  <2>3. n = (IF h >= t THEN h - t ELSE h + RxBuf - t)
    BY CountValue
  <2> HIDE DEF n
  <2> QED
    BY <1>2, <2>2, <2>3, RxBufAssumption DEF Slots, RxBufAssumption
<1>5. Queue(b, h, t) \in Seq(S) /\ Len(Queue(b, h, t)) = n
  <2>1. IsQueue(Queue(b, h, t), S, Count(h, t))
    BY QueueIsSeq
  <2> QED
    BY <2>1 DEF IsQueue
<1>6. bb \in [Slots -> S]
  OBVIOUS
<1>7. Queue(bb, next, t) \in Seq(S) /\ Len(Queue(bb, next, t)) = n + 1
  <2>1. next \in Slots /\ bb \in [Slots -> S]
    BY <1>1, <1>6
  <2> HIDE DEF bb, next
  <2>2. IsQueue(Queue(bb, next, t), S, Count(next, t))
    BY <2>1, QueueIsSeq
  <2> QED
    BY <2>2, <1>2 DEF IsQueue
<1>8. \A k \in 1 .. n + 1 : Queue(bb, next, t)[k] = Append(Queue(b, h, t), c)[k]
  <2> TAKE k \in 1 .. n + 1
  <2>1. Queue(bb, next, t)[k] = bb[(t + k - 1) % RxBuf]
    BY <1>2 DEF Queue
  <2>2. CASE k \in 1 .. n
    <3>1. Queue(b, h, t)[k] = b[(t + k - 1) % RxBuf]
      BY <2>2 DEF Queue
    <3>2. bb[(t + k - 1) % RxBuf] = b[(t + k - 1) % RxBuf]
      BY <1>3, <2>2
    <3>3. Append(Queue(b, h, t), c)[k] = Queue(b, h, t)[k]
      BY <1>5, <1>2, <2>2
    <3> QED
      BY <2>1, <3>1, <3>2, <3>3
  <2>3. CASE k = n + 1
    <3>1. bb[h] = c
      OBVIOUS
    <3>2. Append(Queue(b, h, t), c)[n + 1] = c
      BY <1>5, <1>2
    <3> QED
      BY <2>1, <2>3, <3>1, <3>2, <1>4
  <2>4. k \in 1 .. n \/ k = n + 1
    <3> HIDE DEF n
    <3> QED
      BY <1>2
  <2> QED
    BY <2>2, <2>3, <2>4
<1> HIDE DEF n, next, bb
<1>9. Append(Queue(b, h, t), c) \in Seq(S) /\ Len(Append(Queue(b, h, t), c)) = n + 1
  BY <1>5
<1>10. Queue(bb, next, t) = Append(Queue(b, h, t), c)
  BY <1>7, <1>8, <1>9, <1>2
<1> QED
  BY <1>2, <1>10 DEF n, next, bb, Appended

(* A ring with one slot free is full.                                      *)
LEMMA FullQueue ==
  ASSUME NEW h \in Slots, NEW t \in Slots, (h + 1) % RxBuf = t
  PROVE  Count(h, t) = RxBuf - 1
<1> DEFINE n == Count(h, t)
<1>1. n = (IF h >= t THEN h - t ELSE h + RxBuf - t)
  BY CountValue
<1>2. t = (IF h + 1 = RxBuf THEN 0 ELSE h + 1)
  BY NextSlot
<1> HIDE DEF n
<1>3. n = RxBuf - 1
  BY <1>1, <1>2, RxBufAssumption DEF Slots, RxBufAssumption
<1> QED
  BY <1>3 DEF n

(* Moving the tail removes the oldest byte, the one at the tail.           *)
LEMMA GetTakesHead ==
  ASSUME NEW S, NEW b \in [Slots -> S], NEW h \in Slots, NEW t \in Slots, h # t
  PROVE  /\ Queue(b, h, t) # <<>>
         /\ Head(Queue(b, h, t)) = b[t]
         /\ Queue(b, h, (t + 1) % RxBuf) = Tail(Queue(b, h, t))
<1> DEFINE n    == Count(h, t)
           next == (t + 1) % RxBuf
           q    == Queue(b, h, t)
           r    == Queue(b, h, next)
<1>1. /\ next \in Slots
      /\ next = IF t + 1 = RxBuf THEN 0 ELSE t + 1
  BY NextSlot
<1>2. n \in Nat \ {0} /\ n < RxBuf /\ Count(h, next) = n - 1
  <2>1. n = (IF h >= t THEN h - t ELSE h + RxBuf - t)
    BY CountValue
  <2>2. Count(h, next) = IF h >= next THEN h - next ELSE h + RxBuf - next
    BY <1>1, CountValue
  <2> HIDE DEF n, next
  <2> QED
    BY <1>1, <2>1, <2>2, RxBufAssumption DEF Slots, RxBufAssumption
<1>3. q \in Seq(S) /\ Len(q) = n
  <2>1. IsQueue(Queue(b, h, t), S, Count(h, t))
    BY QueueIsSeq
  <2> QED
    BY <2>1 DEF IsQueue
<1>4. r \in Seq(S) /\ Len(r) = n - 1
  <2>1. IsQueue(Queue(b, h, next), S, Count(h, next))
    BY <1>1, QueueIsSeq
  <2> QED
    BY <1>2, <2>1 DEF IsQueue
<1>5. q[1] = b[t]
  <2>1. 1 \in 1 .. RxBuf
    BY RxBufAssumption DEF RxBufAssumption
  <2>2. (t + 1 - 1) % RxBuf = t
    BY <2>1, SlotValue, RxBufAssumption DEF Slots, RxBufAssumption
  <2>3. 1 \in 1 .. n
    BY <1>2
  <2>4. q[1] = b[(t + 1 - 1) % RxBuf]
    BY <2>3 DEF Queue
  <2> QED
    BY <2>2, <2>4
<1>6. \A k \in 1 .. n - 1 : r[k] = q[k + 1]
  <2> TAKE k \in 1 .. n - 1
  <2>1. k \in 1 .. RxBuf /\ k + 1 \in 1 .. RxBuf /\ k + 1 \in 1 .. n
    BY <1>2, RxBufAssumption DEF RxBufAssumption
  <2>2. (next + k - 1) % RxBuf
          = IF next + k - 1 < RxBuf THEN next + k - 1 ELSE next + k - 1 - RxBuf
    BY <1>1, <2>1, SlotValue
  <2>3. (t + (k + 1) - 1) % RxBuf
          = IF t + (k + 1) - 1 < RxBuf THEN t + (k + 1) - 1 ELSE t + (k + 1) - 1 - RxBuf
    BY <2>1, SlotValue
  <2>4. r[k] = b[(next + k - 1) % RxBuf]
    BY <1>2 DEF Queue
  <2>5. q[k + 1] = b[(t + (k + 1) - 1) % RxBuf]
    BY <2>1 DEF Queue
  <2>6. (next + k - 1) % RxBuf = (t + (k + 1) - 1) % RxBuf
    <3> HIDE DEF n, next
    <3> QED
      BY <1>1, <2>1, <2>2, <2>3, RxBufAssumption DEF Slots, RxBufAssumption
  <2> QED
    BY <2>4, <2>5, <2>6
<1> HIDE DEF n, next, q, r
<1>7. q # <<>> /\ Head(q) = b[t]
  BY <1>2, <1>3, <1>5
<1>8. Tail(q) \in Seq(S) /\ Len(Tail(q)) = n - 1 /\ \A k \in 1 .. n - 1 : Tail(q)[k] = q[k + 1]
  BY <1>2, <1>3, <1>7
<1>9. r = Tail(q)
  BY <1>2, <1>4, <1>6, <1>8
<1> QED
  BY <1>7, <1>9 DEF q, r, next

-----------------------------------------------------------------------------
(* Types, and freshness of IIR and the line.                               *)

(* The variables an operation may leave as they are.                       *)
LEMMA PutTypes ==
  ASSUME TypeOK, NEW c \in Byte, RingPut(c)
  PROVE  /\ rx_buf' \in [Slots -> Byte \cup {Idle}]
         /\ rx_head' \in Slots /\ rx_tail' \in Slots
         /\ outcome' \in {"stored", "full"}
<1>1. (rx_head + 1) % RxBuf \in Slots
  BY NextSlot DEF TypeOK
<1> QED
  BY <1>1 DEF TypeOK, RingPut, ring

(* update_irq() leaves a fresh IIR and line of the right types.            *)
LEMMA UpdateFresh ==
  ASSUME update_irq, fcr' \in BOOLEAN
  PROVE  /\ InterruptFresh'
         /\ iir' \in [id : Ids, fifo : BOOLEAN] /\ irq_level' \in BOOLEAN
BY DEF update_irq, InterruptFresh, Pending, Ids

(* A UART after reset.                                                     *)
LEMMA UartStart == SerialInit => TypeOK /\ InterruptFresh
<1> SUFFICES ASSUME SerialInit PROVE TypeOK /\ InterruptFresh
  OBVIOUS
<1>1. 0 \in Slots
  BY RxBufAssumption DEF Slots, RxBufAssumption
<1>2. rx_buf \in [Slots -> Byte \cup {Idle}]
  BY DEF SerialInit
<1>3. TypeOK
  BY <1>1, <1>2 DEF SerialInit, TypeOK, Ids
<1>4. InterruptFresh
  BY DEF SerialInit, InterruptFresh, Pending
<1> QED
  BY <1>3, <1>4

(* Every operation, of the guest and of the host, keeps both.              *)
LEMMA UartKeeps ==
  ASSUME TypeOK, InterruptFresh, [SerialNext]_serial
  PROVE  TypeOK' /\ InterruptFresh'
<1>1. ASSUME NEW c \in Byte, PushRx(c) PROVE TypeOK' /\ InterruptFresh'
  BY <1>1, PutTypes, UpdateFresh DEF PushRx, TypeOK
<1>2. CASE ReadRx
  <2>1. (rx_tail + 1) % RxBuf \in Slots
    BY NextSlot DEF TypeOK
  <2>2. rx_buf[rx_tail] \in Byte \cup {Idle}
    BY DEF TypeOK
  <2> QED
    BY <1>2, <2>1, <2>2, UpdateFresh DEF ReadRx, TypeOK
<1>3. CASE ReadIir
  BY <1>3, UpdateFresh DEF ReadIir, TypeOK, RingUntouched, ring
<1>4. CASE AccessPlain
  BY <1>4, UpdateFresh DEF AccessPlain, TypeOK, RingUntouched, ring
<1>5. ASSUME NEW c \in Byte, WriteTx(c) PROVE TypeOK' /\ InterruptFresh'
  BY <1>5, PutTypes, UpdateFresh DEF WriteTx, TypeOK, RingUntouched, ring
<1>6. ASSUME NEW v \in SUBSET {"RDI", "THRI"}, WriteIer(v) PROVE TypeOK' /\ InterruptFresh'
  BY <1>6, UpdateFresh DEF WriteIer, TypeOK, RingUntouched, ring
<1>7. ASSUME NEW e \in BOOLEAN, NEW r \in BOOLEAN, WriteFcr(e, r)
      PROVE  TypeOK' /\ InterruptFresh'
  BY <1>7, UpdateFresh, RxBufAssumption
     DEF WriteFcr, TypeOK, RingUntouched, RingClear, ring, Slots, RxBufAssumption
<1>8. ASSUME NEW v \in {"plain", "dlab", "conf_b"}, WriteLcr(v) PROVE TypeOK' /\ InterruptFresh'
  BY <1>8, UpdateFresh DEF WriteLcr, TypeOK, RingUntouched, ring
<1>9. ASSUME NEW v \in SUBSET {"OUT2", "LOOP"}, WriteMcr(v) PROVE TypeOK' /\ InterruptFresh'
  BY <1>9, UpdateFresh DEF WriteMcr, TypeOK, RingUntouched, ring
<1>10. CASE UNCHANGED serial
  BY <1>10 DEF serial, ring, TypeOK, InterruptFresh, Pending
<1> QED
  BY <1>1, <1>2, <1>3, <1>4, <1>5, <1>6, <1>7, <1>8, <1>9, <1>10
     DEF SerialNext, GuestAccess

(* Types of the UART, its ring indices among them: no access of the ring   *)
(* is out of bounds (serial8250.c:104-116, :161-164).                      *)
THEOREM SerialTypes == SerialSpec => []TypeOK
<1>1. TypeOK /\ InterruptFresh /\ [SerialNext]_serial => (TypeOK /\ InterruptFresh)'
  BY UartKeeps
<1> QED
  BY <1>1, UartStart, PTL DEF SerialSpec

(* IIR and the interrupt line are never stale (serial8250.c:77-102).       *)
THEOREM InterruptsFresh == SerialSpec => []InterruptFresh
<1>1. TypeOK /\ InterruptFresh /\ [SerialNext]_serial => (TypeOK /\ InterruptFresh)'
  BY UartKeeps
<1> QED
  BY <1>1, UartStart, PTL DEF SerialSpec

-----------------------------------------------------------------------------
(* The ring implements the queue of RxFifo.                                *)

Content == Queue(rx_buf, rx_head, rx_tail)

LEMMA QueueIsContent == RxQueue = Content /\ RxQueue' = Content'
BY DEF RxQueue, RxCount, Content, Queue, Count

(* RingPut() is Put or PutFull.                                            *)
LEMMA PutRefines ==
  ASSUME TypeOK, NEW c \in Byte, RingPut(c)
  PROVE  Fifo!Put(c) \/ Fifo!PutFull
<1> USE DEF TypeOK
<1> DEFINE S == Byte \cup {Idle}
<1>1. Content \in Seq(S) /\ Len(Content) = Count(rx_head, rx_tail)
  BY QueueIsSeq DEF Content, IsQueue
<1>2. CASE (rx_head + 1) % RxBuf # rx_tail
  <2>1. /\ Count(rx_head, rx_tail) < RxBuf - 1
        /\ Queue([rx_buf EXCEPT ![rx_head] = c], (rx_head + 1) % RxBuf, rx_tail)
             = Append(Queue(rx_buf, rx_head, rx_tail), c)
    <3>1. /\ rx_buf \in [Slots -> S] /\ rx_head \in Slots /\ rx_tail \in Slots
          /\ c \in S
      OBVIOUS
    <3> HIDE DEF S, TypeOK
    <3>2. Roomy(rx_head, rx_tail)
      BY <1>2 DEF Roomy
    <3>3. Appended(rx_buf, rx_head, rx_tail, c)
      BY <3>1, <3>2, PutAppends
    <3> QED
      BY <3>3 DEF Appended
  <2>2. Content' = Append(Content, c)
    BY <1>2, <2>1 DEF RingPut, Content
  <2> QED
    BY <1>1, <1>2, <2>1, <2>2, QueueIsContent DEF Fifo!Put, RingPut
<1>3. CASE (rx_head + 1) % RxBuf = rx_tail
  <2>1. Count(rx_head, rx_tail) = RxBuf - 1
    BY <1>3, FullQueue
  <2>2. Content' = Content /\ outcome' = "full"
    BY <1>3 DEF RingPut, Content, ring
  <2> QED
    BY <1>1, <2>1, <2>2, QueueIsContent DEF Fifo!PutFull
<1> QED
  BY <1>2, <1>3

(* An operation that leaves the ring alone is Other.                       *)
LEMMA UntouchedRefines ==
  ASSUME RingUntouched
  PROVE  Fifo!Other
BY QueueIsContent DEF RingUntouched, ring, Content, Fifo!Other

(* A FIFO reset is Clear.                                                  *)
LEMMA ClearRefines ==
  ASSUME TypeOK, RingClear
  PROVE  Fifo!Clear
<1>1. 0 \in Slots
  BY RxBufAssumption DEF Slots, RxBufAssumption
<1>2. Queue(rx_buf, 0, 0) = <<>>
  BY <1>1, EmptyQueue DEF TypeOK, EmptyOrNot
<1>3. Content' = <<>>
  BY <1>2 DEF RingClear, Content
<1> QED
  BY <1>3, QueueIsContent DEF RingClear, Fifo!Clear

(* Reading RX is Get, GetNothing, or does not concern the ring.            *)
LEMMA ReadRefines ==
  ASSUME TypeOK, ReadRx
  PROVE  Fifo!Get \/ Fifo!GetNothing \/ Fifo!Other
<1> USE DEF TypeOK
<1> DEFINE S == Byte \cup {Idle}
<1>0. rx_buf \in [Slots -> S] /\ rx_head \in Slots /\ rx_tail \in Slots
  OBVIOUS
<1> HIDE DEF S, TypeOK
<1>1. Content = <<>> <=> rx_head = rx_tail
  <2>1. EmptyOrNot(rx_buf, rx_head, rx_tail)
    BY <1>0, EmptyQueue
  <2> QED
    BY <2>1 DEF Content, EmptyOrNot
<1>2. CASE Dlab
  <2>1. Content' = Content /\ outcome' = "none"
    BY <1>2 DEF ReadRx, Content
  <2> QED
    BY <2>1, QueueIsContent DEF Fifo!Other
<1>3. CASE ~Dlab /\ rx_head # rx_tail
  <2>1. /\ Head(Content) = rx_buf[rx_tail]
        /\ Queue(rx_buf, rx_head, (rx_tail + 1) % RxBuf) = Tail(Content)
    BY <1>0, <1>3, GetTakesHead DEF Content
  <2>2. Content' = Tail(Content) /\ outcome' = Head(Content)
    BY <1>3, <2>1 DEF ReadRx, Content
  <2> QED
    BY <1>1, <1>3, <2>2, QueueIsContent DEF Fifo!Get
<1>4. CASE ~Dlab /\ rx_head = rx_tail
  <2>1. Content' = Content /\ outcome' = Idle
    BY <1>4 DEF ReadRx, Content
  <2> QED
    BY <1>1, <1>4, <2>1, QueueIsContent DEF Fifo!GetNothing
<1> QED
  BY <1>2, <1>3, <1>4

(* Every step of the UART is one of the queue, or leaves it as it is.      *)
LEMMA StepRefines ==
  ASSUME TypeOK, [SerialNext]_serial
  PROVE  [Fifo!Next]_<<RxQueue, outcome>>
<1>1. ASSUME NEW c \in Byte, PushRx(c) PROVE Fifo!Next
  BY <1>1, PutRefines DEF PushRx, Fifo!Next
<1>2. CASE ReadRx
  BY <1>2, ReadRefines DEF Fifo!Next
<1>3. CASE ReadIir \/ AccessPlain
  BY <1>3, UntouchedRefines DEF ReadIir, AccessPlain, Fifo!Next
<1>4. ASSUME NEW c \in Byte, WriteTx(c) PROVE Fifo!Next
  BY <1>4, PutRefines, UntouchedRefines DEF WriteTx, Fifo!Next
<1>5. ASSUME NEW v, WriteIer(v) \/ WriteLcr(v) \/ WriteMcr(v) PROVE Fifo!Next
  BY <1>5, UntouchedRefines DEF WriteIer, WriteLcr, WriteMcr, Fifo!Next
<1>6. ASSUME NEW e \in BOOLEAN, NEW r \in BOOLEAN, WriteFcr(e, r) PROVE Fifo!Next
  BY <1>6, UntouchedRefines, ClearRefines DEF WriteFcr, Fifo!Next
<1>7. CASE UNCHANGED serial
  BY <1>7, QueueIsContent DEF serial, ring, Content
<1> QED
  BY <1>1, <1>2, <1>3, <1>4, <1>5, <1>6, <1>7 DEF SerialNext, GuestAccess

(* The receive ring, whatever its size, is a bounded first-in first-out    *)
(* queue: bytes reach the guest once and in order, and are lost only when  *)
(* they come to a full queue or in a FIFO reset (serial8250.c:104-116,     *)
(* :161-164, :236, :289-304).                                              *)
THEOREM RingImplementsFifo == SerialSpec => RingIsFifo
<1>1. SerialInit => Fifo!Init
  <2> SUFFICES ASSUME SerialInit PROVE Fifo!Init
    OBVIOUS
  <2>1. TypeOK
    BY UartStart
  <2>2. Content = <<>>
    BY <2>1, EmptyQueue DEF TypeOK, SerialInit, Content, EmptyOrNot
  <2> QED
    BY <2>2, QueueIsContent DEF Fifo!Init, SerialInit
<1>2. TypeOK /\ [SerialNext]_serial => [Fifo!Next]_<<RxQueue, outcome>>
  BY StepRefines
<1> QED
  BY <1>1, <1>2, SerialTypes, PTL DEF SerialSpec, RingIsFifo, Fifo!Spec
=============================================================================
