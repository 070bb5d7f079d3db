---------------------------- MODULE IoBus_proofs ----------------------------
(***************************************************************************)
(* Proofs about the bus for any devices, any size of the table, any number *)
(* of vCPUs and strings of any length.                                     *)
(***************************************************************************)
EXTENDS IoBus, Integers, TLAPS

(* No address is in two ranges of the table.                               *)
RangesApart ==
  \A j, k \in DOMAIN tbl :
    j # k => \/ tbl[j].base + tbl[j].len <= tbl[k].base
             \/ tbl[k].base + tbl[k].len <= tbl[j].base

(* io_lock is held from the lookup to the end of the access.               *)
Holding == \A v \in Vcpus : op[v].at \in {"call", "unlock"} <=> io_lock = v

(* What an access has come to; the last call is its own once it made one.  *)
Progress ==
  \A v \in Vcpus :
    /\ op[v].at # "guest" => running
    /\ op[v].at \in {"guest", "exit", "ended"} => op[v].i = 0
    /\ op[v].at = "exit" => op[v].count > 0
    /\ op[v].at = "call" => Claimed(op[v].addr) /\ op[v].i < op[v].count
    /\ op[v].i > 0 =>
         /\ calls # <<>>
         /\ calls[Len(calls)].by = v /\ calls[Len(calls)].i = op[v].i
         /\ calls[Len(calls)].dev = io_lookup(op[v].addr)
         /\ op[v].at = "call" => calls[Len(calls)].ret = "OK"

(* After a request to exit its vCPU gives the lock up and has ended.       *)
ExitIsLast ==
  \A n \in 1 .. Len(calls) :
    calls[n].ret = "EXIT" =>
      \/ op[calls[n].by].at = "ended"
      \/ /\ op[calls[n].by].at = "unlock" /\ op[calls[n].by].i > 0
         /\ n = Len(calls)

IInv ==
  /\ TypeOK /\ RangesApart /\ Holding /\ Progress /\ ExitIsLast
  /\ StringsAreWhole /\ ExitEndsVcpu

-----------------------------------------------------------------------------

(* The end of an offered range does not wrap.                              *)
LEMMA EndOf ==
  ASSUME NEW d \in Offered
  PROVE  d.base \in Nat /\ d.len \in Nat \ {0} /\ Plus(d.base, d.len) = d.base + d.len
<1> USE OfferedAssumption, SizesAssumption DEF OfferedAssumption, SizesAssumption
<1>1. d.base \in Nat /\ d.len \in Nat \ {0} /\ d.base + d.len < Top
  OBVIOUS
<1> DEFINE e == d.base + d.len
<1>2. e \in Nat /\ e < Top
  BY <1>1
<1> HIDE DEF e
<1>3. e % Top = e
  BY <1>2
<1> QED
  BY <1>1, <1>3 DEF Plus, e

(* So a device claims the addresses of its range.                          *)
LEMMA ClaimsRange ==
  ASSUME TypeOK, NEW k \in DOMAIN tbl, NEW addr \in Addr
  PROVE  tbl[k] \in Offered /\ (Claims(k, addr) <=> Covers(tbl[k], addr))
<1>1. tbl[k] \in Offered
  BY DEF TypeOK
<1> QED
  BY <1>1, EndOf, SizesAssumption DEF Claims, Covers, Addr, SizesAssumption

(* At most one device claims an address, and it is found.                  *)
LEMMA Found ==
  ASSUME TypeOK, RangesApart, NEW addr \in Addr, NEW k \in DOMAIN tbl, Claims(k, addr)
  PROVE  /\ \A j \in DOMAIN tbl : Claims(j, addr) => j = k
         /\ io_lookup(addr) = tbl[k]
<1>1. ASSUME NEW j \in DOMAIN tbl, Claims(j, addr) PROVE j = k
  <2>1. Covers(tbl[j], addr) /\ Covers(tbl[k], addr) /\ tbl[j] \in Offered /\ tbl[k] \in Offered
    BY <1>1, ClaimsRange
  <2> QED
    BY <2>1, EndOf, SizesAssumption DEF RangesApart, Covers, Addr, SizesAssumption
<1> DEFINE First(i) == Claims(i, addr) /\ \A j \in 1 .. i - 1 : ~Claims(j, addr)
<1>2. First(k)
  <2> SUFFICES ASSUME NEW j \in 1 .. k - 1, Claims(j, addr) PROVE FALSE
    OBVIOUS
  <2>1. j \in DOMAIN tbl /\ j # k
    BY DEF TypeOK
  <2> QED
    BY <1>1, <2>1
<1>3. \A i \in DOMAIN tbl : First(i) => i = k
  BY <1>1
<1>4. (CHOOSE i \in DOMAIN tbl : First(i)) = k
  BY <1>2, <1>3, Zenon
<1> QED
  BY <1>1, <1>4 DEF io_lookup

LEMMA CallTypes ==
  ASSUME TypeOK, NEW n \in 1 .. Len(calls)
  PROVE  /\ calls[n] \in CallRecord /\ calls[n].by \in Vcpus /\ calls[n].dev \in Offered
         /\ calls[n].i \in Nat /\ calls[n].ret \in {"OK", "EXIT"}
<1>1. calls[n] \in CallRecord
  BY DEF TypeOK
<1> QED
  BY <1>1 DEF CallRecord

LEMMA OpTypes ==
  ASSUME TypeOK, NEW v \in Vcpus
  PROVE  /\ op[v] \in AccessRecord /\ op[v].addr \in Addr
         /\ op[v].at \in {"guest", "exit", "call", "unlock", "ended"}
         /\ op[v].i \in 0 .. MaxCount /\ op[v].count \in 0 .. MaxCount
<1>1. op[v] \in AccessRecord
  BY DEF TypeOK
<1> QED
  BY <1>1 DEF AccessRecord

LEMMA LookupType ==
  ASSUME TypeOK, RangesApart, NEW addr \in Addr, Claimed(addr)
  PROVE  io_lookup(addr) \in Offered /\ addr - io_lookup(addr).base \in Nat
<1>1. PICK k \in DOMAIN tbl : Claims(k, addr)
  BY DEF Claimed
<1>2. io_lookup(addr) = tbl[k] /\ tbl[k] \in Offered /\ Covers(tbl[k], addr)
  BY <1>1, Found, ClaimsRange
<1> QED
  BY <1>2, EndOf, SizesAssumption DEF Covers, Addr, SizesAssumption

-----------------------------------------------------------------------------

LEMMA Initially == Init => IInv
<1> SUFFICES ASSUME Init PROVE IInv
  OBVIOUS
<1> USE NobodyAssumption, SizesAssumption DEF Init, NobodyAssumption, SizesAssumption
<1>1. TypeOK
  <2>1. 0 \in Addr
    BY DEF Addr
  <2>2. tbl \in Seq(Offered) /\ Len(tbl) <= MaxDevs
    OBVIOUS
  <2>3. Idle \in AccessRecord
    BY <2>1 DEF AccessRecord, Idle
  <2>4. op \in [Vcpus -> AccessRecord]
    BY <2>3
  <2>5. calls \in Seq(CallRecord)
    OBVIOUS
  <2>6. running \in BOOLEAN
    BY Zenon
  <2> QED
    BY <2>2, <2>4, <2>5, <2>6 DEF TypeOK
<1>2. RangesApart /\ Holding /\ Progress
  BY DEF RangesApart, Holding, Progress, Idle
<1>3. ExitIsLast /\ StringsAreWhole /\ ExitEndsVcpu
  BY DEF ExitIsLast, StringsAreWhole, ExitEndsVcpu
<1> QED
  BY <1>1, <1>2, <1>3 DEF IInv

(* Registration appends a range apart from all others.                     *)
LEMMA RegisterStep ==
  ASSUME IInv, NEW d \in Offered, io_register(d)
  PROVE  IInv'
<1> USE DEF IInv, io_register
<1>1. tbl \in Seq(Offered) /\ tbl' = Append(tbl, d)
  BY DEF TypeOK
<1>2. /\ DOMAIN tbl' = 1 .. Len(tbl) + 1 /\ DOMAIN tbl = 1 .. Len(tbl)
      /\ tbl'[Len(tbl) + 1] = d /\ \A k \in DOMAIN tbl : tbl'[k] = tbl[k]
  BY <1>1
<1>3. TypeOK'
  <2>1. Len(tbl') = Len(tbl) + 1 /\ Len(tbl') <= MaxDevs
    BY <1>1, SizesAssumption DEF SizesAssumption
  <2> QED
    BY <1>1, <2>1 DEF TypeOK
<1>4. RangesApart'
  <2>1. \A k \in DOMAIN tbl : \/ tbl[k].base + tbl[k].len <= d.base
                              \/ d.base + d.len <= tbl[k].base
    <3> TAKE k \in DOMAIN tbl
    <3>1. tbl[k] \in Offered
      BY <1>1
    <3>2. ~Overlap(d, tbl[k])
      OBVIOUS
    <3>3. /\ Plus(d.base, d.len) = d.base + d.len
          /\ Plus(tbl[k].base, tbl[k].len) = tbl[k].base + tbl[k].len
          /\ d.base \in Nat /\ d.len \in Nat /\ tbl[k].base \in Nat /\ tbl[k].len \in Nat
      BY <3>1, EndOf
    <3> QED
      BY <3>2, <3>3 DEF Overlap
  <2> QED
    BY <1>2, <2>1 DEF RangesApart
<1>5. Holding' /\ Progress' /\ ExitIsLast'
  <2>1. \A v \in Vcpus : op[v].at = "guest"
    BY DEF Progress
  <2>2. \A v \in Vcpus : op[v].i = 0
    BY <2>1 DEF Progress
  <2>3. Holding' /\ ExitIsLast'
    BY DEF Holding, ExitIsLast
  <2>4. Progress'
    BY <2>1, <2>2 DEF Progress
  <2> QED
    BY <2>3, <2>4
<1>6. StringsAreWhole' /\ ExitEndsVcpu'
  BY DEF StringsAreWhole, ExitEndsVcpu
<1> QED
  BY <1>3, <1>4, <1>5, <1>6

(* What does not touch the table, the calls or the lock.                   *)
LEMMA SameLookup ==
  ASSUME UNCHANGED tbl
  PROVE  /\ RangesApart => RangesApart'
         /\ \A a : Claimed(a)' <=> Claimed(a)
         /\ \A a : io_lookup(a)' = io_lookup(a)
BY DEF RangesApart, Claimed, io_lookup, Claims

LEMMA StartStep ==
  ASSUME IInv, StartGuest
  PROVE  IInv'
<1> USE DEF IInv, StartGuest
<1>1. TypeOK' /\ Holding' /\ ExitIsLast' /\ StringsAreWhole' /\ ExitEndsVcpu'
  BY DEF TypeOK, Holding, ExitIsLast, StringsAreWhole, ExitEndsVcpu
<1>2. Progress' /\ RangesApart'
  BY SameLookup DEF Progress
<1> QED
  BY <1>1, <1>2

LEMMA AccessStep ==
  ASSUME IInv, NEW v \in Vcpus, NEW addr \in Addr, NEW count \in 1 .. MaxCount,
         Access(v, addr, count)
  PROVE  IInv'
<1> USE DEF IInv, Access
<1>1. /\ op'[v] = [at |-> "exit", addr |-> addr, count |-> count, i |-> 0]
      /\ \A w \in Vcpus \ {v} : op'[w] = op[w]
  BY DEF TypeOK
<1>2. TypeOK'
  <2>1. op'[v] \in AccessRecord
    BY <1>1, SizesAssumption DEF AccessRecord, SizesAssumption
  <2> QED
    BY <2>1 DEF TypeOK
<1>3. Holding'
  BY <1>1 DEF Holding
<1>4. Progress' /\ RangesApart'
  BY <1>1, SameLookup DEF Progress
<1>5. ExitIsLast'
  <2> SUFFICES ASSUME NEW n \in 1 .. Len(calls), calls[n].ret = "EXIT"
               PROVE  ExitIsLast!(n)'
    BY DEF ExitIsLast
  <2>1. calls[n].by \in Vcpus /\ ExitIsLast!(n)
    BY CallTypes DEF ExitIsLast
  <2>2. calls[n].by # v
    BY <2>1
  <2> QED
    BY <1>1, <2>1, <2>2
<1>6. StringsAreWhole' /\ ExitEndsVcpu'
  BY DEF StringsAreWhole, ExitEndsVcpu
<1> QED
  BY <1>2, <1>3, <1>4, <1>5, <1>6

(* The lookup and the first turn happen under a lock just taken.           *)
LEMMA DispatchStep ==
  ASSUME IInv, NEW v \in Vcpus, Dispatch(v)
  PROVE  IInv'
<1> USE DEF IInv, Dispatch
<1>1. /\ op'[v] = [op[v] EXCEPT !.at = IF Claimed(op[v].addr) THEN "call" ELSE "unlock"]
      /\ \A w \in Vcpus \ {v} : op'[w] = op[w]
  BY DEF TypeOK
<1>2. op[v] \in AccessRecord /\ op'[v] \in AccessRecord
  BY <1>1, OpTypes DEF AccessRecord
<1>3. /\ op'[v].at = (IF Claimed(op[v].addr) THEN "call" ELSE "unlock")
      /\ op'[v].addr = op[v].addr /\ op'[v].count = op[v].count
      /\ op'[v].i = 0 /\ op[v].i = 0
  BY <1>1, <1>2 DEF AccessRecord, Progress
<1>4. op[v].count > 0 /\ running
  BY DEF Progress
<1>5. TypeOK'
  BY <1>2 DEF TypeOK
<1>6. Holding'
  BY <1>1, <1>3, NobodyAssumption DEF Holding, NobodyAssumption
<1>7. RangesApart' /\ Progress'
  <2>1. Progress!(v)'
    BY <1>3, <1>4, SameLookup
  <2>2. \A w \in Vcpus \ {v} : Progress!(w)'
    BY <1>1, SameLookup DEF Progress
  <2> QED
    BY <2>1, <2>2, SameLookup DEF Progress
<1>8. ExitIsLast'
  <2> SUFFICES ASSUME NEW n \in 1 .. Len(calls), calls[n].ret = "EXIT"
               PROVE  ExitIsLast!(n)'
    BY DEF ExitIsLast
  <2>1. calls[n].by \in Vcpus /\ ExitIsLast!(n)
    BY CallTypes DEF ExitIsLast
  <2>2. calls[n].by # v
    BY <2>1
  <2> QED
    BY <1>1, <2>1, <2>2
<1>9. StringsAreWhole' /\ ExitEndsVcpu'
  BY DEF StringsAreWhole, ExitEndsVcpu
<1> QED
  BY <1>5, <1>6, <1>7, <1>8, <1>9

(* While a vCPU holds the lock, no other is in an access.                  *)
LEMMA Alone ==
  ASSUME IInv, NEW v \in Vcpus, op[v].at \in {"call", "unlock"}, NEW w \in Vcpus \ {v}
  PROVE  op[w].at \in {"guest", "exit", "ended"} /\ op[w].i = 0
<1>1. op[w].at \notin {"call", "unlock"}
  BY DEF IInv, Holding
<1>2. op[w].at \in {"guest", "exit", "ended"}
  BY <1>1, OpTypes DEF IInv
<1> QED
  BY <1>2 DEF IInv, Progress

(* A call of the device goes on where the last one of the access ended.    *)
LEMMA CallStep ==
  ASSUME IInv, NEW v \in Vcpus, NEW ret \in {"OK", "EXIT"}, Call(v, ret)
  PROVE  IInv'
<1> USE DEF IInv
<1> DEFINE dev  == io_lookup(op[v].addr)
           c    == [by |-> v, dev |-> dev, off |-> op[v].addr - dev.base,
                    i |-> op[v].i + 1, ret |-> ret]
           L    == Len(calls)
           more == IF ret = "OK" /\ op[v].i + 1 < op[v].count THEN "call" ELSE "unlock"
<1>0. op[v].at = "call" /\ UNCHANGED <<tbl, running, io_lock>>
  BY DEF Call
<1>1. /\ op'[v] = [op[v] EXCEPT !.i = op[v].i + 1, !.at = more]
      /\ \A w \in Vcpus \ {v} : op'[w] = op[w]
      /\ op' \in [Vcpus -> {op'[w] : w \in Vcpus}]
  BY DEF TypeOK, Call
<1>2. /\ op[v].addr \in Addr /\ op[v].i \in Nat /\ op[v].count \in 0 .. MaxCount
      /\ op[v].i < op[v].count /\ Claimed(op[v].addr) /\ running
      /\ op[v] \in AccessRecord
  BY <1>0, OpTypes DEF Progress
<1>3. /\ op'[v] \in AccessRecord
      /\ op'[v].at = more /\ op'[v].i = op[v].i + 1
      /\ op'[v].addr = op[v].addr /\ op'[v].count = op[v].count
  <2>1. more \in {"call", "unlock"}
    OBVIOUS
  <2> HIDE DEF more
  <2>2. op[v].i + 1 \in 0 .. MaxCount
    BY <1>2, SizesAssumption DEF SizesAssumption
  <2> QED
    BY <1>1, <1>2, <2>1, <2>2 DEF AccessRecord
<1>4. c \in CallRecord
  <2>1. dev \in Offered /\ op[v].addr - dev.base \in Nat
    BY <1>2, LookupType
  <2>2. op[v].i + 1 \in 1 .. MaxCount
    BY <1>2, SizesAssumption DEF SizesAssumption
  <2> HIDE DEF dev
  <2> QED
    BY <2>1, <2>2 DEF CallRecord
<1>5. /\ calls \in Seq(CallRecord) /\ L \in Nat
      /\ calls' = Append(calls, c)
  BY DEF TypeOK, Call, Element
<1>6. /\ calls' \in Seq(CallRecord) /\ Len(calls') = L + 1 /\ calls'[L + 1] = c
      /\ \A n \in 1 .. L : calls'[n] = calls[n]
  <2> HIDE DEF c
  <2> QED
    BY <1>4, <1>5
<1>7. c.by = v /\ c.dev = dev /\ c.i = op[v].i + 1 /\ c.ret = ret
  OBVIOUS
<1>8. \A n \in 1 .. L : calls[n].ret = "EXIT" =>
        calls[n].by # v /\ calls[n].by \in Vcpus /\ op[calls[n].by].at = "ended"
  <2> SUFFICES ASSUME NEW n \in 1 .. L, calls[n].ret = "EXIT"
               PROVE  calls[n].by # v /\ calls[n].by \in Vcpus /\ op[calls[n].by].at = "ended"
    OBVIOUS
  <2>1. calls[n].by \in Vcpus
    BY CallTypes
  <2>2. \/ op[calls[n].by].at = "ended"
        \/ op[calls[n].by].at = "unlock"
    BY DEF ExitIsLast
  <2>3. op[calls[n].by].at # "unlock"
    BY <1>0, <2>1, Alone
  <2> QED
    BY <1>0, <2>1, <2>2, <2>3
<1>9. op[v].i > 0 => /\ L > 0 /\ calls[L].by = v /\ calls[L].i = op[v].i
                     /\ calls[L].dev = dev
  <2>1. calls # <<>> => L > 0
    BY <1>5
  <2> QED
    BY <2>1 DEF Progress
<1> HIDE DEF c, L, dev, more
<1>16. L \in Nat
  BY <1>5
<1>10. TypeOK'
  <2>1. \A w \in Vcpus : op'[w] \in AccessRecord
    BY <1>1, <1>3, OpTypes
  <2>2. op' \in [Vcpus -> AccessRecord]
    BY <1>1, <2>1
  <2> QED
    BY <1>0, <1>6, <2>2 DEF TypeOK
<1>11. RangesApart' /\ Holding'
  <2>1. more \in {"call", "unlock"}
    BY DEF more
  <2> QED
    BY <1>0, <1>1, <1>3, <2>1, SameLookup DEF Holding
<1>12. Progress'
  <2>1. Progress!(v)'
    <3>1. calls' # <<>>
      BY <1>6, <1>5
    <3>2. more = "call" => ret = "OK" /\ op[v].i + 1 < op[v].count
      BY DEF more
    <3>3. more \in {"call", "unlock"}
      BY DEF more
    <3> QED
      BY <1>0, <1>2, <1>3, <1>6, <1>7, <3>1, <3>2, <3>3, SameLookup DEF dev
  <2>2. \A w \in Vcpus \ {v} : Progress!(w)'
    <3> TAKE w \in Vcpus \ {v}
    <3>1. op[w].at \in {"guest", "exit", "ended"} /\ op[w].i = 0 /\ op'[w] = op[w]
      BY <1>0, <1>1, Alone
    <3> QED
      BY <1>0, <3>1 DEF Progress
  <2> QED
    BY <2>1, <2>2 DEF Progress
<1>13. ExitIsLast'
  <2> SUFFICES ASSUME NEW n \in 1 .. L + 1, calls'[n].ret = "EXIT"
               PROVE  ExitIsLast!(n)'
    BY <1>6 DEF ExitIsLast
  <2>1. CASE n = L + 1
    <3>1. more = "unlock"
      BY <1>6, <1>7, <2>1 DEF more
    <3> QED
      BY <1>2, <1>3, <1>6, <1>7, <2>1, <3>1
  <2>2. CASE n \in 1 .. L
    BY <1>1, <1>6, <1>8, <2>2
  <2>3. n \in 1 .. L \/ n = L + 1
    BY <1>16
  <2> QED
    BY <2>1, <2>2, <2>3
<1>14. StringsAreWhole'
  <2> SUFFICES ASSUME NEW n \in 1 .. L + 1, calls'[n].i > 1
               PROVE  /\ n > 1
                      /\ calls'[n - 1].by = calls'[n].by /\ calls'[n - 1].dev = calls'[n].dev
                      /\ calls'[n - 1].i = calls'[n].i - 1
    BY <1>6 DEF StringsAreWhole
  <2>1. CASE n = L + 1
    <3>1. op[v].i > 0
      BY <1>2, <1>6, <1>7, <2>1
    <3>2. calls'[n - 1] = calls[L]
      BY <1>5, <1>6, <1>9, <2>1, <3>1
    <3> QED
      BY <1>2, <1>5, <1>6, <1>7, <1>9, <2>1, <3>1, <3>2
  <2>2. CASE n \in 1 .. L
    <3>1. /\ n > 1 /\ calls[n - 1].by = calls[n].by /\ calls[n - 1].dev = calls[n].dev
          /\ calls[n - 1].i = calls[n].i - 1
      BY <1>6, <2>2 DEF StringsAreWhole, L
    <3>2. calls'[n] = calls[n] /\ calls'[n - 1] = calls[n - 1]
      BY <1>5, <1>6, <2>2, <3>1
    <3> QED
      BY <3>1, <3>2
  <2>3. n \in 1 .. L \/ n = L + 1
    BY <1>16
  <2> QED
    BY <2>1, <2>2, <2>3
<1>15. ExitEndsVcpu'
  <2> SUFFICES ASSUME NEW n \in 1 .. L + 1, calls'[n].ret = "EXIT",
                      NEW m \in n + 1 .. L + 1
               PROVE  calls'[m].by # calls'[n].by
    BY <1>6 DEF ExitEndsVcpu
  <2>1. n \in 1 .. L /\ calls'[n] = calls[n]
    BY <1>5, <1>6
  <2>2. CASE m = L + 1
    BY <1>6, <1>7, <1>8, <2>1, <2>2
  <2>3. CASE m \in n + 1 .. L
    BY <1>5, <1>6, <2>1, <2>3 DEF ExitEndsVcpu, L
  <2>4. m \in n + 1 .. L \/ m = L + 1
    BY <1>16
  <2> QED
    BY <2>2, <2>3, <2>4
<1> QED
  BY <1>10, <1>11, <1>12, <1>13, <1>14, <1>15

(* Giving the lock up; after a request to exit, for the last time.         *)
LEMMA ReturnStep ==
  ASSUME IInv, NEW v \in Vcpus, Return(v)
  PROVE  IInv'
<1> USE DEF IInv
<1> DEFINE to == IF op[v].i > 0 /\ calls[Len(calls)].ret = "EXIT" THEN "ended" ELSE "guest"
<1>0. op[v].at = "unlock" /\ io_lock' = Nobody /\ UNCHANGED <<tbl, running, calls>>
  BY DEF Return
<1>1. /\ op'[v] = [at |-> to, addr |-> 0, count |-> 0, i |-> 0]
      /\ \A w \in Vcpus \ {v} : op'[w] = op[w]
      /\ op' \in [Vcpus -> {op'[w] : w \in Vcpus}]
  BY DEF TypeOK, Return, Idle
<1>2. to \in {"ended", "guest"}
  OBVIOUS
<1>3. running
  BY <1>0 DEF Progress
<1>4. TypeOK'
  <2>1. op'[v] \in AccessRecord
    BY <1>1, <1>2, SizesAssumption DEF AccessRecord, SizesAssumption, Addr
  <2>2. \A w \in Vcpus : op'[w] \in AccessRecord
    BY <1>1, <2>1, OpTypes
  <2>3. op' \in [Vcpus -> AccessRecord]
    BY <1>1, <2>2
  <2> QED
    BY <1>0, <2>3 DEF TypeOK
<1>5. RangesApart' /\ Holding'
  <2>1. \A w \in Vcpus : op'[w].at \notin {"call", "unlock"}
    BY <1>0, <1>1, <1>2, Alone
  <2> QED
    BY <1>0, <2>1, SameLookup, NobodyAssumption DEF Holding, NobodyAssumption
<1>6. Progress'
  <2>1. Progress!(v)'
    BY <1>0, <1>1, <1>2, <1>3
  <2>2. \A w \in Vcpus \ {v} : Progress!(w)'
    <3> TAKE w \in Vcpus \ {v}
    <3>1. op[w].at \in {"guest", "exit", "ended"} /\ op[w].i = 0 /\ op'[w] = op[w]
      BY <1>0, <1>1, Alone
    <3> QED
      BY <1>0, <3>1 DEF Progress
  <2> QED
    BY <2>1, <2>2 DEF Progress
<1>7. ExitIsLast'
  <2> SUFFICES ASSUME NEW n \in 1 .. Len(calls), calls[n].ret = "EXIT"
               PROVE  op'[calls[n].by].at = "ended"
    BY <1>0 DEF ExitIsLast
  <2>1. calls[n].by \in Vcpus /\ ExitIsLast!(n)
    BY CallTypes DEF ExitIsLast
  <2>2. CASE calls[n].by = v
    BY <1>0, <1>1, <2>1, <2>2
  <2>3. CASE calls[n].by # v
    BY <1>0, <1>1, <2>1, <2>3, Alone
  <2> QED
    BY <2>2, <2>3
<1>8. StringsAreWhole' /\ ExitEndsVcpu'
  BY <1>0 DEF StringsAreWhole, ExitEndsVcpu
<1> QED
  BY <1>4, <1>5, <1>6, <1>7, <1>8

-----------------------------------------------------------------------------

(* Every step keeps the invariant.                                         *)
LEMMA Step == IInv /\ [Next]_vars => IInv'
<1> SUFFICES ASSUME IInv, [Next]_vars PROVE IInv'
  OBVIOUS
<1>1. CASE UNCHANGED vars
  <2>1. TypeOK' /\ Holding' /\ ExitIsLast' /\ StringsAreWhole' /\ ExitEndsVcpu'
    BY <1>1 DEF IInv, vars, TypeOK, Holding, ExitIsLast, StringsAreWhole, ExitEndsVcpu
  <2>2. RangesApart' /\ Progress'
    BY <1>1, SameLookup DEF IInv, vars, Progress
  <2> QED
    BY <2>1, <2>2 DEF IInv
<1> QED
  BY <1>1, RegisterStep, StartStep, AccessStep, DispatchStep, CallStep, ReturnStep DEF Next

(* The table has no overlap, the lock belongs to the one vCPU that is      *)
(* calling a device, and the history of calls is well-formed.              *)
THEOREM Invariance == Spec => []IInv
BY Initially, Step, PTL DEF Spec

(* For any devices offered in any order, io_lookup() finds the one device  *)
(* that covers an address, if there is one (vm.c:30-39, :47-56).           *)
THEOREM Lookup == Spec => []LookupExact
<1>1. IInv => LookupExact
  <2> SUFFICES ASSUME IInv, NEW addr \in Addr
               PROVE  LookupExact!(addr)
    BY DEF LookupExact
  <2> DEFINE owners == {k \in DOMAIN tbl : Covers(tbl[k], addr)}
  <2>1. \A k \in DOMAIN tbl : k \in owners <=> Claims(k, addr)
    BY ClaimsRange DEF IInv
  <2>2. Claimed(addr) <=> owners # {}
    BY <2>1 DEF Claimed
  <2>3. ASSUME NEW k \in owners PROVE owners = {k} /\ io_lookup(addr) = tbl[k]
    <3>1. k \in DOMAIN tbl /\ Claims(k, addr)
      BY <2>1
    <3> QED
      BY <2>1, <3>1, Found DEF IInv
  <2> QED
    BY <2>2, <2>3
<1> QED
  BY <1>1, Invariance, PTL

(* The elements of a string instruction reach the device together, for any *)
(* number of vCPUs (vmm.h:193-196).                                        *)
THEOREM Strings == Spec => []StringsAreWhole
<1>1. IInv => StringsAreWhole
  BY DEF IInv
<1> QED
  BY <1>1, Invariance, PTL

(* After a device asked for the end its vCPU calls none (vmm.h:98-100).    *)
THEOREM Exits == Spec => []ExitEndsVcpu
<1>1. IInv => ExitEndsVcpu
  BY DEF IInv
<1> QED
  BY <1>1, Invariance, PTL
=============================================================================
