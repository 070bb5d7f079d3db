------------------------------- MODULE RxFifo -------------------------------
(***************************************************************************)
(* What the receive side of the UART promises: a bounded first-in          *)
(* first-out queue of bytes between the host and the guest.  A byte is     *)
(* dropped only if the queue is full when it arrives, and the queue is     *)
(* emptied only by a FIFO reset.                                           *)
(***************************************************************************)
EXTENDS Sequences, Naturals

CONSTANTS
  Byte,      (* the bytes that travel                                      *)
  Idle,      (* what the guest reads from an empty queue                   *)
  Capacity   (* bytes the queue holds                                      *)

VARIABLES
  queue,     (* oldest byte first                                          *)
  outcome    (* what the last operation did: the byte that was read, or    *)
             (* Idle; "stored", "full", "cleared"; or "none"               *)

Init == queue = <<>> /\ outcome = "none"

Put(c) ==
  /\ Len(queue) < Capacity
  /\ queue' = Append(queue, c)
  /\ outcome' = "stored"

PutFull ==
  /\ Len(queue) = Capacity
  /\ outcome' = "full"
  /\ UNCHANGED queue

Get ==
  /\ queue # <<>>
  /\ outcome' = Head(queue)
  /\ queue' = Tail(queue)

GetNothing ==
  /\ queue = <<>>
  /\ outcome' = Idle
  /\ UNCHANGED queue

Clear == queue' = <<>> /\ outcome' = "cleared"

Other == outcome' = "none" /\ UNCHANGED queue

Next ==
  \/ \E c \in Byte : Put(c)
  \/ PutFull \/ Get \/ GetNothing \/ Clear \/ Other

Spec == Init /\ [][Next]_<<queue, outcome>>
=============================================================================
