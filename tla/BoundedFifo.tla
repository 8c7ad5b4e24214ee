----------------------------- MODULE BoundedFifo -----------------------------
(***************************************************************************)
(* What a receive ring promises its two users, with no ring in it: a       *)
(* bounded first-in first-out queue of bytes.  The producer appends while  *)
(* there is room, the consumer takes the oldest byte.  RxRing implements   *)
(* this specification.                                                     *)
(***************************************************************************)
EXTENDS Naturals, Sequences

CONSTANTS
  Byte,       \* the values a received character may have
  Capacity    \* how many bytes the queue holds

VARIABLES
  queue,      \* the bytes accepted and not yet delivered, oldest first
  delivered   \* every byte the consumer was handed, in order

fifoVars == << queue, delivered >>

Init ==
  /\ queue = << >>
  /\ delivered = << >>

Enqueue(b) ==
  /\ Len(queue) < Capacity
  /\ queue' = Append(queue, b)
  /\ UNCHANGED delivered

Dequeue ==
  /\ queue # << >>
  /\ delivered' = Append(delivered, Head(queue))
  /\ queue' = Tail(queue)

Next == Dequeue \/ \E b \in Byte : Enqueue(b)

Spec == Init /\ [][Next]_fifoVars
==============================================================================
