------------------------------- MODULE RxRing -------------------------------
(***************************************************************************)
(* The HAL-owned single-producer single-consumer byte ring of              *)
(* src/src/usart_rx.rs (RxRing<N>).  The producer is the receive ISR, the  *)
(* consumer the main loop.  An operation is broken at its accesses to      *)
(* shared memory: the load of the other side's index, the access to the    *)
(* buffer cell, the store of the own index.  The load of the own index is  *)
(* no step: nobody else writes it.                                         *)
(*                                                                         *)
(* The interleaving is unrestricted.  On the single-core target the ISR    *)
(* runs to completion before the main loop resumes, so the program's       *)
(* interleavings are some of those explored here.  The Release store and   *)
(* the Acquire load of an index pair up on every index, so a sequentially  *)
(* consistent memory is what the two sides observe.                        *)
(***************************************************************************)
EXTENDS Integers, Sequences

CONSTANTS
  N,          \* slots of the ring; it holds N - 1 bytes
  Byte,       \* the values a received character may have
  RrMaxBytes    \* bound of the model: bytes ever accepted

\* RxRing::VALID, the compile-time rejection of degenerate rings.
ASSUME NAssumption == N \in Nat /\ N >= 2
ASSUME ByteAssumption == 0 \in Byte
ASSUME RrMaxBytesAssumption == RrMaxBytes \in Nat

VARIABLES
  head,       \* producer index: the next slot to write
  tail,       \* consumer index: the next slot to read
  rrBuf,        \* the byte storage
  prod,       \* where the producer is in push
  prodByte,   \* push's argument
  cons,       \* where the consumer is in pop
  consByte,   \* the byte pop has read and will return
  accepted,   \* history: the bytes push returned TRUE for
  delivered   \* history: the bytes pop returned

rrVars == << head, tail, rrBuf, prod, prodByte, cons, consByte, accepted, delivered >>
prodVars == << head, prod, prodByte, accepted >>
consVars == << tail, cons, consByte, delivered >>

Slot == 0 .. N - 1

\* (index + 1) % N
Succ(i) == (i + 1) % N

RrInit ==
  /\ head = 0 /\ tail = 0
  /\ rrBuf = [i \in Slot |-> 0]
  /\ prod = "idle" /\ prodByte = 0
  /\ cons = "idle" /\ consByte = 0
  /\ accepted = << >> /\ delivered = << >>

(***************************************************************************)
(* push: full => false; otherwise write the slot, then publish the index.  *)
(***************************************************************************)
PushRefused ==
  /\ prod = "idle"
  /\ Succ(head) = tail
  /\ UNCHANGED rrVars

\* Mutant: push does not test for a full ring.
PushBeginUnchecked(b) ==
  /\ prod = "idle"
  /\ Len(accepted) < RrMaxBytes
  /\ prod' = "write" /\ prodByte' = b
  /\ UNCHANGED << head, accepted, consVars, rrBuf >>

PushBegin(b) ==
  /\ prod = "idle"
  /\ Len(accepted) < RrMaxBytes
  /\ Succ(head) # tail
  /\ prod' = "write" /\ prodByte' = b
  /\ UNCHANGED << head, accepted, consVars, rrBuf >>

PushWrite ==
  /\ prod = "write"
  /\ rrBuf' = [rrBuf EXCEPT ![head] = prodByte]
  /\ prod' = "publish"
  /\ UNCHANGED << head, prodByte, accepted, consVars >>

PushPublish ==
  /\ prod = "publish"
  /\ head' = Succ(head)
  /\ accepted' = Append(accepted, prodByte)
  /\ prod' = "idle"
  /\ UNCHANGED << prodByte, consVars, rrBuf >>

(***************************************************************************)
(* pop: empty => None; otherwise read the slot, then free it.              *)
(***************************************************************************)
PopEmpty ==
  /\ cons = "idle"
  /\ tail = head
  /\ UNCHANGED rrVars

\* Mutant: empty is tested with an order of the indices that a wrap reverses.
PopBeginOrdered ==
  /\ cons = "idle"
  /\ tail < head
  /\ cons' = "read"
  /\ UNCHANGED << prodVars, tail, consByte, delivered, rrBuf >>

PopBegin ==
  /\ cons = "idle"
  /\ tail # head
  /\ cons' = "read"
  /\ UNCHANGED << prodVars, tail, consByte, delivered, rrBuf >>

\* Mutant: the slot is freed before it is read.
PopReadAfterFree ==
  /\ cons = "read"
  /\ consByte' = rrBuf[Succ(tail)]
  /\ cons' = "free"
  /\ UNCHANGED << prodVars, tail, delivered, rrBuf >>

PopRead ==
  /\ cons = "read"
  /\ consByte' = rrBuf[tail]
  /\ cons' = "free"
  /\ UNCHANGED << prodVars, tail, delivered, rrBuf >>

PopFree ==
  /\ cons = "free"
  /\ tail' = Succ(tail)
  /\ delivered' = Append(delivered, consByte)
  /\ cons' = "idle"
  /\ UNCHANGED << prodVars, consByte, rrBuf >>

Push == PushRefused \/ PushWrite \/ PushPublish \/ \E b \in Byte : PushBegin(b)
Pop  == PopEmpty \/ PopBegin \/ PopRead \/ PopFree

RrNext == Push \/ Pop

RrSpec == RrInit /\ [][RrNext]_rrVars

\* The ISR finishes what it started; the main loop keeps polling the ring.
RrFairness == WF_rrVars(PushWrite) /\ WF_rrVars(PushPublish) /\ WF_rrVars(Pop)

RrFairSpec == RrSpec /\ RrFairness
------------------------------------------------------------------------------
\* How many bytes are published and not yet freed.
Count == IF head >= tail THEN head - tail ELSE head + N - tail

\* The slot of the k-th unread byte, k in 1 .. Count.
SlotOf(k) == IF tail + k - 1 < N THEN tail + k - 1 ELSE tail + k - 1 - N

\* The unread bytes, oldest first.
Contents == [k \in 1 .. Count |-> rrBuf[SlotOf(k)]]

\* The ring's variables have the types usart_rx.rs declares.
RrTypeOK ==
  /\ head \in Slot /\ tail \in Slot
  /\ rrBuf \in [Slot -> Byte]
  /\ prod \in {"idle", "write", "publish"} /\ prodByte \in Byte
  /\ cons \in {"idle", "read", "free"} /\ consByte \in Byte
  /\ accepted \in Seq(Byte) /\ delivered \in Seq(Byte)

\* The claim under `unsafe impl Sync for RxRing`: the producer never writes
\* the cell the consumer is reading.
NoSlotRace == ~ (prod = "write" /\ cons = "read" /\ head = tail)

\* No byte push accepted is lost, duplicated, overwritten or reordered: what
\* pop returned, followed by what is still in the ring, is what push accepted.
InOrder == delivered \o Contents = accepted

\* The ring implements a bounded queue of N - 1 bytes ("usable capacity is
\* N - 1"), push taking effect at the store of head and pop at that of tail.
Fifo == INSTANCE BoundedFifo WITH Capacity <- N - 1, queue <- Contents
ImplementsFifo == Fifo!Spec

\* A main loop that keeps polling is handed every accepted byte, however long
\* the ring has been running (the indices wrap).
EveryByteDelivered ==
  \A k \in 1 .. RrMaxBytes : (Len(accepted) >= k) ~> (Len(delivered) >= k)

\* What the ring of push and pop promises at every moment: its state is well
\* formed, its two sides never meet in a slot, and it is a queue.
RrSafe ==
  /\ RrTypeOK
  /\ NoSlotRace
  /\ InOrder
==============================================================================
