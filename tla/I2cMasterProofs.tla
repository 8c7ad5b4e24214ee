-------------------------- MODULE I2cMasterProofs --------------------------
(***************************************************************************)
(* The I2C master: I2cSafe and I2cSteps, for every list of calls, every    *)
(* length of a transfer and every budget, whatever a single-master bus     *)
(* does, provided no STOP finishes inside a modify of CTL0.                *)
(*                                                                         *)
(* A transfer's script is a fixed list of register operations; the         *)
(* invariant says how far along it the call is (TransferAt), which phases  *)
(* of the bus each operation may find (Row) and that neither a step of the *)
(* bus nor an error leaves them (PhasesKept). Between calls it says what   *)
(* the bus and the block are like (AtRest, Kept), and within a recovery,   *)
(* how many of its steps are done (RecoverAt).                             *)
(***************************************************************************)
EXTENDS I2cMaster, SequenceTheorems, TLAPS

\* The shapes of the state.
I2CtlSet == [start : BOOLEAN, stop : BOOLEAN, acken : BOOLEAN, poap : BOOLEAN]
I2RxSet == [dr : Nat, sh : Nat, clocked : Nat, nacked : BOOLEAN]
I2TxSet == [queued : Nat, acked : Nat]
I2Errors == {"BERR", "LOSTARB", "AERR", "OUERR"}
I2Results == {"Ok", "Bus", "ArbitrationLoss", "NackAddress", "NackData", "Overrun", "Timeout", "BusHeld"}
I2Phases == {"free", "sb", "addr", "ack", "tx", "rx", "hold", "wedged"}
I2CallTypes ==
  /\ mode \in {"idle", "op", "gate", "run", "recover", "recheck"}
  /\ ops \in Seq(Operation) /\ fresh \in BOOLEAN
  /\ left \in 0 .. PollBudget /\ budget \in 0 .. IdleBudget
  /\ res \in I2Results
I2BlockTypes ==
  /\ ctl \in I2CtlSet
  /\ rmw = <<>> \/ \E c \in I2CtlSet : rmw = <<c>>
  /\ err \subseteq I2Errors
I2BusTypes ==
  /\ ph \in I2Phases /\ dir \in {"r", "w"}
  /\ rx \in I2RxSet /\ tx \in I2TxSet
  /\ held \in 0 .. MaxPulses + 1
I2HistTypes ==
  /\ rcv \in Seq(Nat) /\ nack \in {"none", "address", "data"}
  /\ fault \subseteq {"late", "fresh"} /\ polls \in Nat
I2Types == I2CallTypes /\ I2BlockTypes /\ I2BusTypes /\ I2HistTypes

---------------------------------------------------------------------------
(* The phases of a transfer. Each is a promise the bus keeps as it moves. *)

Quiet == ~ctl.start /\ ~ctl.stop

\* What the modifies so far made of ACKEN and POAP.
Acks(m) ==
  /\ m = "any" => ~ctl.poap
  /\ m = "on" => ctl.acken /\ ~ctl.poap
  /\ m = "off" => ~ctl.acken /\ ~ctl.poap
  /\ m = "ahead" => ctl.acken /\ ctl.poap
  /\ m = "second" => ~ctl.acken /\ ctl.poap

\* The bus is free, or this master's after a write.
Ready(m) == Quiet /\ Acks(m) /\ (ph = "free" \/ (ph = "tx" /\ tx.queued = 0))
Started(m) ==
  /\ ~ctl.stop /\ Acks(m)
  /\ \/ ctl.start /\ (ph = "free" \/ (ph = "tx" /\ tx.queued = 0))
     \/ ~ctl.start /\ ph = "sb" /\ tx = NoTx
StartSeen(m) == Quiet /\ Acks(m) /\ ph = "sb" /\ tx = NoTx
Addressed(d, m) ==
  /\ Quiet /\ Acks(m) /\ ph \in {"addr", "ack", "hold"} /\ dir = d /\ rx = NoRx /\ tx = NoTx
  /\ ph = "hold" => nack = "address" /\ "AERR" \in err
Answered(d, m) == Quiet /\ Acks(m) /\ ph = "ack" /\ dir = d /\ rx = NoRx /\ tx = NoTx

\* A write: t bytes handed over; all acknowledged; its STOP requested.
Sending(t) ==
  /\ Quiet /\ Acks("on") /\ ph \in {"tx", "hold"} /\ rx = NoRx
  /\ ph = "tx" => tx.queued + tx.acked = t
  /\ ph = "hold" => nack = "data" /\ "AERR" \in err
AllAcked(t) == Quiet /\ Acks("on") /\ ph = "tx" /\ tx = [queued |-> 0, acked |-> t]
WriteStopped(t) ==
  /\ ~ctl.start /\ Acks("on") /\ tx = [queued |-> 0, acked |-> t]
  /\ \/ ctl.stop /\ ph = "tx"
     \/ ~ctl.stop /\ ph = "free"

\* A read of n bytes: r stored, at least lo clocked, the last of n refused.
Stored(r) == rcv = [i \in 1 .. r |-> i]
Taken(r, lo, n) ==
  /\ rx.clocked >= lo /\ rx.clocked >= r /\ rx.clocked <= r + 2 /\ rx.clocked <= n
  /\ rx.dr = IF rx.clocked > r THEN r + 1 ELSE None
  /\ rx.sh = IF rx.clocked = r + 2 THEN r + 2 ELSE None
  /\ rx.nacked <=> rx.clocked = n
\* ACKEN and POAP answer the bytes still to come as they should be.
Suits(r, lo, n, m) ==
  \/ m = "on" /\ (r + 2 < n \/ (lo = r + 2 /\ lo < n))
  \/ m = "off" /\ lo >= n - 1
  \/ m = "second" /\ n = 2
Receiving(r, lo, n, m) ==
  /\ Quiet /\ Acks(m) /\ ph = "rx" /\ dir = "r" /\ Stored(r) /\ Taken(r, lo, n) /\ Suits(r, lo, n, m)
ReadStopped(r, lo, n, m) ==
  /\ ~ctl.start /\ Acks(m) /\ dir = "r" /\ Stored(r) /\ Taken(r, lo, n)
  /\ lo = n \/ (n = 1 /\ m = "off")
  /\ \/ ctl.stop /\ ph = "rx"
     \/ ~ctl.stop /\ ph = "free" /\ rx.clocked = n

---------------------------------------------------------------------------
(* Where a transfer is: d of its register operations are done. *)

Sent(n) == IF n = 0 THEN 6 ELSE 7 + 2 * n
WriteAt(d, n) ==
  /\ d = 0 => Ready("any")
  /\ d = 1 => Ready("on")
  /\ d = 2 => Started("on")
  /\ d = 3 => StartSeen("on")
  /\ d = 4 => Addressed("w", "on")
  /\ d = 5 => Answered("w", "on")
  /\ \A t \in 0 .. n : n > 0 /\ d = 6 + 2 * t => Sending(t)
  /\ \A t \in 0 .. n - 1 : d = 7 + 2 * t => Sending(t)
  /\ d = Sent(n) => AllAcked(n)
  /\ d = Sent(n) + 1 => WriteStopped(n)
Read1At(d) ==
  /\ d = 0 => Ready("any")
  /\ d = 1 => Ready("on")
  /\ d = 2 => Started("on")
  /\ d = 3 => StartSeen("on")
  /\ d = 4 => Addressed("r", "on")
  /\ d = 5 => Addressed("r", "off")
  /\ d = 6 => Answered("r", "off")
  /\ d <= 6 => Stored(0)
  /\ d = 7 => Receiving(0, 0, 1, "off")
  /\ d = 8 => ReadStopped(0, 0, 1, "off")
  /\ d = 9 => ReadStopped(0, 1, 1, "off")
  /\ d = 10 => ReadStopped(1, 1, 1, "off")
  /\ d = 11 => ReadStopped(1, 1, 1, "on")
Read2At(d) ==
  /\ d = 0 => Ready("any")
  /\ d = 1 => Ready("on")
  /\ d = 2 => Ready("ahead")
  /\ d = 3 => Started("ahead")
  /\ d = 4 => StartSeen("ahead")
  /\ d = 5 => Addressed("r", "ahead")
  /\ d = 6 => Addressed("r", "second")
  /\ d = 7 => Answered("r", "second")
  /\ d <= 7 => Stored(0)
  /\ d = 8 => Receiving(0, 0, 2, "second")
  /\ d = 9 => Receiving(0, 2, 2, "second")
  /\ d = 10 => ReadStopped(0, 2, 2, "second")
  /\ d \in {11, 12} => ReadStopped(1, 2, 2, "second")
  /\ d = 13 => ReadStopped(2, 2, 2, "second")
  /\ d = 14 => ReadStopped(2, 2, 2, "off")
  /\ d = 15 => ReadStopped(2, 2, 2, "on")
Read3At(d, n) ==
  /\ d = 0 => Ready("any")
  /\ d = 1 => Ready("on")
  /\ d = 2 => Started("on")
  /\ d = 3 => StartSeen("on")
  /\ d = 4 => Addressed("r", "on")
  /\ d = 5 => Answered("r", "on")
  /\ d <= 5 => Stored(0)
  /\ \A r \in 0 .. n - 3 : d = 6 + 2 * r => Receiving(r, r, n, "on")
  /\ \A r \in 0 .. n - 4 : d = 7 + 2 * r => Receiving(r, r + 1, n, "on")
  /\ d = 2 * n + 1 => Receiving(n - 3, n - 1, n, "on")
  /\ d = 2 * n + 2 => Receiving(n - 3, n - 1, n, "off")
  /\ d = 2 * n + 3 => Receiving(n - 2, n - 1, n, "off")
  /\ d = 2 * n + 4 => Receiving(n - 2, n, n, "off")
  /\ d = 2 * n + 5 => ReadStopped(n - 2, n, n, "off")
  /\ d \in {2 * n + 6, 2 * n + 7} => ReadStopped(n - 1, n, n, "off")
  /\ d = 2 * n + 8 => ReadStopped(n, n, n, "off")
  /\ d = 2 * n + 9 => ReadStopped(n, n, n, "on")
\* What is left of a sequence when k of it is done.
Left(s, k) == [i \in 1 .. Len(s) - k |-> s[i + k]]
\* A modify in progress read CTL0 as it still is.
Whole == rmw # <<>> => rmw = <<ctl>> /\ ~ctl.start
TransferAt(d) ==
  /\ todo = Left(Inner(Head(ops)), d)
  /\ Head(ops).kind = "write" => WriteAt(d, Head(ops).n)
  /\ Head(ops).kind = "read" /\ Head(ops).n = 1 => Read1At(d)
  /\ Head(ops).kind = "read" /\ Head(ops).n = 2 => Read2At(d)
  /\ Head(ops).kind = "read" /\ Head(ops).n > 2 => Read3At(d, Head(ops).n)
RunInv ==
  /\ held = 0 /\ Whole
  /\ \E d \in 0 .. Len(Inner(Head(ops))) : TransferAt(d)
  /\ left = 0 => fault # {}
  /\ polls + left <= PollBudget + IdleBudget + 1

---------------------------------------------------------------------------
(* Between transfers, and recovery. *)

\* No START is requested, no address is out, and a STOP that is has no
\* acknowledged byte to fall on.
Settled ==
  /\ ~ctl.start
  /\ ph \in {"free", "sb"} \/ (ph = "tx" /\ tx.queued = 0) \/ (ph = "rx" /\ rx.nacked)
  /\ ctl.stop => ph \in {"tx", "rx"}
AtRest == Settled /\ ~ctl.poap
\* The bus is kept for the next operation of the list.
Kept ==
  /\ ops # <<>> /\ Ready("any") /\ ph = "tx"
  /\ left = 0 => fault # {}
  /\ polls + left <= PollBudget + IdleBudget + 1

\* k steps of recovery are done. From the bus-idle wait no START is requested.
RecoverAt(k) ==
  /\ todo = Left(RecoverInner, k)
  /\ res = "Ok" => ~ctl.start /\ (rmw # <<>> => ~rmw[1].start) /\ left > 0
  /\ k > 0 => ("AERR" \in err => "late" \in fault)
  /\ k < 2 => polls + left <= PollBudget + IdleBudget + 1 /\ (res = "Ok" => polls + left <= PollBudget + 1)
  /\ k \in {2, 3} => /\ budget > 0 /\ polls + budget <= PollBudget + 2 * IdleBudget + 1
                     /\ res = "Ok" => polls + left + budget <= PollBudget + IdleBudget + 1
  /\ k = 3 /\ ~ctl.stop => ph \in {"free", "sb"} /\ (res = "Ok" => ph = "free")
  /\ k = 4 /\ ~ctl.stop => ph \in {"free", "sb", "wedged"} /\ (res = "Ok" => ph \in {"free", "wedged"})
  /\ k = 5 /\ ~ctl.stop => ph \in {"free", "sb"} /\ (res = "Ok" => ph = "free")
  /\ k = 5 => held = 0
  /\ k >= 7 => Settled /\ ~ctl.stop /\ Whole /\ ph \in {"free", "sb"}
  /\ k >= 7 /\ res = "Ok" => ph = "free"
  /\ k >= 8 => ~ctl.poap
RecoverInv ==
  /\ \E k \in 0 .. 9 : RecoverAt(k)
  /\ res = "Ok" => polls + left <= PollBudget + IdleBudget + 1

\* A modify in progress is the next operation to be done.
ModifyInv == rmw # <<>> => mode \in {"run", "recover"} /\ todo # <<>> /\ Head(todo) \in DOMAIN Modifies

\* The block is only ever held by a bus this master does not drive, its sticky
\* flags are owed to faults, and a refusal not reported yet is still held.
I2cBlock ==
  /\ held > 0 => ph = "free"
  /\ err # {} => fault # {}
  /\ mode # "recover" /\ "AERR" \in err /\ "late" \notin fault => mode = "run" /\ ph = "hold"
  /\ PollsBounded

I2IInv ==
  /\ I2Types /\ I2cBlock /\ ModifyInv
  /\ mode \in {"idle", "gate", "recheck"} \/ (mode = "op" /\ fresh) => AtRest
  /\ mode = "op" /\ ~fresh => Kept
  /\ mode = "gate" => budget > 0 /\ polls + left = PollBudget /\ left + IdleBudget = budget + PollBudget
  /\ mode = "recheck" => ph = "free" /\ ~ctl.stop /\ left > 0 /\ polls + left <= PollBudget + IdleBudget + 1
  /\ mode \in {"gate", "run", "recover", "recheck"} => ops # <<>> /\ Head(ops) # [kind |-> "read", n |-> 0]
  /\ mode \in {"op", "gate", "run", "recheck"} => res = "Ok"
  /\ mode = "run" => RunInv
  /\ mode = "recover" => RecoverInv

---------------------------------------------------------------------------
\* The words a transfer and a recovery are spelt with.
I2Words == {"ackOn", "ackOff", "poapOn", "poapOff", "start", "stop", "SBSEND", "ADDSEND", "TBE", "RBNE", "BTC",
            "addressR", "addressW", "clear", "transmit", "receive",
            "clearErrors", "ifMaster", "spin", "busyNotMaster", "requestStuck", "reset"}

\* What is left of a sequence, its first word and the rest.
LEMMA I2Left ==
  ASSUME NEW S, NEW s \in Seq(S), NEW k \in 0 .. Len(s)
  PROVE  /\ Left(s, k) \in Seq(S) /\ (Left(s, k) = <<>> <=> k = Len(s))
         /\ k < Len(s) => Left(s, k) # <<>> /\ Head(Left(s, k)) = s[k + 1] /\ Tail(Left(s, k)) = Left(s, k + 1)
<1>1. Len(s) \in Nat /\ \A i \in 1 .. Len(s) : s[i] \in S
  OBVIOUS
<1>2. ASSUME NEW j \in 0 .. Len(s)
      PROVE  /\ Left(s, j) \in Seq(S) /\ Len(Left(s, j)) = Len(s) - j
             /\ \A i \in 1 .. Len(s) - j : Left(s, j)[i] = s[i + j]
  <2>1. \A i \in 1 .. Len(s) - j : i + j \in 1 .. Len(s)
    BY <1>1
  <2>2. Left(s, j) \in [1 .. Len(s) - j -> S] /\ Len(s) - j \in Nat
    BY <1>1, <2>1 DEF Left
  <2> QED BY <2>2 DEF Left
<1>3. Left(s, k) \in Seq(S) /\ Len(Left(s, k)) = Len(s) - k
  BY <1>2
<1>4. k < Len(s) => Left(s, k) # <<>> /\ Head(Left(s, k)) = s[k + 1]
  <2>1. SUFFICES ASSUME k < Len(s) PROVE Left(s, k) # <<>> /\ Head(Left(s, k)) = s[k + 1]
    OBVIOUS
  <2>2. Len(Left(s, k)) > 0 /\ 1 \in 1 .. Len(s) - k
    BY <1>1, <1>3, <2>1
  <2>3. Left(s, k)[1] = s[1 + k]
    BY <1>2, <2>2
  <2> QED BY <1>3, <2>2, <2>3
<1>5. ASSUME k < Len(s) PROVE Tail(Left(s, k)) = Left(s, k + 1)
  <2> DEFINE a == Tail(Left(s, k))
             b == Left(s, k + 1)
  <2>1. a \in Seq(S) /\ Len(a) = Len(s) - k - 1 /\ \A i \in 1 .. Len(a) : a[i] = Left(s, k)[i + 1]
    BY <1>3, <1>4, <1>5, HeadTailProperties
  <2>2. k + 1 \in 0 .. Len(s)
    BY <1>1, <1>5
  <2>3. b \in Seq(S) /\ Len(b) = Len(s) - (k + 1) /\ \A i \in 1 .. Len(s) - (k + 1) : b[i] = s[i + (k + 1)]
    BY <1>2, <2>2
  <2>4. Len(a) = Len(b)
    BY <1>1, <2>1, <2>3
  <2>5. ASSUME NEW i \in 1 .. Len(a) PROVE a[i] = b[i]
    <3>1. i + 1 \in 1 .. Len(s) - k /\ i \in 1 .. Len(s) - (k + 1) /\ i + 1 + k = i + (k + 1)
      BY <1>1, <2>1
    <3> QED BY <1>2, <2>1, <2>3, <3>1
  <2> HIDE DEF a, b
  <2>6. a = b
    BY <2>1, <2>3, <2>4, <2>5, SeqEqual
  <2> QED BY <2>6 DEF a, b
<1> QED BY <1>1, <1>3, <1>4, <1>5

\* With nothing done, all of the sequence is left.
LEMMA I2LeftAll ==
  ASSUME NEW S, NEW s \in Seq(S)
  PROVE  Left(s, 0) = s
  BY DEF Left

\* Two sequences, one after the other.
LEMMA I2Concat ==
  \A x, y \in Seq(I2Words) :
    /\ x \o y \in Seq(I2Words) /\ Len(x \o y) = Len(x) + Len(y)
    /\ \A i \in 1 .. Len(x) : (x \o y)[i] = x[i]
    /\ \A i \in 1 .. Len(y) : (x \o y)[Len(x) + i] = y[i]
<1>1. SUFFICES ASSUME NEW x \in Seq(I2Words), NEW y \in Seq(I2Words)
               PROVE  /\ x \o y \in Seq(I2Words) /\ Len(x \o y) = Len(x) + Len(y)
                      /\ \A i \in 1 .. Len(x) : (x \o y)[i] = x[i]
                      /\ \A i \in 1 .. Len(y) : (x \o y)[Len(x) + i] = y[i]
  OBVIOUS
<1> QED OBVIOUS

\* A sequence of two words repeated.
LEMMA I2Repeat ==
  ASSUME NEW x \in Seq(I2Words), Len(x) = 2, NEW k \in Nat
  PROVE  /\ Repeat(x, k) \in Seq(I2Words) /\ Len(Repeat(x, k)) = 2 * k
         /\ \A t \in 0 .. k - 1 : Repeat(x, k)[1 + 2 * t] = x[1] /\ Repeat(x, k)[2 + 2 * t] = x[2]
<1> DEFINE f(i) == x[1 + ((i - 1) % 2)]
<1>1. Repeat(x, k) = [i \in 1 .. 2 * k |-> f(i)]
  <2>1. k * 2 = 2 * k
    OBVIOUS
  <2> QED BY <2>1 DEF Repeat
<1>2. \A i \in 1 .. 2 * k : f(i) \in I2Words
  <2>1. \A i \in 1 .. 2 * k : (i - 1) % 2 = 0 \/ (i - 1) % 2 = 1
    OBVIOUS
  <2>2. x[1] \in I2Words /\ x[2] \in I2Words
    OBVIOUS
  <2> QED BY <2>1, <2>2
<1>3. \A t \in 0 .. k - 1 : /\ 1 + 2 * t \in 1 .. 2 * k /\ f(1 + 2 * t) = x[1]
                            /\ 2 + 2 * t \in 1 .. 2 * k /\ f(2 + 2 * t) = x[2]
  <2>1. \A t \in 0 .. k - 1 : (1 + 2 * t - 1) % 2 = 0 /\ (2 + 2 * t - 1) % 2 = 1
    OBVIOUS
  <2> QED BY <2>1
<1> HIDE DEF f
<1>4. \A t \in 0 .. k - 1 : Repeat(x, k)[1 + 2 * t] = x[1] /\ Repeat(x, k)[2 + 2 * t] = x[2]
  BY <1>1, <1>3
<1>5. Repeat(x, k) \in Seq(I2Words) /\ Len(Repeat(x, k)) = 2 * k
  BY <1>1, <1>2
<1> QED BY <1>4, <1>5

\* Numbers are even or odd.
LEMMA I2Halves ==
  ASSUME NEW d \in Nat
  PROVE  \E t \in Nat : d = 2 * t \/ d = 2 * t + 1
<1>1. d \div 2 \in Nat /\ (d = 2 * (d \div 2) \/ d = 2 * (d \div 2) + 1)
  OBVIOUS
<1> QED BY <1>1

\* The words of a write, and of reads of one, two and more bytes.
WriteBody(n, D) ==
  <<"ackOn", "start", "SBSEND", "addressW", "ADDSEND", "clear">>
    \o Repeat(<<"TBE", "transmit">>, n)
    \o (IF n > 0 THEN <<"BTC">> ELSE <<>>) \o D
SpeltWrite(s, n, D) ==
  /\ s \in Seq(I2Words) /\ Len(s) = Sent(n) + Len(D)
  /\ s[1] = "ackOn" /\ s[2] = "start" /\ s[3] = "SBSEND" /\ s[4] = "addressW" /\ s[5] = "ADDSEND"
  /\ s[6] = "clear"
  /\ \A t \in 0 .. n - 1 : s[7 + 2 * t] = "TBE" /\ s[8 + 2 * t] = "transmit"
  /\ n > 0 => s[7 + 2 * n] = "BTC"
  /\ Len(D) > 0 => s[Sent(n) + 1] = D[1]

\* The operations of a write, place by place.
LEMMA I2WriteWords ==
  ASSUME NEW n \in Nat, NEW D \in Seq(I2Words)
  PROVE  SpeltWrite(WriteBody(n, D), n, D)
<1> DEFINE A == <<"ackOn", "start", "SBSEND", "addressW", "ADDSEND", "clear">>
           B == Repeat(<<"TBE", "transmit">>, n)
           C == IF n > 0 THEN <<"BTC">> ELSE <<>>
<1>1. WriteBody(n, D) = ((A \o B) \o C) \o D
  BY DEF WriteBody
<1>2. A \in Seq(I2Words) /\ Len(A) = 6 /\ A[1] = "ackOn" /\ A[2] = "start" /\ A[3] = "SBSEND" /\ A[4] = "addressW"
      /\ A[5] = "ADDSEND" /\ A[6] = "clear"
  BY DEF I2Words
<1>3. /\ B \in Seq(I2Words) /\ Len(B) = 2 * n
      /\ \A t \in 0 .. n - 1 : B[1 + 2 * t] = "TBE" /\ B[2 + 2 * t] = "transmit"
  <2> DEFINE x == <<"TBE", "transmit">>
  <2>1. x \in Seq(I2Words) /\ Len(x) = 2 /\ x[1] = "TBE" /\ x[2] = "transmit"
    BY DEF I2Words
  <2>2. B = Repeat(x, n) /\ n \in Nat /\ n - 1 = n - 1
    OBVIOUS
  <2> HIDE DEF x, B
  <2>3. /\ Repeat(x, n) \in Seq(I2Words) /\ Len(Repeat(x, n)) = 2 * n
        /\ \A t \in 0 .. n - 1 : Repeat(x, n)[1 + 2 * t] = x[1] /\ Repeat(x, n)[2 + 2 * t] = x[2]
    BY <2>1, <2>2, I2Repeat
  <2> QED BY <2>1, <2>2, <2>3
<1>4. C \in Seq(I2Words) /\ Len(C) = (IF n > 0 THEN 1 ELSE 0) /\ (n > 0 => C[1] = "BTC")
  <2>1. <<"BTC">> \in Seq(I2Words) /\ <<>> \in Seq(I2Words)
    BY DEF I2Words
  <2>2. CASE n > 0
    <3>1. C = <<"BTC">>
      BY <2>2
    <3> QED BY <2>1, <2>2, <3>1
  <2>3. CASE n = 0
    <3>1. C = <<>>
      BY <2>3
    <3> QED BY <2>1, <2>3, <3>1
  <2> QED BY <2>2, <2>3
<1>5. D \in Seq(I2Words) /\ Len(D) \in Nat
  OBVIOUS
<1> HIDE DEF A, B, C
<1> DEFINE AB == A \o B
           ABC == AB \o C
           w == ABC \o D
<1>6. /\ AB \in Seq(I2Words) /\ Len(AB) = 6 + 2 * n
      /\ \A i \in 1 .. 6 : AB[i] = A[i]
      /\ \A i \in 1 .. 2 * n : AB[6 + i] = B[i]
  <2>1. /\ AB \in Seq(I2Words) /\ Len(AB) = Len(A) + Len(B)
        /\ \A i \in 1 .. Len(A) : AB[i] = A[i]
        /\ \A i \in 1 .. Len(B) : AB[Len(A) + i] = B[i]
    <3>1. A \in Seq(I2Words) /\ B \in Seq(I2Words)
      BY <1>2, <1>3
    <3> QED BY <3>1, I2Concat, Zenon
  <2> HIDE DEF AB
  <2> QED BY <1>2, <1>3, <2>1
<1> HIDE DEF AB
<1>7. /\ ABC \in Seq(I2Words) /\ Len(ABC) = Sent(n)
      /\ \A i \in 1 .. 6 + 2 * n : ABC[i] = AB[i]
      /\ n > 0 => ABC[7 + 2 * n] = C[1]
  <2>0. /\ ABC \in Seq(I2Words) /\ Len(ABC) = Len(AB) + Len(C)
        /\ \A i \in 1 .. Len(AB) : ABC[i] = AB[i]
        /\ \A i \in 1 .. Len(C) : ABC[Len(AB) + i] = C[i]
    <3>1. AB \in Seq(I2Words) /\ C \in Seq(I2Words)
      BY <1>4, <1>6
    <3> QED BY <3>1, I2Concat, Zenon
  <2> HIDE DEF ABC
  <2>1. /\ ABC \in Seq(I2Words) /\ Len(ABC) = 6 + 2 * n + (IF n > 0 THEN 1 ELSE 0)
        /\ \A i \in 1 .. 6 + 2 * n : ABC[i] = AB[i]
        /\ \A i \in 1 .. Len(C) : ABC[6 + 2 * n + i] = C[i]
    BY <1>4, <1>6, <2>0
  <2>2. n > 0 => 6 + 2 * n + 1 = 7 + 2 * n /\ 1 \in 1 .. Len(C)
    BY <1>4
  <2>3. n > 0 => ABC[7 + 2 * n] = C[1]
    BY <2>1, <2>2
  <2> QED BY <2>1, <2>2, <2>3 DEF Sent
<1> HIDE DEF ABC
<1>8. /\ w \in Seq(I2Words) /\ Len(w) = Sent(n) + Len(D)
      /\ \A i \in 1 .. Sent(n) : w[i] = ABC[i]
      /\ Len(D) > 0 => w[Sent(n) + 1] = D[1]
  <2>1. /\ w \in Seq(I2Words) /\ Len(w) = Len(ABC) + Len(D)
        /\ \A i \in 1 .. Len(ABC) : w[i] = ABC[i]
        /\ \A i \in 1 .. Len(D) : w[Len(ABC) + i] = D[i]
    <3>1. ABC \in Seq(I2Words) /\ D \in Seq(I2Words)
      BY <1>5, <1>7
    <3> QED BY <3>1, I2Concat, Zenon
  <2>2. Len(D) > 0 => 1 \in 1 .. Len(D)
    BY <1>5
  <2> HIDE DEF w
  <2> QED BY <1>5, <1>7, <2>1, <2>2
<1> HIDE DEF w
<1>9. \A i \in 1 .. 6 + 2 * n : w[i] = AB[i]
  <2>1. \A i \in 1 .. 6 + 2 * n : i \in 1 .. Sent(n)
    BY DEF Sent
  <2> QED BY <1>7, <1>8, <2>1
<1>10. \A t \in 0 .. n - 1 : w[7 + 2 * t] = "TBE" /\ w[8 + 2 * t] = "transmit"
  <2>1. SUFFICES ASSUME NEW t \in 0 .. n - 1 PROVE w[7 + 2 * t] = "TBE" /\ w[8 + 2 * t] = "transmit"
    OBVIOUS
  <2>2. 1 + 2 * t \in 1 .. 2 * n /\ 2 + 2 * t \in 1 .. 2 * n
    OBVIOUS
  <2>3. AB[6 + (1 + 2 * t)] = "TBE" /\ AB[6 + (2 + 2 * t)] = "transmit"
    BY <1>3, <1>6, <2>2
  <2>4. 6 + (1 + 2 * t) = 7 + 2 * t /\ 6 + (2 + 2 * t) = 8 + 2 * t /\ 7 + 2 * t \in 1 .. 6 + 2 * n
        /\ 8 + 2 * t \in 1 .. 6 + 2 * n
    OBVIOUS
  <2> QED BY <1>9, <2>3, <2>4
<1>11. n > 0 => w[7 + 2 * n] = "BTC"
  BY <1>4, <1>7, <1>8 DEF Sent
<1>12. \A i \in 1 .. 6 : w[i] = A[i]
  BY <1>6, <1>9
<1>13. WriteBody(n, D) = w
  BY <1>1 DEF w, ABC, AB
<1>14. SpeltWrite(w, n, D)
  BY <1>2, <1>8, <1>10, <1>11, <1>12 DEF SpeltWrite
<1> QED BY <1>13, <1>14

\* The operations of a read of one byte, place by place.
LEMMA I2Read1Words ==
  ASSUME NEW s, s = ReadInner(1)
  PROVE
  /\ s \in Seq(I2Words) /\ Len(s) = 11
  /\ s[1] = "ackOn" /\ s[2] = "start" /\ s[3] = "SBSEND" /\ s[4] = "addressR" /\ s[5] = "ackOff"
  /\ s[6] = "ADDSEND" /\ s[7] = "clear" /\ s[8] = "stop" /\ s[9] = "RBNE" /\ s[10] = "receive" /\ s[11] = "ackOn"
<1>1. ReadInner(1) = <<"ackOn", "start", "SBSEND", "addressR", "ackOff", "ADDSEND", "clear",
                       "stop", "RBNE", "receive", "ackOn">>
  BY DEF ReadInner
<1> DEFINE w == <<"ackOn", "start", "SBSEND", "addressR", "ackOff", "ADDSEND", "clear", "stop", "RBNE", "receive", "ackOn">>
<1>2. \A i \in 1 .. 11 : w[i] \in I2Words
  BY DEF I2Words
<1>3. w \in Seq(I2Words) /\ Len(w) = 11
  BY <1>2
<1>4. w[1] = "ackOn" /\ w[2] = "start" /\ w[3] = "SBSEND" /\ w[4] = "addressR" /\ w[5] = "ackOff" /\ w[6]
      = "ADDSEND" /\ w[7] = "clear" /\ w[8] = "stop" /\ w[9] = "RBNE" /\ w[10] = "receive" /\ w[11] =
      "ackOn"
  OBVIOUS
<1>5. ReadInner(1) = w
  BY <1>1
<1> HIDE DEF w
<1> QED BY <1>3, <1>4, <1>5

\* The operations of a read of two bytes, place by place.
LEMMA I2Read2Words ==
  ASSUME NEW s, s = ReadInner(2)
  PROVE
  /\ s \in Seq(I2Words) /\ Len(s) = 15
  /\ s[1] = "ackOn" /\ s[2] = "poapOn" /\ s[3] = "start" /\ s[4] = "SBSEND" /\ s[5] = "addressR" /\ s[6] = "ackOff"
  /\ s[7] = "ADDSEND" /\ s[8] = "clear" /\ s[9] = "BTC" /\ s[10] = "stop" /\ s[11] = "receive" /\ s[12] = "RBNE"
  /\ s[13] = "receive" /\ s[14] = "poapOff" /\ s[15] = "ackOn"
<1>1. ReadInner(2) = <<"ackOn", "poapOn", "start", "SBSEND", "addressR", "ackOff", "ADDSEND",
                       "clear", "BTC", "stop", "receive", "RBNE", "receive", "poapOff", "ackOn">>
  BY DEF ReadInner
<1> DEFINE w == <<"ackOn", "poapOn", "start", "SBSEND", "addressR", "ackOff", "ADDSEND", "clear", "BTC", "stop", "receive", "RBNE", "receive", "poapOff", "ackOn">>
<1>2. \A i \in 1 .. 15 : w[i] \in I2Words
  BY DEF I2Words
<1>3. w \in Seq(I2Words) /\ Len(w) = 15
  BY <1>2
<1>4. w[1] = "ackOn" /\ w[2] = "poapOn" /\ w[3] = "start" /\ w[4] = "SBSEND" /\ w[5] = "addressR" /\ w[6]
      = "ackOff" /\ w[7] = "ADDSEND" /\ w[8] = "clear" /\ w[9] = "BTC" /\ w[10] = "stop" /\ w[11] =
      "receive" /\ w[12] = "RBNE" /\ w[13] = "receive" /\ w[14] = "poapOff" /\ w[15] = "ackOn"
  OBVIOUS
<1>5. ReadInner(2) = w
  BY <1>1
<1> HIDE DEF w
<1> QED BY <1>3, <1>4, <1>5

SpeltRead(s, n) ==
  /\ s \in Seq(I2Words) /\ Len(s) = 2 * n + 9
  /\ s[1] = "ackOn" /\ s[2] = "start" /\ s[3] = "SBSEND" /\ s[4] = "addressR" /\ s[5] = "ADDSEND"
  /\ s[6] = "clear"
  /\ \A t \in 0 .. n - 4 : s[7 + 2 * t] = "RBNE" /\ s[8 + 2 * t] = "receive"
  /\ s[2 * n + 1] = "BTC" /\ s[2 * n + 2] = "ackOff" /\ s[2 * n + 3] = "receive" /\ s[2 * n + 4] = "BTC"
  /\ s[2 * n + 5] = "stop" /\ s[2 * n + 6] = "receive" /\ s[2 * n + 7] = "RBNE" /\ s[2 * n + 8] = "receive"
  /\ s[2 * n + 9] = "ackOn"

\* The operations of a read of three bytes or more, place by place.
LEMMA I2Read3Words ==
  ASSUME NEW n \in Nat, n > 2
  PROVE  SpeltRead(ReadInner(n), n)
<1> DEFINE A == <<"ackOn", "start", "SBSEND", "addressR", "ADDSEND", "clear">>
           B == Repeat(<<"RBNE", "receive">>, n - 3)
           C == <<"BTC", "ackOff", "receive", "BTC", "stop", "receive", "RBNE", "receive", "ackOn">>
<1>1. ReadInner(n) = (A \o B) \o C
  <2> n # 1 /\ n # 2
    OBVIOUS
  <2> QED BY ZenonT(60) DEF ReadInner
<1>2. A \in Seq(I2Words) /\ Len(A) = 6 /\ A[1] = "ackOn" /\ A[2] = "start" /\ A[3] = "SBSEND" /\ A[4] = "addressR"
      /\ A[5] = "ADDSEND" /\ A[6] = "clear"
  BY DEF I2Words
<1>3. /\ B \in Seq(I2Words) /\ Len(B) = 2 * (n - 3)
      /\ \A t \in 0 .. n - 4 : B[1 + 2 * t] = "RBNE" /\ B[2 + 2 * t] = "receive"
  <2> DEFINE x == <<"RBNE", "receive">>
  <2>1. x \in Seq(I2Words) /\ Len(x) = 2 /\ x[1] = "RBNE" /\ x[2] = "receive"
    BY DEF I2Words
  <2>2. B = Repeat(x, n - 3) /\ n - 3 \in Nat /\ n - 3 - 1 = n - 4
    OBVIOUS
  <2> HIDE DEF x, B
  <2>3. /\ Repeat(x, n - 3) \in Seq(I2Words) /\ Len(Repeat(x, n - 3)) = 2 * (n - 3)
        /\ \A t \in 0 .. n - 3 - 1 : Repeat(x, n - 3)[1 + 2 * t] = x[1] /\ Repeat(x, n - 3)[2 + 2 * t] = x[2]
    BY <2>1, <2>2, I2Repeat
  <2> QED BY <2>1, <2>2, <2>3
<1>4. C \in Seq(I2Words) /\ Len(C) = 9 /\ C[1] = "BTC" /\ C[2] = "ackOff" /\ C[3] = "receive" /\ C[4] = "BTC"
      /\ C[5] = "stop" /\ C[6] = "receive" /\ C[7] = "RBNE" /\ C[8] = "receive" /\ C[9] = "ackOn"
  BY DEF I2Words
<1> HIDE DEF A, B, C
<1> DEFINE AB == A \o B
           w == AB \o C
<1>5. /\ AB \in Seq(I2Words) /\ Len(AB) = 2 * n
      /\ \A i \in 1 .. 6 : AB[i] = A[i]
      /\ \A i \in 1 .. 2 * (n - 3) : AB[6 + i] = B[i]
  <2>1. /\ AB \in Seq(I2Words) /\ Len(AB) = Len(A) + Len(B)
        /\ \A i \in 1 .. Len(A) : AB[i] = A[i]
        /\ \A i \in 1 .. Len(B) : AB[Len(A) + i] = B[i]
    <3>1. A \in Seq(I2Words) /\ B \in Seq(I2Words)
      BY <1>2, <1>3
    <3> QED BY <3>1, I2Concat, Zenon
  <2> HIDE DEF AB
  <2> QED BY <1>2, <1>3, <2>1
<1> HIDE DEF AB
<1>6. /\ w \in Seq(I2Words) /\ Len(w) = 2 * n + 9
      /\ \A i \in 1 .. 2 * n : w[i] = AB[i]
      /\ \A i \in 1 .. 9 : w[2 * n + i] = C[i]
  <2>1. /\ w \in Seq(I2Words) /\ Len(w) = Len(AB) + Len(C)
        /\ \A i \in 1 .. Len(AB) : w[i] = AB[i]
        /\ \A i \in 1 .. Len(C) : w[Len(AB) + i] = C[i]
    <3>1. AB \in Seq(I2Words) /\ C \in Seq(I2Words)
      BY <1>4, <1>5
    <3> QED BY <3>1, I2Concat, Zenon
  <2> HIDE DEF w
  <2> QED BY <1>4, <1>5, <2>1
<1> HIDE DEF w
<1>7. \A t \in 0 .. n - 4 : w[7 + 2 * t] = "RBNE" /\ w[8 + 2 * t] = "receive"
  <2>1. SUFFICES ASSUME NEW t \in 0 .. n - 4 PROVE w[7 + 2 * t] = "RBNE" /\ w[8 + 2 * t] = "receive"
    OBVIOUS
  <2>2. 1 + 2 * t \in 1 .. 2 * (n - 3) /\ 2 + 2 * t \in 1 .. 2 * (n - 3)
    OBVIOUS
  <2>3. AB[6 + (1 + 2 * t)] = "RBNE" /\ AB[6 + (2 + 2 * t)] = "receive"
    BY <1>3, <1>5, <2>2
  <2>4. 6 + (1 + 2 * t) = 7 + 2 * t /\ 6 + (2 + 2 * t) = 8 + 2 * t /\ 7 + 2 * t \in 1 .. 2 * n
        /\ 8 + 2 * t \in 1 .. 2 * n
    OBVIOUS
  <2> QED BY <1>6, <2>3, <2>4
<1>8. \A i \in 1 .. 6 : w[i] = A[i]
  <2>1. \A i \in 1 .. 6 : i \in 1 .. 2 * n
    OBVIOUS
  <2> QED BY <1>5, <1>6, <2>1
<1>9. ReadInner(n) = w
  BY <1>1 DEF w, AB
<1>10. \A i \in 1 .. 9 : w[2 * n + i] = C[i]
  BY <1>6
<1>11. SpeltRead(w, n)
  BY <1>2, <1>4, <1>6, <1>7, <1>8, <1>10 DEF SpeltRead
<1> QED BY <1>9, <1>11

\* The operations of a recovery, place by place.
LEMMA I2RecoverWords ==
  LET s == RecoverInner IN
  /\ s \in Seq(I2Words) /\ Len(s) = 9
  /\ s[1] = "clearErrors" /\ s[2] = "ifMaster" /\ s[3] = "stop" /\ s[4] = "spin" /\ s[5] = "busyNotMaster"
  /\ s[6] = "requestStuck" /\ s[7] = "reset" /\ s[8] = "poapOff" /\ s[9] = "ackOn"
  BY DEF RecoverInner, I2Words
---------------------------------------------------------------------------
\* What is left of a transfer after one more operation, if the call is otherwise
\* as it was.
After(d) == todo' = Tail(todo) /\ ops' = ops => TransferAt(d + 1)'

\* Each register operation of a transfer finds one of its phases, and leads on to
\* the next one if it leaves the state that phase asks for.
ModifyRow(d) ==
  \/ Head(todo) = "ackOn" /\ Ready("any") /\ (Ready("on")' /\ rcv' = rcv => After(d))
  \/ \E n \in Nat : /\ Head(todo) = "ackOn" /\ n > 0 /\ ReadStopped(n, n, n, "off")
                    /\ ReadStopped(n, n, n, "on")' => After(d)
  \/ Head(todo) = "poapOn" /\ Ready("on") /\ (Ready("ahead")' /\ rcv' = rcv => After(d))
  \/ Head(todo) = "poapOff" /\ ReadStopped(2, 2, 2, "second") /\ (ReadStopped(2, 2, 2, "off")' => After(d))
  \/ Head(todo) = "ackOff" /\ Addressed("r", "on") /\ (Addressed("r", "off")' /\ rcv' = rcv => After(d))
  \/ Head(todo) = "ackOff" /\ Addressed("r", "ahead") /\ (Addressed("r", "second")' /\ rcv' = rcv => After(d))
  \/ \E r, lo, n \in Nat : /\ Head(todo) = "ackOff" /\ lo + 1 = n /\ Receiving(r, lo, n, "on")
                           /\ Receiving(r, lo, n, "off")' => After(d)
  \/ \E m \in {"on", "ahead"} : Head(todo) = "start" /\ Ready(m) /\ (Started(m)' /\ rcv' = rcv => After(d))
  \/ \E t \in Nat : Head(todo) = "stop" /\ AllAcked(t) /\ (WriteStopped(t)' => After(d))
  \/ \E r, lo, n \in Nat, m \in {"off", "second"} :
       /\ Head(todo) = "stop" /\ Receiving(r, lo, n, m) /\ (lo = n \/ (n = 1 /\ m = "off"))
       /\ ReadStopped(r, lo, n, m)' => After(d)
AddressRow(d) ==
  \E m \in {"on", "ahead"} :
    \/ Head(todo) = "addressW" /\ StartSeen(m) /\ (Addressed("w", m)' /\ rcv' = rcv => After(d))
    \/ Head(todo) = "addressR" /\ StartSeen(m) /\ (Addressed("r", m)' /\ rcv' = rcv => After(d))
ClearRow(d) ==
  \/ Head(todo) = "clear" /\ Answered("w", "on") /\ (Sending(0)' /\ AllAcked(0)' => After(d))
  \/ \E n \in Nat, m \in {"on", "off", "second"} :
       /\ Head(todo) = "clear" /\ n > 0 /\ Answered("r", m) /\ Stored(0) /\ Suits(0, 0, n, m)
       /\ Receiving(0, 0, n, m)' => After(d)
DataRow(d) ==
  \/ \E t, u \in Nat : Head(todo) = "transmit" /\ u = t + 1 /\ Sending(t) /\ (Sending(u)' => After(d))
  \/ \E r, q, lo, n \in Nat, m \in {"on", "off"} :
       /\ Head(todo) = "receive" /\ q = r + 1 /\ lo >= q /\ Receiving(r, lo, n, m) /\ Suits(q, lo, n, m)
       /\ Receiving(q, lo, n, m)' => After(d)
  \/ \E r, q, lo, n \in Nat, m \in {"off", "second"} :
       /\ Head(todo) = "receive" /\ q = r + 1 /\ lo >= q /\ ReadStopped(r, lo, n, m)
       /\ ReadStopped(q, lo, n, m)' => After(d)
WaitRow(d) ==
  \/ \E m \in {"on", "ahead"} : Head(todo) = "SBSEND" /\ Started(m) /\ (StartSeen(m)' /\ rcv' = rcv => After(d))
  \/ \E a \in {"r", "w"}, m \in {"on", "off", "second"} :
       Head(todo) = "ADDSEND" /\ Addressed(a, m) /\ (Answered(a, m)' /\ rcv' = rcv => After(d))
  \/ \E t \in Nat : Head(todo) = "TBE" /\ Sending(t) /\ (Sending(t)' => After(d))
  \/ \E t \in Nat : Head(todo) = "BTC" /\ t > 0 /\ Sending(t) /\ (AllAcked(t)' => After(d))
  \/ \E r, lo, hi, n \in Nat, m \in {"on", "off", "second"} :
       /\ Head(todo) = "BTC" /\ hi = r + 2 /\ hi <= n /\ Receiving(r, lo, n, m) /\ Suits(r, hi, n, m)
       /\ Receiving(r, hi, n, m)' => After(d)
  \/ \E r, hi, n \in Nat :
       /\ Head(todo) = "RBNE" /\ hi = r + 1 /\ hi + 2 < n /\ Receiving(r, r, n, "on")
       /\ Receiving(r, hi, n, "on")' => After(d)
  \/ \E r, lo, n \in Nat, m \in {"off", "second"} :
       /\ Head(todo) = "RBNE" /\ r + 1 = n /\ ReadStopped(r, lo, n, m)
       /\ ReadStopped(r, n, n, m)' => After(d)
Row(d) == ModifyRow(d) \/ AddressRow(d) \/ ClearRow(d) \/ DataRow(d) \/ WaitRow(d)

\* The operation ahead, and what is left after it.
LEMMA I2Ahead ==
  ASSUME NEW s \in Seq(I2Words), NEW d \in Nat, todo = Left(s, d), d <= Len(s), s = Inner(Head(ops))
  PROVE  /\ d = Len(s) <=> todo = <<>>
         /\ d < Len(s) => /\ Head(todo) = s[d + 1]
                          /\ todo' = Tail(todo) /\ ops' = ops => (todo = Left(Inner(Head(ops)), d + 1))'
<1>1. d \in 0 .. Len(s)
  OBVIOUS
<1>2. /\ d = Len(s) <=> todo = <<>>
      /\ d < Len(s) => Head(todo) = s[d + 1] /\ Tail(todo) = Left(s, d + 1)
  BY <1>1, I2Left
<1>3. ASSUME d < Len(s), todo' = Tail(todo), ops' = ops PROVE (todo = Left(Inner(Head(ops)), d + 1))'
  <2>1. Inner(Head(ops))' = s
    BY <1>3 DEF Inner
  <2> QED BY <1>2, <1>3, <2>1
<1> QED BY <1>2, <1>3

\* Which phase makes each place of a write.
LEMMA I2WriteNext ==
  ASSUME NEW n \in Nat, NEW e \in Nat
  PROVE  /\ e = 1 /\ Ready("on")' => WriteAt(e, n)'
         /\ e = 2 /\ Started("on")' => WriteAt(e, n)'
         /\ e = 3 /\ StartSeen("on")' => WriteAt(e, n)'
         /\ e = 4 /\ Addressed("w", "on")' => WriteAt(e, n)'
         /\ e = 5 /\ Answered("w", "on")' => WriteAt(e, n)'
         /\ e = 6 /\ Sending(0)' /\ AllAcked(0)' => WriteAt(e, n)'
         /\ \A t \in 0 .. n - 1 : e = 7 + 2 * t /\ Sending(t)' => WriteAt(e, n)'
         /\ \A t \in 0 .. n : n > 0 /\ e = 6 + 2 * t /\ Sending(t)' => WriteAt(e, n)'
         /\ n > 0 /\ e = Sent(n) /\ AllAcked(n)' => WriteAt(e, n)'
         /\ e = Sent(n) + 1 /\ WriteStopped(n)' => WriteAt(e, n)'
<1>1. ASSUME e < 6 PROVE /\ e # Sent(n) /\ e # Sent(n) + 1
                         /\ \A t \in 0 .. n : e # 6 + 2 * t
                         /\ \A t \in 0 .. n - 1 : e # 7 + 2 * t
  BY <1>1 DEF Sent
<1>2. /\ e = 1 /\ Ready("on")' => WriteAt(e, n)'
      /\ e = 2 /\ Started("on")' => WriteAt(e, n)'
      /\ e = 3 /\ StartSeen("on")' => WriteAt(e, n)'
      /\ e = 4 /\ Addressed("w", "on")' => WriteAt(e, n)'
      /\ e = 5 /\ Answered("w", "on")' => WriteAt(e, n)'
  BY <1>1 DEF WriteAt
<1>3. e = 6 /\ Sending(0)' /\ AllAcked(0)' => WriteAt(e, n)'
  <2>1. SUFFICES ASSUME e = 6, Sending(0)', AllAcked(0)' PROVE WriteAt(e, n)'
    OBVIOUS
  <2>2. /\ e = Sent(n) => n = 0
        /\ e # Sent(n) + 1
        /\ \A t \in 0 .. n : e = 6 + 2 * t => t = 0
        /\ \A t \in 0 .. n - 1 : e # 7 + 2 * t
    BY <2>1 DEF Sent
  <2> QED BY <2>1, <2>2 DEF WriteAt
<1>4. ASSUME NEW t \in 0 .. n - 1, e = 7 + 2 * t, Sending(t)' PROVE WriteAt(e, n)'
  <2>1. /\ e > 6 /\ e # Sent(n) /\ e # Sent(n) + 1
        /\ \A u \in 0 .. n : e # 6 + 2 * u
        /\ \A u \in 0 .. n - 1 : e = 7 + 2 * u => u = t
    BY <1>4 DEF Sent
  <2> QED BY <1>4, <2>1 DEF WriteAt
<1>5. ASSUME NEW t \in 0 .. n, n > 0, e = 6 + 2 * t, Sending(t)' PROVE WriteAt(e, n)'
  <2>1. /\ e > 5 /\ e # Sent(n) /\ e # Sent(n) + 1
        /\ \A u \in 0 .. n - 1 : e # 7 + 2 * u
        /\ \A u \in 0 .. n : e = 6 + 2 * u => u = t
    BY <1>5 DEF Sent
  <2> QED BY <1>5, <2>1 DEF WriteAt
<1>6. n > 0 /\ e = Sent(n) /\ AllAcked(n)' => WriteAt(e, n)'
  <2>1. SUFFICES ASSUME n > 0, e = Sent(n), AllAcked(n)' PROVE WriteAt(e, n)'
    OBVIOUS
  <2>2. /\ e > 6 /\ e # Sent(n) + 1
        /\ \A u \in 0 .. n - 1 : e # 7 + 2 * u
        /\ \A u \in 0 .. n : e # 6 + 2 * u
    BY <2>1 DEF Sent
  <2> QED BY <2>1, <2>2 DEF WriteAt
<1>7. e = Sent(n) + 1 /\ WriteStopped(n)' => WriteAt(e, n)'
  <2>1. SUFFICES ASSUME e = Sent(n) + 1, WriteStopped(n)' PROVE WriteAt(e, n)'
    OBVIOUS
  <2>2. /\ e > 6 /\ e # Sent(n)
        /\ \A u \in 0 .. n - 1 : e # 7 + 2 * u
        /\ \A u \in 0 .. n : n > 0 => e # 6 + 2 * u
    BY <2>1 DEF Sent
  <2> QED BY <2>1, <2>2 DEF WriteAt
<1> QED BY <1>2, <1>3, <1>4, <1>5, <1>6, <1>7

\* At each place of a write its operation finds a phase it may find.
LEMMA I2WriteRow ==
  ASSUME NEW d \in Nat, ops \in Seq(Operation), ops # <<>>, Head(ops).kind = "write",
         d < Len(Inner(Head(ops))), TransferAt(d)
  PROVE  Row(d)
<1> DEFINE e == d + 1
<1>0. Head(ops) \in Operation /\ Head(ops).n \in Nat
  <2>1. Head(ops) \in Operation
    OBVIOUS
  <2> QED BY <2>1 DEF Operation
<1>1. PICK n \in Nat : n = Head(ops).n
  BY <1>0
<1>a. PICK D \in Seq(I2Words) : D = IF Len(ops) = 1 THEN <<"stop">> ELSE <<>>
  <2>1. <<"stop">> \in Seq(I2Words) /\ <<>> \in Seq(I2Words)
    BY DEF I2Words
  <2>2. CASE Len(ops) = 1
    BY <2>1, <2>2
  <2>3. CASE Len(ops) # 1
    BY <2>1, <2>3
  <2> QED BY <2>2, <2>3
<1>b. PICK s : s = WriteBody(n, D)
  OBVIOUS
<1>c. Len(D) \in {0, 1} /\ (Len(D) = 1 => D[1] = "stop")
  BY <1>a
<1>2. Inner(Head(ops)) = s /\ todo = Left(s, d) /\ WriteAt(d, n)
  BY <1>1, <1>a, <1>b DEF TransferAt, Inner, WriteInner, WriteBody
<1>3. /\ s \in Seq(I2Words) /\ Len(s) = Sent(n) + Len(D)
      /\ s[1] = "ackOn" /\ s[2] = "start" /\ s[3] = "SBSEND" /\ s[4] = "addressW" /\ s[5] = "ADDSEND"
      /\ s[6] = "clear"
      /\ \A t \in 0 .. n - 1 : s[7 + 2 * t] = "TBE" /\ s[8 + 2 * t] = "transmit"
      /\ n > 0 => s[7 + 2 * n] = "BTC"
      /\ Len(D) > 0 => s[Sent(n) + 1] = D[1]
  <2>1. SpeltWrite(s, n, D)
    BY <1>b, I2WriteWords
  <2> QED BY ONLY <2>1 DEF SpeltWrite
<1>4. /\ Head(todo) = s[e]
      /\ todo' = Tail(todo) /\ ops' = ops => (todo = Left(Inner(Head(ops)), e))'
  BY <1>2, <1>3, I2Ahead
<1>5. WriteAt(e, n)' /\ todo' = Tail(todo) /\ ops' = ops => TransferAt(e)'
  <2>1. SUFFICES ASSUME WriteAt(e, n)', todo' = Tail(todo), ops' = ops PROVE TransferAt(e)'
    OBVIOUS
  <2>2. (todo = Left(Inner(Head(ops)), e))'
    BY <1>4, <2>1
  <2>3. Head(ops)' = Head(ops) /\ Head(ops).kind = "write" /\ Head(ops).n = n
    BY <1>1, <2>1
  <2> QED BY <2>1, <2>2, <2>3 DEF TransferAt
<1>6. WriteAt(e, n)' => After(d)
  BY <1>5 DEF After
<1>7. e \in Nat
  OBVIOUS
<1>8. CASE d \in {0, 1, 2, 3, 4}
  <2>1. CASE d = 0
    <3>1. Head(todo) = "ackOn" /\ Ready("any")
      BY <1>2, <1>3, <1>4, <2>1 DEF WriteAt
    <3>2. Ready("on")' => After(d)
      BY <1>1, <1>6, <1>7, <2>1, I2WriteNext
    <3> QED BY <3>1, <3>2 DEF Row, ModifyRow
  <2>2. CASE d = 1
    <3>1. Head(todo) = "start" /\ Ready("on")
      BY <1>2, <1>3, <1>4, <2>2 DEF WriteAt
    <3>2. Started("on")' => After(d)
      BY <1>1, <1>6, <1>7, <2>2, I2WriteNext
    <3> QED BY <3>1, <3>2 DEF Row, ModifyRow
  <2>3. CASE d = 2
    <3>1. Head(todo) = "SBSEND" /\ Started("on")
      BY <1>2, <1>3, <1>4, <2>3 DEF WriteAt
    <3>2. StartSeen("on")' => After(d)
      BY <1>1, <1>6, <1>7, <2>3, I2WriteNext
    <3> QED BY <3>1, <3>2 DEF Row, WaitRow
  <2>4. CASE d = 3
    <3>1. Head(todo) = "addressW" /\ StartSeen("on")
      BY <1>2, <1>3, <1>4, <2>4 DEF WriteAt
    <3>2. Addressed("w", "on")' => After(d)
      BY <1>1, <1>6, <1>7, <2>4, I2WriteNext
    <3> QED BY <3>1, <3>2 DEF Row, AddressRow
  <2>5. CASE d = 4
    <3>1. Head(todo) = "ADDSEND" /\ Addressed("w", "on")
      BY <1>2, <1>3, <1>4, <2>5 DEF WriteAt
    <3>2. Answered("w", "on")' => After(d)
      BY <1>1, <1>6, <1>7, <2>5, I2WriteNext
    <3> QED BY <3>1, <3>2 DEF Row, WaitRow
  <2> QED BY <1>8, <2>1, <2>2, <2>3, <2>4, <2>5
<1>9. CASE d = 5
  <2>1. Head(todo) = "clear" /\ Answered("w", "on")
    BY <1>2, <1>3, <1>4, <1>9 DEF WriteAt
  <2>2. Sending(0)' /\ AllAcked(0)' => After(d)
    BY <1>1, <1>6, <1>7, <1>9, I2WriteNext
  <2> QED BY <2>1, <2>2 DEF Row, ClearRow
<1>10. ASSUME NEW t \in 0 .. n - 1, d = 6 + 2 * t PROVE Row(d)
  <2>1. Head(todo) = "TBE" /\ Sending(t) /\ t \in Nat
    <3>1. e = 7 + 2 * t /\ n > 0 /\ t \in 0 .. n
      BY <1>1, <1>10
    <3> QED BY <1>2, <1>3, <1>4, <1>10, <3>1 DEF WriteAt
  <2>2. Sending(t)' => After(d)
    <3>1. e = 7 + 2 * t
      BY <1>1, <1>10
    <3> QED BY <1>1, <1>6, <1>7, <3>1, I2WriteNext
  <2> QED BY <2>1, <2>2 DEF Row, WaitRow
<1>11. ASSUME NEW t \in 0 .. n - 1, d = 7 + 2 * t PROVE Row(d)
  <2>1. Head(todo) = "transmit" /\ Sending(t) /\ t \in Nat
    <3>1. e = 8 + 2 * t
      BY <1>1, <1>11
    <3> QED BY <1>2, <1>3, <1>4, <1>11, <3>1 DEF WriteAt
  <2>2. Sending(t + 1)' => After(d)
    <3>1. e = 6 + 2 * (t + 1) /\ t + 1 \in 0 .. n /\ n > 0
      BY <1>1, <1>11
    <3> QED BY <1>1, <1>6, <1>7, <3>1, I2WriteNext
  <2> QED BY <2>1, <2>2 DEF Row, DataRow
<1>12. CASE n > 0 /\ d = 6 + 2 * n
  <2>1. Head(todo) = "BTC" /\ Sending(n)
    <3>1. e = 7 + 2 * n /\ n \in 0 .. n
      BY <1>1, <1>12
    <3> QED BY <1>2, <1>3, <1>4, <1>12, <3>1 DEF WriteAt
  <2>2. AllAcked(n)' => After(d)
    <3>1. e = Sent(n)
      BY <1>1, <1>12 DEF Sent
    <3> QED BY <1>1, <1>6, <1>7, <1>12, <3>1, I2WriteNext
  <2> QED BY <1>1, <1>12, <2>1, <2>2 DEF Row, WaitRow
<1>13. CASE d = Sent(n)
  <2>1. Head(todo) = "stop" /\ AllAcked(n)
    <3>1. e = Sent(n) + 1
      BY <1>13
    <3>2. Len(D) > 0 /\ D[1] = "stop"
      BY <1>1, <1>c, <1>2, <1>3, <1>13 DEF Sent
    <3> QED BY <1>2, <1>3, <1>4, <1>13, <3>1, <3>2 DEF WriteAt
  <2>2. WriteStopped(n)' => After(d)
    BY <1>1, <1>6, <1>7, <1>13, I2WriteNext
  <2> QED BY <1>1, <2>1, <2>2 DEF Row, ModifyRow
<1>14. \/ d \in {0, 1, 2, 3, 4, 5}
       \/ \E t \in 0 .. n - 1 : d = 6 + 2 * t \/ d = 7 + 2 * t
       \/ (n > 0 /\ d = 6 + 2 * n)
       \/ d = Sent(n)
  <2>1. d < Sent(n) + 1
    <3>1. Sent(n) \in Nat
      BY DEF Sent
    <3>2. Len(s) = Sent(n) + Len(D)
      BY <1>3
    <3>3. Len(D) = 0 \/ Len(D) = 1
      BY <1>c
    <3>4. s \in Seq(I2Words) /\ Len(s) <= Sent(n) + 1
      <4>1. s \in Seq(I2Words)
        BY <1>3
      <4>2. CASE Len(D) = 0
        BY ONLY <4>1, <4>2, <3>1, <3>2
      <4>3. CASE Len(D) = 1
        BY ONLY <4>1, <4>3, <3>1, <3>2
      <4> QED BY <3>3, <4>2, <4>3
    <3>5. Len(Inner(Head(ops))) = Len(s)
      BY <1>2
    <3> QED BY <3>1, <3>4, <3>5
  <2>2. CASE d < 6
    BY <2>2
  <2>3. CASE d >= 6
    <3>1. d - 6 \in Nat
      BY <2>3
    <3>2. PICK t \in Nat : d - 6 = 2 * t \/ d - 6 = 2 * t + 1
      BY <3>1, I2Halves
    <3>3. d = 6 + 2 * t \/ d = 7 + 2 * t
      BY <3>1, <3>2
    <3>4. CASE t < n
      <4>1. t \in 0 .. n - 1
        BY <1>1, <3>2, <3>4
      <4> QED BY <3>3, <4>1
    <3>5. CASE t >= n
      <4>1. CASE n = 0
        BY <2>1, <2>3, <4>1 DEF Sent
      <4>2. CASE n > 0
        <5>1. d < 8 + 2 * n /\ Sent(n) = 7 + 2 * n
          BY <2>1, <4>2 DEF Sent
        <5>2. t = n
          BY <3>2, <3>3, <3>5, <5>1
        <5> QED BY <3>3, <4>2, <5>1, <5>2
      <4> QED BY <1>1, <4>1, <4>2
    <3> QED BY <1>1, <3>4, <3>5
  <2> QED BY <2>2, <2>3
<1> QED BY <1>8, <1>9, <1>10, <1>11, <1>12, <1>13, <1>14

\* Which phase makes each place of a read of one byte.
LEMMA I2Read1Next ==
  ASSUME NEW e \in Nat
  PROVE
  /\ e = 1 /\ Ready("on")' /\ Stored(0)' => Read1At(e)'
  /\ e = 2 /\ Started("on")' /\ Stored(0)' => Read1At(e)'
  /\ e = 3 /\ StartSeen("on")' /\ Stored(0)' => Read1At(e)'
  /\ e = 4 /\ Addressed("r", "on")' /\ Stored(0)' => Read1At(e)'
  /\ e = 5 /\ Addressed("r", "off")' /\ Stored(0)' => Read1At(e)'
  /\ e = 6 /\ Answered("r", "off")' /\ Stored(0)' => Read1At(e)'
  /\ e = 7 /\ Receiving(0, 0, 1, "off")' => Read1At(e)'
  /\ e = 8 /\ ReadStopped(0, 0, 1, "off")' => Read1At(e)'
  /\ e = 9 /\ ReadStopped(0, 1, 1, "off")' => Read1At(e)'
  /\ e = 10 /\ ReadStopped(1, 1, 1, "off")' => Read1At(e)'
  /\ e = 11 /\ ReadStopped(1, 1, 1, "on")' => Read1At(e)'
BY DEF Read1At

\* The same for a read of one byte: each operation finds a phase it may find.
LEMMA I2Read1Row ==
  ASSUME NEW d \in Nat, ops \in Seq(Operation), ops # <<>>, Head(ops).kind = "read",
         Head(ops).n = 1, d < Len(Inner(Head(ops))), TransferAt(d)
  PROVE  Row(d)
<1> DEFINE e == d + 1
<1>1. PICK s : s = ReadInner(1)
  OBVIOUS
<1>2. Inner(Head(ops)) = s /\ todo = Left(s, d) /\ Read1At(d)
  BY <1>1 DEF TransferAt, Inner
<1>3. s \in Seq(I2Words) /\ Len(s) = 11
  BY <1>1, I2Read1Words
<1>a. d < 11
  <2>1. d < Len(s)
    BY <1>2
  <2> QED BY <1>3, <2>1
<1>4. s[1] = "ackOn" /\ s[2] = "start" /\ s[3] = "SBSEND" /\ s[4] = "addressR" /\ s[5] = "ackOff" /\ s[6] = "ADDSEND" /\ s[7] = "clear" /\ s[8] = "stop" /\ s[9] = "RBNE" /\ s[10] = "receive" /\ s[11] = "ackOn"
  BY <1>1, I2Read1Words
<1>5. /\ Head(todo) = s[e]
      /\ todo' = Tail(todo) /\ ops' = ops => (todo = Left(Inner(Head(ops)), e))'
  <2>1. d <= Len(s) /\ d < Len(s)
    BY <1>3, <1>a
  <2> QED BY <1>2, <1>3, <2>1, I2Ahead
<1>6. Read1At(e)' /\ todo' = Tail(todo) /\ ops' = ops => TransferAt(e)'
  <2>1. SUFFICES ASSUME Read1At(e)', todo' = Tail(todo), ops' = ops PROVE TransferAt(e)'
    OBVIOUS
  <2>2. (todo = Left(Inner(Head(ops)), e))'
    BY <1>5, <2>1
  <2>3. Head(ops)' = Head(ops) /\ Head(ops).kind = "read" /\ Head(ops).n = 1
    BY <2>1
  <2> QED BY <2>1, <2>2, <2>3 DEF TransferAt
<1>7. Read1At(e)' => After(d)
  BY <1>6 DEF After
<1>8. e \in Nat
  OBVIOUS
<1>9. CASE d = 0
  <2>1. Head(todo) = "ackOn" /\ Ready("any") /\ Stored(0)
    BY <1>2, <1>4, <1>5, <1>9 DEF Read1At
  <2>2. rcv' = rcv => Stored(0)'
    BY <2>1 DEF Stored
  <2>3. Ready("on")' /\ rcv' = rcv => After(d)
    BY <1>7, <1>8, <1>9, <2>2, I2Read1Next
  <2> QED BY <2>1, <2>3 DEF Row, ModifyRow
<1>10. CASE d = 1
  <2>1. Head(todo) = "start" /\ Ready("on") /\ Stored(0)
    BY <1>2, <1>4, <1>5, <1>10 DEF Read1At
  <2>2. rcv' = rcv => Stored(0)'
    BY <2>1 DEF Stored
  <2>3. Started("on")' /\ rcv' = rcv => After(d)
    BY <1>7, <1>8, <1>10, <2>2, I2Read1Next
  <2> QED BY <2>1, <2>3 DEF Row, ModifyRow
<1>11. CASE d = 2
  <2>1. Head(todo) = "SBSEND" /\ Started("on") /\ Stored(0)
    BY <1>2, <1>4, <1>5, <1>11 DEF Read1At
  <2>2. rcv' = rcv => Stored(0)'
    BY <2>1 DEF Stored
  <2>3. StartSeen("on")' /\ rcv' = rcv => After(d)
    BY <1>7, <1>8, <1>11, <2>2, I2Read1Next
  <2> QED BY <2>1, <2>3 DEF Row, WaitRow
<1>12. CASE d = 3
  <2>1. Head(todo) = "addressR" /\ StartSeen("on") /\ Stored(0)
    BY <1>2, <1>4, <1>5, <1>12 DEF Read1At
  <2>2. rcv' = rcv => Stored(0)'
    BY <2>1 DEF Stored
  <2>3. Addressed("r", "on")' /\ rcv' = rcv => After(d)
    BY <1>7, <1>8, <1>12, <2>2, I2Read1Next
  <2> QED BY <2>1, <2>3 DEF Row, AddressRow
<1>13. CASE d = 4
  <2>1. Head(todo) = "ackOff" /\ Addressed("r", "on") /\ Stored(0)
    BY <1>2, <1>4, <1>5, <1>13 DEF Read1At
  <2>2. rcv' = rcv => Stored(0)'
    BY <2>1 DEF Stored
  <2>3. Addressed("r", "off")' /\ rcv' = rcv => After(d)
    BY <1>7, <1>8, <1>13, <2>2, I2Read1Next
  <2> QED BY <2>1, <2>3 DEF Row, ModifyRow
<1>14. CASE d = 5
  <2>1. Head(todo) = "ADDSEND" /\ Addressed("r", "off") /\ Stored(0)
    BY <1>2, <1>4, <1>5, <1>14 DEF Read1At
  <2>2. rcv' = rcv => Stored(0)'
    BY <2>1 DEF Stored
  <2>3. Answered("r", "off")' /\ rcv' = rcv => After(d)
    BY <1>7, <1>8, <1>14, <2>2, I2Read1Next
  <2> QED BY <2>1, <2>3 DEF Row, WaitRow
<1>15. CASE d = 6
  <2>1. Head(todo) = "clear" /\ Answered("r", "off") /\ Stored(0)
    BY <1>2, <1>4, <1>5, <1>15 DEF Read1At
  <2>3. Receiving(0, 0, 1, "off")' => After(d)
    BY <1>7, <1>8, <1>15, I2Read1Next
  <2>4. Suits(0, 0, 1, "off")
    BY DEF Suits
  <2> QED BY <2>1, <2>3, <2>4 DEF Row, ClearRow
<1>16. CASE d = 7
  <2>1. Head(todo) = "stop" /\ Receiving(0, 0, 1, "off")
    BY <1>2, <1>4, <1>5, <1>16 DEF Read1At
  <2>3. ReadStopped(0, 0, 1, "off")' => After(d)
    BY <1>7, <1>8, <1>16, I2Read1Next
  <2> QED BY <2>1, <2>3 DEF Row, ModifyRow
<1>17. CASE d = 8
  <2>1. Head(todo) = "RBNE" /\ ReadStopped(0, 0, 1, "off")
    BY <1>2, <1>4, <1>5, <1>17 DEF Read1At
  <2>3. ReadStopped(0, 1, 1, "off")' => After(d)
    BY <1>7, <1>8, <1>17, I2Read1Next
  <2> QED BY <2>1, <2>3 DEF Row, WaitRow
<1>18. CASE d = 9
  <2>1. Head(todo) = "receive" /\ ReadStopped(0, 1, 1, "off")
    BY <1>2, <1>4, <1>5, <1>18 DEF Read1At
  <2>3. ReadStopped(1, 1, 1, "off")' => After(d)
    BY <1>7, <1>8, <1>18, I2Read1Next
  <2> QED BY <2>1, <2>3 DEF Row, DataRow
<1>19. CASE d = 10
  <2>1. Head(todo) = "ackOn" /\ ReadStopped(1, 1, 1, "off")
    BY <1>2, <1>4, <1>5, <1>19 DEF Read1At
  <2>3. ReadStopped(1, 1, 1, "on")' => After(d)
    BY <1>7, <1>8, <1>19, I2Read1Next
  <2> QED BY <2>1, <2>3 DEF Row, ModifyRow
<1>20. d \in {0, 1, 2, 3, 4, 5, 6, 7, 8, 9, 10}
  BY <1>a
<1> QED BY <1>9, <1>10, <1>11, <1>12, <1>13, <1>14, <1>15, <1>16, <1>17, <1>18, <1>19, <1>20

\* Which phase makes each place of a read of two bytes.
LEMMA I2Read2Next ==
  ASSUME NEW e \in Nat
  PROVE
  /\ e = 1 /\ Ready("on")' /\ Stored(0)' => Read2At(e)'
  /\ e = 2 /\ Ready("ahead")' /\ Stored(0)' => Read2At(e)'
  /\ e = 3 /\ Started("ahead")' /\ Stored(0)' => Read2At(e)'
  /\ e = 4 /\ StartSeen("ahead")' /\ Stored(0)' => Read2At(e)'
  /\ e = 5 /\ Addressed("r", "ahead")' /\ Stored(0)' => Read2At(e)'
  /\ e = 6 /\ Addressed("r", "second")' /\ Stored(0)' => Read2At(e)'
  /\ e = 7 /\ Answered("r", "second")' /\ Stored(0)' => Read2At(e)'
  /\ e = 8 /\ Receiving(0, 0, 2, "second")' => Read2At(e)'
  /\ e = 9 /\ Receiving(0, 2, 2, "second")' => Read2At(e)'
  /\ e = 10 /\ ReadStopped(0, 2, 2, "second")' => Read2At(e)'
  /\ e = 11 /\ ReadStopped(1, 2, 2, "second")' => Read2At(e)'
  /\ e = 12 /\ ReadStopped(1, 2, 2, "second")' => Read2At(e)'
  /\ e = 13 /\ ReadStopped(2, 2, 2, "second")' => Read2At(e)'
  /\ e = 14 /\ ReadStopped(2, 2, 2, "off")' => Read2At(e)'
  /\ e = 15 /\ ReadStopped(2, 2, 2, "on")' => Read2At(e)'
BY DEF Read2At

\* The same for a read of two bytes.
LEMMA I2Read2Row ==
  ASSUME NEW d \in Nat, ops \in Seq(Operation), ops # <<>>, Head(ops).kind = "read",
         Head(ops).n = 2, d < Len(Inner(Head(ops))), TransferAt(d)
  PROVE  Row(d)
<1> DEFINE e == d + 1
<1>1. PICK s : s = ReadInner(2)
  OBVIOUS
<1>2. Inner(Head(ops)) = s /\ todo = Left(s, d) /\ Read2At(d)
  BY <1>1 DEF TransferAt, Inner
<1>3. s \in Seq(I2Words) /\ Len(s) = 15
  BY <1>1, I2Read2Words
<1>a. d < 15
  <2>1. d < Len(s)
    BY <1>2
  <2> QED BY <1>3, <2>1
<1>4. s[1] = "ackOn" /\ s[2] = "poapOn" /\ s[3] = "start" /\ s[4] = "SBSEND" /\ s[5] = "addressR" /\ s[6] = "ackOff" /\ s[7] = "ADDSEND" /\ s[8] = "clear" /\ s[9] = "BTC" /\ s[10] = "stop" /\ s[11] = "receive" /\ s[12] = "RBNE" /\ s[13] = "receive" /\ s[14] = "poapOff" /\ s[15] = "ackOn"
  BY <1>1, I2Read2Words
<1>5. /\ Head(todo) = s[e]
      /\ todo' = Tail(todo) /\ ops' = ops => (todo = Left(Inner(Head(ops)), e))'
  <2>1. d <= Len(s) /\ d < Len(s)
    BY <1>3, <1>a
  <2> QED BY <1>2, <1>3, <2>1, I2Ahead
<1>6. Read2At(e)' /\ todo' = Tail(todo) /\ ops' = ops => TransferAt(e)'
  <2>1. SUFFICES ASSUME Read2At(e)', todo' = Tail(todo), ops' = ops PROVE TransferAt(e)'
    OBVIOUS
  <2>2. (todo = Left(Inner(Head(ops)), e))'
    BY <1>5, <2>1
  <2>3. Head(ops)' = Head(ops) /\ Head(ops).kind = "read" /\ Head(ops).n = 2
    BY <2>1
  <2> QED BY <2>1, <2>2, <2>3 DEF TransferAt
<1>7. Read2At(e)' => After(d)
  BY <1>6 DEF After
<1>8. e \in Nat
  OBVIOUS
<1>9. CASE d = 0
  <2>1. Head(todo) = "ackOn" /\ Ready("any") /\ Stored(0)
    BY <1>2, <1>4, <1>5, <1>9 DEF Read2At
  <2>2. rcv' = rcv => Stored(0)'
    BY <2>1 DEF Stored
  <2>3. Ready("on")' /\ rcv' = rcv => After(d)
    BY <1>7, <1>8, <1>9, <2>2, I2Read2Next
  <2> QED BY <2>1, <2>3 DEF Row, ModifyRow
<1>10. CASE d = 1
  <2>1. Head(todo) = "poapOn" /\ Ready("on") /\ Stored(0)
    BY <1>2, <1>4, <1>5, <1>10 DEF Read2At
  <2>2. rcv' = rcv => Stored(0)'
    BY <2>1 DEF Stored
  <2>3. Ready("ahead")' /\ rcv' = rcv => After(d)
    BY <1>7, <1>8, <1>10, <2>2, I2Read2Next
  <2> QED BY <2>1, <2>3 DEF Row, ModifyRow
<1>11. CASE d = 2
  <2>1. Head(todo) = "start" /\ Ready("ahead") /\ Stored(0)
    BY <1>2, <1>4, <1>5, <1>11 DEF Read2At
  <2>2. rcv' = rcv => Stored(0)'
    BY <2>1 DEF Stored
  <2>3. Started("ahead")' /\ rcv' = rcv => After(d)
    BY <1>7, <1>8, <1>11, <2>2, I2Read2Next
  <2> QED BY <2>1, <2>3 DEF Row, ModifyRow
<1>12. CASE d = 3
  <2>1. Head(todo) = "SBSEND" /\ Started("ahead") /\ Stored(0)
    BY <1>2, <1>4, <1>5, <1>12 DEF Read2At
  <2>2. rcv' = rcv => Stored(0)'
    BY <2>1 DEF Stored
  <2>3. StartSeen("ahead")' /\ rcv' = rcv => After(d)
    BY <1>7, <1>8, <1>12, <2>2, I2Read2Next
  <2> QED BY <2>1, <2>3 DEF Row, WaitRow
<1>13. CASE d = 4
  <2>1. Head(todo) = "addressR" /\ StartSeen("ahead") /\ Stored(0)
    BY <1>2, <1>4, <1>5, <1>13 DEF Read2At
  <2>2. rcv' = rcv => Stored(0)'
    BY <2>1 DEF Stored
  <2>3. Addressed("r", "ahead")' /\ rcv' = rcv => After(d)
    BY <1>7, <1>8, <1>13, <2>2, I2Read2Next
  <2> QED BY <2>1, <2>3 DEF Row, AddressRow
<1>14. CASE d = 5
  <2>1. Head(todo) = "ackOff" /\ Addressed("r", "ahead") /\ Stored(0)
    BY <1>2, <1>4, <1>5, <1>14 DEF Read2At
  <2>2. rcv' = rcv => Stored(0)'
    BY <2>1 DEF Stored
  <2>3. Addressed("r", "second")' /\ rcv' = rcv => After(d)
    BY <1>7, <1>8, <1>14, <2>2, I2Read2Next
  <2> QED BY <2>1, <2>3 DEF Row, ModifyRow
<1>15. CASE d = 6
  <2>1. Head(todo) = "ADDSEND" /\ Addressed("r", "second") /\ Stored(0)
    BY <1>2, <1>4, <1>5, <1>15 DEF Read2At
  <2>2. rcv' = rcv => Stored(0)'
    BY <2>1 DEF Stored
  <2>3. Answered("r", "second")' /\ rcv' = rcv => After(d)
    BY <1>7, <1>8, <1>15, <2>2, I2Read2Next
  <2> QED BY <2>1, <2>3 DEF Row, WaitRow
<1>16. CASE d = 7
  <2>1. Head(todo) = "clear" /\ Answered("r", "second") /\ Stored(0)
    BY <1>2, <1>4, <1>5, <1>16 DEF Read2At
  <2>3. Receiving(0, 0, 2, "second")' => After(d)
    BY <1>7, <1>8, <1>16, I2Read2Next
  <2>4. Suits(0, 0, 2, "second")
    BY DEF Suits
  <2> QED BY <2>1, <2>3, <2>4 DEF Row, ClearRow
<1>17. CASE d = 8
  <2>1. Head(todo) = "BTC" /\ Receiving(0, 0, 2, "second")
    BY <1>2, <1>4, <1>5, <1>17 DEF Read2At
  <2>3. Receiving(0, 2, 2, "second")' => After(d)
    BY <1>7, <1>8, <1>17, I2Read2Next
  <2>4. Suits(0, 2, 2, "second")
    BY DEF Suits
  <2> QED BY <2>1, <2>3, <2>4 DEF Row, WaitRow
<1>18. CASE d = 9
  <2>1. Head(todo) = "stop" /\ Receiving(0, 2, 2, "second")
    BY <1>2, <1>4, <1>5, <1>18 DEF Read2At
  <2>3. ReadStopped(0, 2, 2, "second")' => After(d)
    BY <1>7, <1>8, <1>18, I2Read2Next
  <2> QED BY <2>1, <2>3 DEF Row, ModifyRow
<1>19. CASE d = 10
  <2>1. Head(todo) = "receive" /\ ReadStopped(0, 2, 2, "second")
    BY <1>2, <1>4, <1>5, <1>19 DEF Read2At
  <2>3. ReadStopped(1, 2, 2, "second")' => After(d)
    BY <1>7, <1>8, <1>19, I2Read2Next
  <2> QED BY <2>1, <2>3 DEF Row, DataRow
<1>20. CASE d = 11
  <2>1. Head(todo) = "RBNE" /\ ReadStopped(1, 2, 2, "second")
    BY <1>2, <1>4, <1>5, <1>20 DEF Read2At
  <2>3. ReadStopped(1, 2, 2, "second")' => After(d)
    BY <1>7, <1>8, <1>20, I2Read2Next
  <2> QED BY <2>1, <2>3 DEF Row, WaitRow
<1>21. CASE d = 12
  <2>1. Head(todo) = "receive" /\ ReadStopped(1, 2, 2, "second")
    BY <1>2, <1>4, <1>5, <1>21 DEF Read2At
  <2>3. ReadStopped(2, 2, 2, "second")' => After(d)
    BY <1>7, <1>8, <1>21, I2Read2Next
  <2> QED BY <2>1, <2>3 DEF Row, DataRow
<1>22. CASE d = 13
  <2>1. Head(todo) = "poapOff" /\ ReadStopped(2, 2, 2, "second")
    BY <1>2, <1>4, <1>5, <1>22 DEF Read2At
  <2>3. ReadStopped(2, 2, 2, "off")' => After(d)
    BY <1>7, <1>8, <1>22, I2Read2Next
  <2> QED BY <2>1, <2>3 DEF Row, ModifyRow
<1>23. CASE d = 14
  <2>1. Head(todo) = "ackOn" /\ ReadStopped(2, 2, 2, "off")
    BY <1>2, <1>4, <1>5, <1>23 DEF Read2At
  <2>3. ReadStopped(2, 2, 2, "on")' => After(d)
    BY <1>7, <1>8, <1>23, I2Read2Next
  <2> QED BY <2>1, <2>3 DEF Row, ModifyRow
<1>24. d \in {0, 1, 2, 3, 4, 5, 6, 7, 8, 9, 10, 11, 12, 13, 14}
  BY <1>a
<1> QED BY <1>9, <1>10, <1>11, <1>12, <1>13, <1>14, <1>15, <1>16, <1>17, <1>18, <1>19, <1>20, <1>21, <1>22, <1>23, <1>24

\* Which phase makes each place of a longer read.
LEMMA I2Read3Next ==
  ASSUME NEW n \in Nat, n > 2, NEW e \in Nat
  PROVE  /\ e = 1 /\ Ready("on")' /\ Stored(0)' => Read3At(e, n)'
         /\ e = 2 /\ Started("on")' /\ Stored(0)' => Read3At(e, n)'
         /\ e = 3 /\ StartSeen("on")' /\ Stored(0)' => Read3At(e, n)'
         /\ e = 4 /\ Addressed("r", "on")' /\ Stored(0)' => Read3At(e, n)'
         /\ e = 5 /\ Answered("r", "on")' /\ Stored(0)' => Read3At(e, n)'
         /\ \A r \in 0 .. n - 3 : e = 6 + 2 * r /\ Receiving(r, r, n, "on")' => Read3At(e, n)'
         /\ \A r, q \in Nat : r + 4 <= n /\ q = r + 1 /\ e = 7 + 2 * r /\ Receiving(r, q, n, "on")' => Read3At(e, n)'
         /\ \A r, q \in Nat : r + 3 = n /\ q + 1 = n =>
              /\ e = 2 * n + 1 /\ Receiving(r, q, n, "on")' => Read3At(e, n)'
              /\ e = 2 * n + 2 /\ Receiving(r, q, n, "off")' => Read3At(e, n)'
         /\ \A r, q \in Nat : r + 2 = n /\ q + 1 = n =>
              /\ e = 2 * n + 3 /\ Receiving(r, q, n, "off")' => Read3At(e, n)'
              /\ e = 2 * n + 4 /\ Receiving(r, n, n, "off")' => Read3At(e, n)'
              /\ e = 2 * n + 5 /\ ReadStopped(r, n, n, "off")' => Read3At(e, n)'
              /\ e \in {2 * n + 6, 2 * n + 7} /\ ReadStopped(q, n, n, "off")' => Read3At(e, n)'
         /\ e = 2 * n + 8 /\ ReadStopped(n, n, n, "off")' => Read3At(e, n)'
         /\ e = 2 * n + 9 /\ ReadStopped(n, n, n, "on")' => Read3At(e, n)'
<1>1. ASSUME e < 6 PROVE /\ \A r \in 0 .. n - 3 : e # 6 + 2 * r
                         /\ \A r \in 0 .. n - 4 : e # 7 + 2 * r
                         /\ e < 2 * n
  BY <1>1
<1>2. /\ e = 1 /\ Ready("on")' /\ Stored(0)' => Read3At(e, n)'
      /\ e = 2 /\ Started("on")' /\ Stored(0)' => Read3At(e, n)'
      /\ e = 3 /\ StartSeen("on")' /\ Stored(0)' => Read3At(e, n)'
      /\ e = 4 /\ Addressed("r", "on")' /\ Stored(0)' => Read3At(e, n)'
      /\ e = 5 /\ Answered("r", "on")' /\ Stored(0)' => Read3At(e, n)'
  BY <1>1 DEF Read3At
<1>3. ASSUME NEW r \in 0 .. n - 3, e = 6 + 2 * r, Receiving(r, r, n, "on")' PROVE Read3At(e, n)'
  <2>1. /\ e > 5 /\ e <= 2 * n
        /\ \A u \in 0 .. n - 3 : e = 6 + 2 * u => u = r
        /\ \A u \in 0 .. n - 4 : e # 7 + 2 * u
    BY <1>3
  <2> QED BY <1>3, <2>1 DEF Read3At
<1>4. ASSUME NEW r \in Nat, NEW q \in Nat, r + 4 <= n, q = r + 1, e = 7 + 2 * r, Receiving(r, q, n, "on")'
      PROVE  Read3At(e, n)'
  <2>1. /\ e > 5 /\ e <= 2 * n
        /\ \A u \in 0 .. n - 4 : e = 7 + 2 * u => u = r
        /\ \A u \in 0 .. n - 3 : e # 6 + 2 * u
    BY <1>4
  <2> QED BY <1>4, <2>1 DEF Read3At
<1>5. ASSUME e > 2 * n PROVE /\ e > 6
                             /\ \A u \in 0 .. n - 3 : e # 6 + 2 * u
                             /\ \A u \in 0 .. n - 4 : e # 7 + 2 * u
  BY <1>5
<1>6. ASSUME NEW r \in Nat, NEW q \in Nat, r + 3 = n, q + 1 = n
      PROVE  /\ e = 2 * n + 1 /\ Receiving(r, q, n, "on")' => Read3At(e, n)'
             /\ e = 2 * n + 2 /\ Receiving(r, q, n, "off")' => Read3At(e, n)'
  <2>1. r = n - 3 /\ q = n - 1
    BY <1>6
  <2>2. SUFFICES ASSUME e > 2 * n
                 PROVE  /\ e = 2 * n + 1 /\ Receiving(n - 3, n - 1, n, "on")' => Read3At(e, n)'
                        /\ e = 2 * n + 2 /\ Receiving(n - 3, n - 1, n, "off")' => Read3At(e, n)'
    BY <2>1
  <2> QED BY <1>5, <2>2 DEF Read3At
<1>7. ASSUME NEW r \in Nat, NEW q \in Nat, r + 2 = n, q + 1 = n
      PROVE  /\ e = 2 * n + 3 /\ Receiving(r, q, n, "off")' => Read3At(e, n)'
             /\ e = 2 * n + 4 /\ Receiving(r, n, n, "off")' => Read3At(e, n)'
             /\ e = 2 * n + 5 /\ ReadStopped(r, n, n, "off")' => Read3At(e, n)'
             /\ e \in {2 * n + 6, 2 * n + 7} /\ ReadStopped(q, n, n, "off")' => Read3At(e, n)'
  <2>1. r = n - 2 /\ q = n - 1
    BY <1>7
  <2>2. SUFFICES ASSUME e > 2 * n
                 PROVE  /\ e = 2 * n + 3 /\ Receiving(n - 2, n - 1, n, "off")' => Read3At(e, n)'
                        /\ e = 2 * n + 4 /\ Receiving(n - 2, n, n, "off")' => Read3At(e, n)'
                        /\ e = 2 * n + 5 /\ ReadStopped(n - 2, n, n, "off")' => Read3At(e, n)'
                        /\ e \in {2 * n + 6, 2 * n + 7} /\ ReadStopped(n - 1, n, n, "off")' => Read3At(e, n)'
    BY <2>1
  <2> QED BY <1>5, <2>2 DEF Read3At
<1>8. /\ e = 2 * n + 8 /\ ReadStopped(n, n, n, "off")' => Read3At(e, n)'
      /\ e = 2 * n + 9 /\ ReadStopped(n, n, n, "on")' => Read3At(e, n)'
  <2>1. SUFFICES ASSUME e > 2 * n
                 PROVE  /\ e = 2 * n + 8 /\ ReadStopped(n, n, n, "off")' => Read3At(e, n)'
                        /\ e = 2 * n + 9 /\ ReadStopped(n, n, n, "on")' => Read3At(e, n)'
    OBVIOUS
  <2> QED BY <1>5, <2>1 DEF Read3At
<1> QED BY <1>2, <1>3, <1>4, <1>6, <1>7, <1>8

\* The same for a read of three bytes or more.
LEMMA I2Read3Row ==
  ASSUME NEW d \in Nat, ops \in Seq(Operation), ops # <<>>, Head(ops).kind = "read",
         Head(ops).n > 2, d < Len(Inner(Head(ops))), TransferAt(d)
  PROVE  Row(d)
<1> DEFINE e == d + 1
<1>0. Head(ops) \in Operation /\ Head(ops).n \in Nat
  <2>1. Head(ops) \in Operation
    OBVIOUS
  <2> QED BY <2>1 DEF Operation
<1>1. PICK n \in Nat : n = Head(ops).n
  BY <1>0
<1>b. n > 2
  BY <1>1
<1>c. PICK s : s = ReadInner(n)
  OBVIOUS
<1>2. Inner(Head(ops)) = s /\ todo = Left(s, d) /\ Read3At(d, n)
  BY <1>1, <1>c DEF TransferAt, Inner
<1>d. SpeltRead(s, n)
  BY <1>b, <1>c, I2Read3Words
<1>3. s \in Seq(I2Words) /\ Len(s) = 2 * n + 9
  BY ONLY <1>d DEF SpeltRead
<1>a. d < 2 * n + 9
  <2>1. d < Len(s)
    BY <1>2
  <2> QED BY <1>3, <2>1
<1>4. /\ s[1] = "ackOn" /\ s[2] = "start" /\ s[3] = "SBSEND" /\ s[4] = "addressR" /\ s[5] = "ADDSEND"
      /\ s[6] = "clear"
      /\ \A t \in 0 .. n - 4 : s[7 + 2 * t] = "RBNE" /\ s[8 + 2 * t] = "receive"
      /\ s[2 * n + 1] = "BTC" /\ s[2 * n + 2] = "ackOff" /\ s[2 * n + 3] = "receive" /\ s[2 * n + 4] = "BTC"
      /\ s[2 * n + 5] = "stop" /\ s[2 * n + 6] = "receive" /\ s[2 * n + 7] = "RBNE" /\ s[2 * n + 8] = "receive"
      /\ s[2 * n + 9] = "ackOn"
  BY ONLY <1>d DEF SpeltRead
<1>5. /\ Head(todo) = s[e]
      /\ todo' = Tail(todo) /\ ops' = ops => (todo = Left(Inner(Head(ops)), e))'
  <2>1. d <= Len(s) /\ d < Len(s)
    BY <1>3, <1>a
  <2> QED BY <1>2, <1>3, <2>1, I2Ahead
<1>6. Read3At(e, n)' /\ todo' = Tail(todo) /\ ops' = ops => TransferAt(e)'
  <2>1. SUFFICES ASSUME Read3At(e, n)', todo' = Tail(todo), ops' = ops PROVE TransferAt(e)'
    OBVIOUS
  <2>2. (todo = Left(Inner(Head(ops)), e))'
    BY <1>5, <2>1
  <2>3. Head(ops)' = Head(ops) /\ Head(ops).kind = "read" /\ Head(ops).n = n
    BY <1>1, <2>1
  <2> QED BY <1>b, <2>1, <2>2, <2>3 DEF TransferAt
<1>7. Read3At(e, n)' => After(d)
  BY <1>6 DEF After
<1>8. e \in Nat
  OBVIOUS
<1>9. CASE d = 0
  <2>1. Head(todo) = "ackOn" /\ Ready("any") /\ Stored(0)
    BY <1>2, <1>4, <1>5, <1>9 DEF Read3At
  <2>2. rcv' = rcv => Stored(0)'
    BY <2>1 DEF Stored
  <2>3. Ready("on")' /\ rcv' = rcv => After(d)
    BY <1>b, <1>7, <1>8, <1>9, <2>2, I2Read3Next
  <2> QED BY <2>1, <2>3 DEF Row, ModifyRow
<1>10. CASE d = 1
  <2>1. Head(todo) = "start" /\ Ready("on") /\ Stored(0)
    BY <1>2, <1>4, <1>5, <1>10 DEF Read3At
  <2>2. rcv' = rcv => Stored(0)'
    BY <2>1 DEF Stored
  <2>3. Started("on")' /\ rcv' = rcv => After(d)
    BY <1>b, <1>7, <1>8, <1>10, <2>2, I2Read3Next
  <2> QED BY <2>1, <2>3 DEF Row, ModifyRow
<1>11. CASE d = 2
  <2>1. Head(todo) = "SBSEND" /\ Started("on") /\ Stored(0)
    BY <1>2, <1>4, <1>5, <1>11 DEF Read3At
  <2>2. rcv' = rcv => Stored(0)'
    BY <2>1 DEF Stored
  <2>3. StartSeen("on")' /\ rcv' = rcv => After(d)
    BY <1>b, <1>7, <1>8, <1>11, <2>2, I2Read3Next
  <2> QED BY <2>1, <2>3 DEF Row, WaitRow
<1>12. CASE d = 3
  <2>1. Head(todo) = "addressR" /\ StartSeen("on") /\ Stored(0)
    BY <1>2, <1>4, <1>5, <1>12 DEF Read3At
  <2>2. rcv' = rcv => Stored(0)'
    BY <2>1 DEF Stored
  <2>3. Addressed("r", "on")' /\ rcv' = rcv => After(d)
    BY <1>b, <1>7, <1>8, <1>12, <2>2, I2Read3Next
  <2> QED BY <2>1, <2>3 DEF Row, AddressRow
<1>13. CASE d = 4
  <2>1. Head(todo) = "ADDSEND" /\ Addressed("r", "on") /\ Stored(0)
    BY <1>2, <1>4, <1>5, <1>13 DEF Read3At
  <2>2. rcv' = rcv => Stored(0)'
    BY <2>1 DEF Stored
  <2>3. Answered("r", "on")' /\ rcv' = rcv => After(d)
    BY <1>b, <1>7, <1>8, <1>13, <2>2, I2Read3Next
  <2> QED BY <2>1, <2>3 DEF Row, WaitRow
<1>14. CASE d = 5
  <2>1. Head(todo) = "clear" /\ Answered("r", "on") /\ Stored(0)
    BY <1>2, <1>4, <1>5, <1>14 DEF Read3At
  <2>2. 0 \in 0 .. n - 3 /\ e = 6 + 2 * 0
    BY <1>b, <1>14
  <2>3. Receiving(0, 0, n, "on")' => After(d)
    BY <1>b, <1>7, <1>8, <2>2, I2Read3Next
  <2>4. Suits(0, 0, n, "on")
    BY <1>b DEF Suits
  <2> QED BY <1>b, <2>1, <2>3, <2>4 DEF Row, ClearRow
<1>15. ASSUME NEW r \in Nat, r + 4 <= n, d = 6 + 2 * r PROVE Row(d)
  <2>1. r \in 0 .. n - 3 /\ r \in 0 .. n - 4 /\ e = 7 + 2 * r
    BY <1>15
  <2>2. Head(todo) = "RBNE" /\ Receiving(r, r, n, "on")
    BY <1>2, <1>4, <1>5, <1>15, <2>1 DEF Read3At
  <2>3. PICK hi \in Nat : hi = r + 1
    OBVIOUS
  <2>4. Receiving(r, hi, n, "on")' => After(d)
    BY <1>b, <1>7, <1>8, <1>15, <2>1, <2>3, I2Read3Next
  <2>5. hi + 2 < n
    BY <1>15, <2>3
  <2> QED BY <2>2, <2>3, <2>4, <2>5 DEF Row, WaitRow
<1>16. ASSUME NEW r \in Nat, r + 4 <= n, d = 7 + 2 * r PROVE Row(d)
  <2>1. r \in 0 .. n - 4 /\ e = 8 + 2 * r
    BY <1>16
  <2>2. PICK q \in Nat : q = r + 1
    OBVIOUS
  <2>3. Head(todo) = "receive" /\ Receiving(r, q, n, "on")
    BY <1>2, <1>4, <1>5, <1>16, <2>1, <2>2 DEF Read3At
  <2>4. q \in 0 .. n - 3 /\ e = 6 + 2 * q
    BY <1>16, <2>1, <2>2
  <2>5. Receiving(q, q, n, "on")' => After(d)
    BY <1>b, <1>7, <1>8, <2>4, I2Read3Next
  <2>6. Suits(q, q, n, "on")
    BY <1>16, <2>2 DEF Suits
  <2> QED BY <2>2, <2>3, <2>5, <2>6 DEF Row, DataRow
<1>17. PICK a \in Nat : a + 3 = n
  <2>1. n - 3 \in Nat /\ (n - 3) + 3 = n
    BY <1>b
  <2> QED BY <2>1
<1>18. PICK b \in Nat : b + 2 = n
  <2>1. n - 2 \in Nat /\ (n - 2) + 2 = n
    BY <1>b
  <2> QED BY <2>1
<1>19. PICK c \in Nat : c + 1 = n
  <2>1. n - 1 \in Nat /\ (n - 1) + 1 = n
    BY <1>b
  <2> QED BY <2>1
<1>20. a = n - 3 /\ b = n - 2 /\ c = n - 1 /\ c = a + 2 /\ b = a + 1
  BY <1>17, <1>18, <1>19
<1>21. CASE d = 2 * n
  <2>1. e = 2 * n + 1
    BY <1>21
  <2>a. a \in 0 .. n - 3 /\ d = 6 + 2 * a
    BY <1>17, <1>21
  <2>2. Head(todo) = "BTC" /\ Receiving(a, a, n, "on")
    BY <1>2, <1>4, <1>5, <2>a, <2>1 DEF Read3At
  <2>3. Receiving(a, c, n, "on")' => After(d)
    BY <1>b, <1>7, <1>8, <1>17, <1>18, <1>19, <2>1, I2Read3Next
  <2>4. Suits(a, c, n, "on")
    BY <1>b, <1>17, <1>18, <1>19 DEF Suits
  <2> QED BY <1>b, <1>17, <1>18, <1>19, <1>20, <2>2, <2>3, <2>4 DEF Row, WaitRow
<1>22. CASE d = 2 * n + 1
  <2>1. e = 2 * n + 2
    BY <1>22
  <2>2. Head(todo) = "ackOff"
    BY <1>4, <1>5, <2>1
  <2>b. Receiving(a, c, n, "on")
    BY <1>2, <1>20, <1>22 DEF Read3At
  <2>3. Receiving(a, c, n, "off")' => After(d)
    BY <1>b, <1>7, <1>8, <1>17, <1>18, <1>19, <2>1, I2Read3Next
  <2> QED BY <1>b, <1>17, <1>18, <1>19, <1>20, <2>2, <2>3, <2>b DEF Row, ModifyRow
<1>23. CASE d = 2 * n + 2
  <2>1. e = 2 * n + 3
    BY <1>23
  <2>2. Head(todo) = "receive"
    BY <1>4, <1>5, <2>1
  <2>b. Receiving(a, c, n, "off")
    BY <1>2, <1>20, <1>23 DEF Read3At
  <2>3. Receiving(b, c, n, "off")' => After(d)
    BY <1>b, <1>7, <1>8, <1>17, <1>18, <1>19, <2>1, I2Read3Next
  <2>4. Suits(b, c, n, "off")
    BY <1>b, <1>17, <1>18, <1>19 DEF Suits
  <2> QED BY <1>b, <1>17, <1>18, <1>19, <1>20, <2>2, <2>3, <2>b, <2>4 DEF Row, DataRow
<1>24. CASE d = 2 * n + 3
  <2>1. e = 2 * n + 4
    BY <1>24
  <2>2. Head(todo) = "BTC"
    BY <1>4, <1>5, <2>1
  <2>b. Receiving(b, c, n, "off")
    BY <1>2, <1>20, <1>24 DEF Read3At
  <2>3. Receiving(b, n, n, "off")' => After(d)
    BY <1>b, <1>7, <1>8, <1>17, <1>18, <1>19, <2>1, I2Read3Next
  <2>4. Suits(b, n, n, "off")
    BY <1>b, <1>17, <1>18, <1>19 DEF Suits
  <2> QED BY <1>b, <1>17, <1>18, <1>19, <1>20, <2>2, <2>3, <2>b, <2>4 DEF Row, WaitRow
<1>25. CASE d = 2 * n + 4
  <2>1. e = 2 * n + 5
    BY <1>25
  <2>2. Head(todo) = "stop"
    BY <1>4, <1>5, <2>1
  <2>b. Receiving(b, n, n, "off")
    BY <1>2, <1>20, <1>25 DEF Read3At
  <2>3. ReadStopped(b, n, n, "off")' => After(d)
    BY <1>b, <1>7, <1>8, <1>17, <1>18, <1>19, <2>1, I2Read3Next
  <2> QED BY <1>b, <1>17, <1>18, <1>19, <1>20, <2>2, <2>3, <2>b DEF Row, ModifyRow
<1>26. CASE d = 2 * n + 5
  <2>1. e = 2 * n + 6
    BY <1>26
  <2>2. Head(todo) = "receive"
    BY <1>4, <1>5, <2>1
  <2>b. ReadStopped(b, n, n, "off")
    BY <1>2, <1>20, <1>26 DEF Read3At
  <2>3. ReadStopped(c, n, n, "off")' => After(d)
    BY <1>b, <1>7, <1>8, <1>17, <1>18, <1>19, <2>1, I2Read3Next
  <2> QED BY <1>b, <1>17, <1>18, <1>19, <1>20, <2>2, <2>3, <2>b DEF Row, DataRow
<1>27. CASE d = 2 * n + 6
  <2>1. e = 2 * n + 7
    BY <1>27
  <2>2. Head(todo) = "RBNE"
    BY <1>4, <1>5, <2>1
  <2>b. ReadStopped(c, n, n, "off")
    BY <1>2, <1>20, <1>27 DEF Read3At
  <2>3. ReadStopped(c, n, n, "off")' => After(d)
    BY <1>b, <1>7, <1>8, <1>17, <1>18, <1>19, <2>1, I2Read3Next
  <2> QED BY <1>b, <1>17, <1>18, <1>19, <1>20, <2>2, <2>3, <2>b DEF Row, WaitRow
<1>28. CASE d = 2 * n + 7
  <2>1. e = 2 * n + 8
    BY <1>28
  <2>2. Head(todo) = "receive"
    BY <1>4, <1>5, <2>1
  <2>b. ReadStopped(c, n, n, "off")
    BY <1>2, <1>20, <1>28 DEF Read3At
  <2>3. ReadStopped(n, n, n, "off")' => After(d)
    BY <1>b, <1>7, <1>8, <1>17, <1>18, <1>19, <2>1, I2Read3Next
  <2> QED BY <1>b, <1>17, <1>18, <1>19, <1>20, <2>2, <2>3, <2>b DEF Row, DataRow
<1>29. CASE d = 2 * n + 8
  <2>1. e = 2 * n + 9
    BY <1>29
  <2>2. Head(todo) = "ackOn"
    BY <1>4, <1>5, <2>1
  <2>b. ReadStopped(n, n, n, "off")
    BY <1>2, <1>20, <1>29 DEF Read3At
  <2>3. ReadStopped(n, n, n, "on")' => After(d)
    BY <1>b, <1>7, <1>8, <1>17, <1>18, <1>19, <2>1, I2Read3Next
  <2> QED BY <1>b, <1>17, <1>18, <1>19, <1>20, <2>2, <2>3, <2>b DEF Row, ModifyRow
<1>30. \/ d \in 0 .. 5
       \/ \E r \in Nat : r + 4 <= n /\ (d = 6 + 2 * r \/ d = 7 + 2 * r)
       \/ d \in 2 * n .. 2 * n + 8
  <2>1. CASE d < 6
    BY <2>1
  <2>2. CASE d >= 2 * n
    BY <1>a, <2>2
  <2>3. CASE d >= 6 /\ d < 2 * n
    <3>1. d - 6 \in Nat
      BY <2>3
    <3>2. PICK r \in Nat : d - 6 = 2 * r \/ d - 6 = 2 * r + 1
      BY <3>1, I2Halves
    <3>3. (d = 6 + 2 * r \/ d = 7 + 2 * r) /\ r + 4 <= n
      BY <2>3, <3>1, <3>2
    <3> QED BY <3>3
  <2> QED BY <2>1, <2>2, <2>3
<1>31. CASE d \in 0 .. 5
  BY <1>9, <1>10, <1>11, <1>12, <1>13, <1>14, <1>31
<1>32. CASE d \in 2 * n .. 2 * n + 8
  BY <1>21, <1>22, <1>23, <1>24, <1>25, <1>26, <1>27, <1>28, <1>29, <1>32
<1> QED BY <1>15, <1>16, <1>30, <1>31, <1>32

\* Which transfers there are, and that each is spelt with those words.
LEMMA I2Kinds ==
  ASSUME ops \in Seq(Operation), ops # <<>>, Head(ops) # [kind |-> "read", n |-> 0]
  PROVE  /\ Head(ops) \in Operation /\ Head(ops).n \in Nat
         /\ \/ Head(ops).kind = "write"
            \/ Head(ops).kind = "read" /\ Head(ops).n > 0
<1>1. Head(ops) \in Operation
  OBVIOUS
<1>2. PICK a \in {"read", "write"}, b \in Nat : Head(ops) = [kind |-> a, n |-> b]
  BY <1>1 DEF Operation
<1> QED BY <1>1, <1>2

\* A transfer's operations are known words.
LEMMA I2InnerWords ==
  ASSUME ops \in Seq(Operation), ops # <<>>, Head(ops) # [kind |-> "read", n |-> 0]
  PROVE  Inner(Head(ops)) \in Seq(I2Words)
<1>1. PICK n \in Nat : n = Head(ops).n
  BY I2Kinds
<1>2. CASE Head(ops).kind = "write"
  <2>1. PICK D \in Seq(I2Words) : D = IF Len(ops) = 1 THEN <<"stop">> ELSE <<>>
    <3>1. <<"stop">> \in Seq(I2Words) /\ <<>> \in Seq(I2Words)
      BY DEF I2Words
    <3>2. CASE Len(ops) = 1
      BY <3>1, <3>2
    <3>3. CASE Len(ops) # 1
      BY <3>1, <3>3
    <3> QED BY <3>2, <3>3
  <2>2. Inner(Head(ops)) = WriteBody(n, D)
    BY <1>1, <1>2, <2>1 DEF Inner, WriteInner, WriteBody
  <2>3. SpeltWrite(WriteBody(n, D), n, D)
    BY I2WriteWords
  <2> QED BY ONLY <2>2, <2>3 DEF SpeltWrite
<1>3. CASE Head(ops).kind = "read" /\ n > 0
  <2>1. Inner(Head(ops)) = ReadInner(n)
    BY <1>1, <1>3 DEF Inner
  <2>2. CASE n = 1
    BY <2>1, <2>2, I2Read1Words
  <2>3. CASE n = 2
    BY <2>1, <2>3, I2Read2Words
  <2>4. CASE n > 2
    <3>1. SpeltRead(ReadInner(n), n)
      BY <2>4, I2Read3Words
    <3> QED BY ONLY <2>1, <3>1 DEF SpeltRead
  <2> QED BY <1>3, <2>2, <2>3, <2>4
<1> QED BY <1>1, <1>2, <1>3, I2Kinds

\* A transfer has a register operation ahead, or is done.
LEMMA I2RunRow ==
  ASSUME ops \in Seq(Operation), ops # <<>>, Head(ops) # [kind |-> "read", n |-> 0],
         NEW d \in 0 .. Len(Inner(Head(ops))), TransferAt(d), todo # <<>>
  PROVE  d \in 0 .. Len(Inner(Head(ops))) - 1 /\ Row(d)
<1>1. PICK s \in Seq(I2Words) : s = Inner(Head(ops))
  BY I2InnerWords
<1>2. todo = Left(s, d) /\ d <= Len(s) /\ d \in Nat
  BY <1>1 DEF TransferAt
<1>3. d # Len(s)
  BY <1>1, <1>2, I2Ahead
<1>4. d < Len(s) /\ Len(s) = Len(Inner(Head(ops))) /\ Len(s) \in Nat
  BY <1>1, <1>2, <1>3
<1>5. d < Len(Inner(Head(ops)))
  BY <1>4
<1>6. PICK n \in Nat : n = Head(ops).n
  BY I2Kinds
<1>7. CASE Head(ops).kind = "write"
  BY <1>2, <1>5, <1>7, I2WriteRow
<1>8. CASE Head(ops).kind = "read" /\ n = 1
  BY <1>2, <1>5, <1>6, <1>8, I2Read1Row
<1>9. CASE Head(ops).kind = "read" /\ n = 2
  BY <1>2, <1>5, <1>6, <1>9, I2Read2Row
<1>10. CASE Head(ops).kind = "read" /\ n > 2
  BY <1>2, <1>5, <1>6, <1>10, I2Read3Row
<1>11. d \in 0 .. Len(Inner(Head(ops))) - 1
  BY <1>2, <1>4
<1> QED BY <1>6, <1>7, <1>8, <1>9, <1>10, <1>11, I2Kinds

\* Once no operation is left, the transfer is in its last phase.
LEMMA I2RunDone ==
  ASSUME ops \in Seq(Operation), ops # <<>>, Head(ops) # [kind |-> "read", n |-> 0],
         NEW d \in 0 .. Len(Inner(Head(ops))), TransferAt(d), todo = <<>>,
         NEW n \in Nat, n = Head(ops).n
  PROVE  \/ Head(ops).kind = "write" /\ Len(ops) = 1 /\ WriteStopped(n)
         \/ Head(ops).kind = "write" /\ Len(ops) # 1 /\ AllAcked(n)
         \/ Head(ops).kind = "read" /\ n > 0 /\ ReadStopped(n, n, n, "on")
<1>1. PICK s \in Seq(I2Words) : s = Inner(Head(ops))
  BY I2InnerWords
<1>2. todo = Left(s, d) /\ d <= Len(s) /\ d \in Nat
  BY <1>1 DEF TransferAt
<1>3. d = Len(s)
  BY <1>1, <1>2, I2Ahead
<1>7. CASE Head(ops).kind = "write"
  <2>1. PICK D \in Seq(I2Words) : D = IF Len(ops) = 1 THEN <<"stop">> ELSE <<>>
    <3>1. <<"stop">> \in Seq(I2Words) /\ <<>> \in Seq(I2Words)
      BY DEF I2Words
    <3>2. CASE Len(ops) = 1
      BY <3>1, <3>2
    <3>3. CASE Len(ops) # 1
      BY <3>1, <3>3
    <3> QED BY <3>2, <3>3
  <2>2. s = WriteBody(n, D)
    BY <1>1, <1>7, <2>1 DEF Inner, WriteInner, WriteBody
  <2>3. SpeltWrite(s, n, D)
    BY <2>2, I2WriteWords
  <2>4. Len(s) = Sent(n) + Len(D)
    BY ONLY <2>3 DEF SpeltWrite
  <2>5. Sent(n) \in Nat
    BY DEF Sent
  <2>6. WriteAt(d, n)
    BY <1>7 DEF TransferAt
  <2>7. CASE Len(ops) = 1
    <3>1. Len(D) = 1
      BY <2>1, <2>7
    <3>2. d = Sent(n) + 1
      BY ONLY <1>3, <2>4, <2>5, <3>1
    <3> QED BY <1>7, <2>6, <2>7, <3>2 DEF WriteAt
  <2>8. CASE Len(ops) # 1
    <3>1. Len(D) = 0
      BY <2>1, <2>8
    <3>2. d = Sent(n)
      BY ONLY <1>3, <2>4, <2>5, <3>1
    <3> QED BY <1>7, <2>6, <2>8, <3>2 DEF WriteAt
  <2> QED BY <2>7, <2>8
<1>8. CASE Head(ops).kind = "read" /\ n > 0
  <2>1. s = ReadInner(n)
    BY <1>1, <1>8 DEF Inner
  <2>2. CASE n = 1
    <3>1. d = 11 /\ Read1At(d)
      BY <1>3, <1>8, <2>1, <2>2, I2Read1Words DEF TransferAt
    <3> QED BY <1>8, <2>2, <3>1 DEF Read1At
  <2>3. CASE n = 2
    <3>1. d = 15 /\ Read2At(d)
      BY <1>3, <1>8, <2>1, <2>3, I2Read2Words DEF TransferAt
    <3> QED BY <1>8, <2>3, <3>1 DEF Read2At
  <2>4. CASE n > 2
    <3>1. SpeltRead(s, n)
      BY <2>1, <2>4, I2Read3Words
    <3>2. Len(s) = 2 * n + 9
      BY ONLY <3>1 DEF SpeltRead
    <3>3. Read3At(d, n)
      BY <1>8, <2>4 DEF TransferAt
    <3> QED BY <1>3, <1>8, <3>2, <3>3 DEF Read3At
  <2> QED BY <1>8, <2>2, <2>3, <2>4
<1> QED BY <1>7, <1>8, I2Kinds

\* A transfer begins.
LEMMA I2RunStart ==
  ASSUME ops \in Seq(Operation), ops # <<>>, Head(ops) # [kind |-> "read", n |-> 0],
         ops' = ops, todo' = Inner(Head(ops)), Ready("any")', Stored(0)'
  PROVE  TransferAt(0)' /\ (0 \in 0 .. Len(Inner(Head(ops))))'
<1>1. PICK k \in Nat : k = Head(ops).n
  BY I2Kinds
<1>2. PICK s \in Seq(I2Words) : s = Inner(Head(ops))
  BY I2InnerWords
<1>3. (Inner(Head(ops)))' = s
  BY <1>2 DEF Inner
<1>4. (todo = Left(Inner(Head(ops)), 0))'
  BY <1>2, <1>3, I2LeftAll
<1>5. ASSUME NEW n \in Nat PROVE WriteAt(0, n)'
  <2>1. Sent(n) > 0 /\ Sent(n) + 1 # 0 /\ Sent(n) # 0
    BY DEF Sent
  <2> QED BY <2>1 DEF WriteAt
<1>6. Read1At(0)' /\ Read2At(0)'
  BY DEF Read1At, Read2At
<1>7. ASSUME NEW n \in Nat, n > 2 PROVE Read3At(0, n)'
  BY <1>7 DEF Read3At
<1>8. Head(ops)' = Head(ops) /\ (Head(ops).n \in Nat)'
  BY <1>1
<1>9. TransferAt(0)'
  BY <1>4, <1>5, <1>6, <1>7, <1>8 DEF TransferAt
<1>10. (0 \in 0 .. Len(Inner(Head(ops))))'
  BY <1>3
<1> QED BY <1>9, <1>10

---------------------------------------------------------------------------
(* The bus moves: every phase of a transfer is kept. *)

Modes == {"any", "on", "off", "ahead", "second"}
StartsKept ==
  \A m \in Modes : /\ Ready(m) => Ready(m)'
                   /\ Started(m) => Started(m)'
                   /\ StartSeen(m) => StartSeen(m)'
AddressesKept ==
  \A a \in {"r", "w"}, m \in Modes : /\ Addressed(a, m) => Addressed(a, m)'
                                     /\ Answered(a, m) => Answered(a, m)'
WritesKept ==
  \A t \in Nat : /\ Sending(t) => Sending(t)'
                 /\ AllAcked(t) => AllAcked(t)'
                 /\ WriteStopped(t) => WriteStopped(t)'
ReadsKept ==
  \A r, lo, n \in Nat, m \in Modes : /\ Receiving(r, lo, n, m) => Receiving(r, lo, n, m)'
                                     /\ ReadStopped(r, lo, n, m) => ReadStopped(r, lo, n, m)'
PhasesKept == StartsKept /\ AddressesKept /\ WritesKept /\ ReadsKept /\ rcv' = rcv

\* A step that keeps every phase keeps the place of the transfer.
LEMMA I2TransferKept ==
  ASSUME ops \in Seq(Operation), ops # <<>>, Head(ops) # [kind |-> "read", n |-> 0],
         PhasesKept, ops' = ops, todo' = todo,
         NEW d \in 0 .. Len(Inner(Head(ops))), TransferAt(d)
  PROVE  TransferAt(d)' /\ (d \in 0 .. Len(Inner(Head(ops))))'
<1>1. PICK k \in Nat : k = Head(ops).n
  BY I2Kinds
<1>2. (Inner(Head(ops)))' = Inner(Head(ops)) /\ Head(ops)' = Head(ops)
  BY DEF Inner
<1>3. d \in Nat
  <2>1. PICK s \in Seq(I2Words) : s = Inner(Head(ops))
    BY I2InnerWords
  <2> QED BY <2>1
<1>4. WriteAt(d, k) => WriteAt(d, k)'
  <2>1. SUFFICES ASSUME WriteAt(d, k) PROVE WriteAt(d, k)'
    OBVIOUS
  <2>2. \A t \in 0 .. k : t \in Nat
    OBVIOUS
  <2>3. \A t \in 0 .. k - 1 : t \in Nat
    OBVIOUS
  <2> QED BY <2>1, <2>2, <2>3 DEF WriteAt, PhasesKept, StartsKept, AddressesKept, WritesKept, Modes
<1>5. Stored(0) => Stored(0)'
  BY DEF Stored, PhasesKept
<1>6. Read1At(d) => Read1At(d)'
  BY <1>5 DEF Read1At, PhasesKept, StartsKept, AddressesKept, ReadsKept, Modes
<1>7. Read2At(d) => Read2At(d)'
  BY <1>5 DEF Read2At, PhasesKept, StartsKept, AddressesKept, ReadsKept, Modes
<1>8. k > 2 /\ Read3At(d, k) => Read3At(d, k)'
  <2>1. SUFFICES ASSUME k > 2, Read3At(d, k) PROVE Read3At(d, k)'
    OBVIOUS
  <2>2. \A r \in 0 .. k - 3 : r \in Nat
    OBVIOUS
  <2>3. \A r \in 0 .. k - 4 : r \in Nat /\ r + 1 \in Nat
    OBVIOUS
  <2>4. k - 3 \in Nat /\ k - 2 \in Nat /\ k - 1 \in Nat
    BY <2>1
  <2>5. \A r, lo, n \in Nat : /\ Receiving(r, lo, n, "on") => Receiving(r, lo, n, "on")'
                              /\ Receiving(r, lo, n, "off") => Receiving(r, lo, n, "off")'
                              /\ ReadStopped(r, lo, n, "off") => ReadStopped(r, lo, n, "off")'
                              /\ ReadStopped(r, lo, n, "on") => ReadStopped(r, lo, n, "on")'
    BY DEF PhasesKept, ReadsKept, Modes
  <2>6. /\ d = 0 => Ready("any")'
        /\ d = 1 => Ready("on")'
        /\ d = 2 => Started("on")'
        /\ d = 3 => StartSeen("on")'
        /\ d = 4 => Addressed("r", "on")'
        /\ d = 5 => Answered("r", "on")'
        /\ d <= 5 => Stored(0)'
    BY <1>5, <2>1 DEF Read3At, PhasesKept, StartsKept, AddressesKept, Modes
  <2>7. /\ \A r \in 0 .. k - 3 : d = 6 + 2 * r => Receiving(r, r, k, "on")'
        /\ \A r \in 0 .. k - 4 : d = 7 + 2 * r => Receiving(r, r + 1, k, "on")'
    BY <2>1, <2>2, <2>3, <2>5 DEF Read3At
  <2>8. /\ d = 2 * k + 1 => Receiving(k - 3, k - 1, k, "on")'
        /\ d = 2 * k + 2 => Receiving(k - 3, k - 1, k, "off")'
        /\ d = 2 * k + 3 => Receiving(k - 2, k - 1, k, "off")'
        /\ d = 2 * k + 4 => Receiving(k - 2, k, k, "off")'
        /\ d = 2 * k + 5 => ReadStopped(k - 2, k, k, "off")'
        /\ d \in {2 * k + 6, 2 * k + 7} => ReadStopped(k - 1, k, k, "off")'
        /\ d = 2 * k + 8 => ReadStopped(k, k, k, "off")'
        /\ d = 2 * k + 9 => ReadStopped(k, k, k, "on")'
    BY <2>1, <2>4, <2>5 DEF Read3At
  <2> QED BY <2>6, <2>7, <2>8 DEF Read3At
<1>9. TransferAt(d)'
  <2>1. (todo = Left(Inner(Head(ops)), d))'
    BY <1>2 DEF TransferAt
  <2> QED BY <1>1, <1>2, <1>4, <1>6, <1>7, <1>8, <2>1 DEF TransferAt
<1> QED BY <1>2, <1>9

\* A step that moves nothing of the block or the bus.
LEMMA I2Unmoved ==
  ASSUME ctl' = ctl, err' = err, ph' = ph, dir' = dir, rx' = rx, tx' = tx, nack' = nack, rcv' = rcv
  PROVE  PhasesKept
<1>1. StartsKept
  BY DEF StartsKept, Ready, Started, StartSeen, Quiet, Acks
<1>2. AddressesKept
  BY DEF AddressesKept, Addressed, Answered, Quiet, Acks
<1>3. WritesKept
  BY DEF WritesKept, Sending, AllAcked, WriteStopped, Quiet, Acks
<1>4. ReadsKept
  BY DEF ReadsKept, Receiving, ReadStopped, Stored, Taken, Suits, Quiet, Acks
<1> QED BY <1>1, <1>2, <1>3, <1>4 DEF PhasesKept

\* Sending a START keeps every phase.
LEMMA I2StartSentKept ==
  ASSUME I2BlockTypes, I2BusTypes, StartSent
  PROVE  PhasesKept
<1>1. /\ ctl \in I2CtlSet /\ rx \in I2RxSet /\ tx \in I2TxSet
  BY DEF I2BlockTypes, I2BusTypes
<1>2. /\ ctl.start /\ held = 0 /\ (ph = "free" \/ (ph = "tx" /\ tx.queued = 0))
      /\ ~ctl'.start /\ ctl'.stop = ctl.stop /\ ctl'.acken = ctl.acken /\ ctl'.poap = ctl.poap
      /\ ph' = "sb" /\ tx' = NoTx /\ err' = err /\ dir' = dir /\ rx' = rx /\ nack' = nack /\ rcv' = rcv
  BY <1>1 DEF StartSent, CanStart, Bus, I2CtlSet, I2TxSet, I2RxSet
<1>3. \A m \in Modes : Ready(m) => Ready(m)'
  BY <1>1, <1>2 DEF Ready, Quiet, Acks, NoTx, NoRx, I2TxSet, I2RxSet
<1>4. \A m \in Modes : Started(m) => Started(m)'
  BY <1>1, <1>2 DEF Started, Quiet, Acks, NoTx, NoRx, I2TxSet, I2RxSet
<1>5. \A m \in Modes : StartSeen(m) => StartSeen(m)'
  BY <1>1, <1>2 DEF StartSeen, Quiet, Acks, NoTx, NoRx, I2TxSet, I2RxSet
<1>6. \A a \in {"r", "w"}, m \in Modes : Addressed(a, m) => Addressed(a, m)'
  BY <1>1, <1>2 DEF Addressed, Quiet, Acks, NoTx, NoRx, I2TxSet, I2RxSet
<1>7. \A a \in {"r", "w"}, m \in Modes : Answered(a, m) => Answered(a, m)'
  BY <1>1, <1>2 DEF Answered, Quiet, Acks, NoTx, NoRx, I2TxSet, I2RxSet
<1>8. \A t \in Nat : Sending(t) => Sending(t)'
  BY <1>1, <1>2 DEF Sending, Quiet, Acks, NoTx, NoRx, I2TxSet, I2RxSet
<1>9. \A t \in Nat : AllAcked(t) => AllAcked(t)'
  BY <1>1, <1>2 DEF AllAcked, Quiet, Acks, NoTx, NoRx, I2TxSet, I2RxSet
<1>10. \A t \in Nat : WriteStopped(t) => WriteStopped(t)'
  BY <1>1, <1>2 DEF WriteStopped, Quiet, Acks, NoTx, NoRx, I2TxSet, I2RxSet
<1>11. \A r, lo, n \in Nat, m \in Modes : Receiving(r, lo, n, m) => Receiving(r, lo, n, m)'
  BY <1>1, <1>2 DEF Receiving, Quiet, Acks, Stored, Taken, NoTx, NoRx, I2TxSet, I2RxSet
<1>12. \A r, lo, n \in Nat, m \in Modes : ReadStopped(r, lo, n, m) => ReadStopped(r, lo, n, m)'
  BY <1>1, <1>2 DEF ReadStopped, Quiet, Acks, Stored, Taken, NoTx, NoRx, I2TxSet, I2RxSet
<1> QED BY <1>2, <1>3, <1>4, <1>5, <1>6, <1>7, <1>8, <1>9, <1>10, <1>11, <1>12
     DEF PhasesKept, StartsKept, AddressesKept, WritesKept, ReadsKept

\* An acknowledged address keeps every phase.
LEMMA I2AddressAckedKept ==
  ASSUME I2BlockTypes, I2BusTypes, AddressAcked
  PROVE  PhasesKept
<1>1. /\ ctl \in I2CtlSet /\ rx \in I2RxSet /\ tx \in I2TxSet
  BY DEF I2BlockTypes, I2BusTypes
<1>2. /\ ph = "addr" /\ ph' = "ack" /\ ctl' = ctl /\ err' = err /\ dir' = dir /\ rx' = rx /\ tx' = tx
      /\ nack' = nack /\ rcv' = rcv
  BY <1>1 DEF AddressAcked, Bus, regs, I2CtlSet, I2TxSet, I2RxSet
<1>3. \A m \in Modes : Ready(m) => Ready(m)'
  BY <1>1, <1>2 DEF Ready, Quiet, Acks, NoTx, NoRx, I2TxSet, I2RxSet
<1>4. \A m \in Modes : Started(m) => Started(m)'
  BY <1>1, <1>2 DEF Started, Quiet, Acks, NoTx, NoRx, I2TxSet, I2RxSet
<1>5. \A m \in Modes : StartSeen(m) => StartSeen(m)'
  BY <1>1, <1>2 DEF StartSeen, Quiet, Acks, NoTx, NoRx, I2TxSet, I2RxSet
<1>6. \A a \in {"r", "w"}, m \in Modes : Addressed(a, m) => Addressed(a, m)'
  BY <1>1, <1>2 DEF Addressed, Quiet, Acks, NoTx, NoRx, I2TxSet, I2RxSet
<1>7. \A a \in {"r", "w"}, m \in Modes : Answered(a, m) => Answered(a, m)'
  BY <1>1, <1>2 DEF Answered, Quiet, Acks, NoTx, NoRx, I2TxSet, I2RxSet
<1>8. \A t \in Nat : Sending(t) => Sending(t)'
  BY <1>1, <1>2 DEF Sending, Quiet, Acks, NoTx, NoRx, I2TxSet, I2RxSet
<1>9. \A t \in Nat : AllAcked(t) => AllAcked(t)'
  BY <1>1, <1>2 DEF AllAcked, Quiet, Acks, NoTx, NoRx, I2TxSet, I2RxSet
<1>10. \A t \in Nat : WriteStopped(t) => WriteStopped(t)'
  BY <1>1, <1>2 DEF WriteStopped, Quiet, Acks, NoTx, NoRx, I2TxSet, I2RxSet
<1>11. \A r, lo, n \in Nat, m \in Modes : Receiving(r, lo, n, m) => Receiving(r, lo, n, m)'
  BY <1>1, <1>2 DEF Receiving, Quiet, Acks, Stored, Taken, NoTx, NoRx, I2TxSet, I2RxSet
<1>12. \A r, lo, n \in Nat, m \in Modes : ReadStopped(r, lo, n, m) => ReadStopped(r, lo, n, m)'
  BY <1>1, <1>2 DEF ReadStopped, Quiet, Acks, Stored, Taken, NoTx, NoRx, I2TxSet, I2RxSet
<1> QED BY <1>2, <1>3, <1>4, <1>5, <1>6, <1>7, <1>8, <1>9, <1>10, <1>11, <1>12
     DEF PhasesKept, StartsKept, AddressesKept, WritesKept, ReadsKept

\* A refused address keeps every phase.
LEMMA I2AddressRefusedKept ==
  ASSUME I2BlockTypes, I2BusTypes, AddressRefused
  PROVE  PhasesKept
<1>1. /\ ctl \in I2CtlSet /\ rx \in I2RxSet /\ tx \in I2TxSet
  BY DEF I2BlockTypes, I2BusTypes
<1>2. /\ ph = "addr" /\ ph' = "hold" /\ ctl' = ctl /\ "AERR" \in err' /\ dir' = dir /\ rx' = rx /\ tx' = tx
      /\ nack' = "address" /\ rcv' = rcv
  BY <1>1 DEF AddressRefused, Bus, I2CtlSet, I2TxSet, I2RxSet
<1>3. \A m \in Modes : Ready(m) => Ready(m)'
  BY <1>1, <1>2 DEF Ready, Quiet, Acks, NoTx, NoRx, I2TxSet, I2RxSet
<1>4. \A m \in Modes : Started(m) => Started(m)'
  BY <1>1, <1>2 DEF Started, Quiet, Acks, NoTx, NoRx, I2TxSet, I2RxSet
<1>5. \A m \in Modes : StartSeen(m) => StartSeen(m)'
  BY <1>1, <1>2 DEF StartSeen, Quiet, Acks, NoTx, NoRx, I2TxSet, I2RxSet
<1>6. \A a \in {"r", "w"}, m \in Modes : Addressed(a, m) => Addressed(a, m)'
  BY <1>1, <1>2 DEF Addressed, Quiet, Acks, NoTx, NoRx, I2TxSet, I2RxSet
<1>7. \A a \in {"r", "w"}, m \in Modes : Answered(a, m) => Answered(a, m)'
  BY <1>1, <1>2 DEF Answered, Quiet, Acks, NoTx, NoRx, I2TxSet, I2RxSet
<1>8. \A t \in Nat : Sending(t) => Sending(t)'
  BY <1>1, <1>2 DEF Sending, Quiet, Acks, NoTx, NoRx, I2TxSet, I2RxSet
<1>9. \A t \in Nat : AllAcked(t) => AllAcked(t)'
  BY <1>1, <1>2 DEF AllAcked, Quiet, Acks, NoTx, NoRx, I2TxSet, I2RxSet
<1>10. \A t \in Nat : WriteStopped(t) => WriteStopped(t)'
  BY <1>1, <1>2 DEF WriteStopped, Quiet, Acks, NoTx, NoRx, I2TxSet, I2RxSet
<1>11. \A r, lo, n \in Nat, m \in Modes : Receiving(r, lo, n, m) => Receiving(r, lo, n, m)'
  BY <1>1, <1>2 DEF Receiving, Quiet, Acks, Stored, Taken, NoTx, NoRx, I2TxSet, I2RxSet
<1>12. \A r, lo, n \in Nat, m \in Modes : ReadStopped(r, lo, n, m) => ReadStopped(r, lo, n, m)'
  BY <1>1, <1>2 DEF ReadStopped, Quiet, Acks, Stored, Taken, NoTx, NoRx, I2TxSet, I2RxSet
<1> QED BY <1>2, <1>3, <1>4, <1>5, <1>6, <1>7, <1>8, <1>9, <1>10, <1>11, <1>12
     DEF PhasesKept, StartsKept, AddressesKept, WritesKept, ReadsKept

\* An acknowledged byte keeps every phase.
LEMMA I2ByteAckedKept ==
  ASSUME I2BlockTypes, I2BusTypes, ByteAcked
  PROVE  PhasesKept
<1>1. /\ ctl \in I2CtlSet /\ rx \in I2RxSet /\ tx \in I2TxSet
  BY DEF I2BlockTypes, I2BusTypes
<1>2. /\ ph = "tx" /\ tx.queued > 0 /\ tx' = [queued |-> tx.queued - 1, acked |-> tx.acked + 1]
      /\ tx'.queued = tx.queued - 1 /\ tx'.acked = tx.acked + 1
      /\ ctl' = ctl /\ err' = err /\ ph' = ph /\ dir' = dir /\ rx' = rx /\ nack' = nack /\ rcv' = rcv
  BY <1>1 DEF ByteAcked, CanTransmit, Bus, regs, I2CtlSet, I2TxSet, I2RxSet
<1>3. \A m \in Modes : Ready(m) => Ready(m)'
  BY <1>1, <1>2 DEF Ready, Quiet, Acks, NoTx, NoRx, I2TxSet, I2RxSet
<1>4. \A m \in Modes : Started(m) => Started(m)'
  BY <1>1, <1>2 DEF Started, Quiet, Acks, NoTx, NoRx, I2TxSet, I2RxSet
<1>5. \A m \in Modes : StartSeen(m) => StartSeen(m)'
  BY <1>1, <1>2 DEF StartSeen, Quiet, Acks, NoTx, NoRx, I2TxSet, I2RxSet
<1>6. \A a \in {"r", "w"}, m \in Modes : Addressed(a, m) => Addressed(a, m)'
  BY <1>1, <1>2 DEF Addressed, Quiet, Acks, NoTx, NoRx, I2TxSet, I2RxSet
<1>7. \A a \in {"r", "w"}, m \in Modes : Answered(a, m) => Answered(a, m)'
  BY <1>1, <1>2 DEF Answered, Quiet, Acks, NoTx, NoRx, I2TxSet, I2RxSet
<1>8. \A t \in Nat : Sending(t) => Sending(t)'
  BY <1>1, <1>2 DEF Sending, Quiet, Acks, NoTx, NoRx, I2TxSet, I2RxSet
<1>9. \A t \in Nat : AllAcked(t) => AllAcked(t)'
  BY <1>1, <1>2 DEF AllAcked, Quiet, Acks, NoTx, NoRx, I2TxSet, I2RxSet
<1>10. \A t \in Nat : WriteStopped(t) => WriteStopped(t)'
  BY <1>1, <1>2 DEF WriteStopped, Quiet, Acks, NoTx, NoRx, I2TxSet, I2RxSet
<1>11. \A r, lo, n \in Nat, m \in Modes : Receiving(r, lo, n, m) => Receiving(r, lo, n, m)'
  BY <1>1, <1>2 DEF Receiving, Quiet, Acks, Stored, Taken, NoTx, NoRx, I2TxSet, I2RxSet
<1>12. \A r, lo, n \in Nat, m \in Modes : ReadStopped(r, lo, n, m) => ReadStopped(r, lo, n, m)'
  BY <1>1, <1>2 DEF ReadStopped, Quiet, Acks, Stored, Taken, NoTx, NoRx, I2TxSet, I2RxSet
<1> QED BY <1>2, <1>3, <1>4, <1>5, <1>6, <1>7, <1>8, <1>9, <1>10, <1>11, <1>12
     DEF PhasesKept, StartsKept, AddressesKept, WritesKept, ReadsKept

\* A refused byte keeps every phase.
LEMMA I2ByteRefusedKept ==
  ASSUME I2BlockTypes, I2BusTypes, ByteRefused
  PROVE  PhasesKept
<1>1. /\ ctl \in I2CtlSet /\ rx \in I2RxSet /\ tx \in I2TxSet
  BY DEF I2BlockTypes, I2BusTypes
<1>2. /\ ph = "tx" /\ tx.queued > 0 /\ ph' = "hold" /\ "AERR" \in err' /\ nack' = "data"
      /\ ctl' = ctl /\ dir' = dir /\ rx' = rx /\ rcv' = rcv
  BY <1>1 DEF ByteRefused, CanTransmit, Bus, I2CtlSet, I2TxSet, I2RxSet
<1>3. \A m \in Modes : Ready(m) => Ready(m)'
  BY <1>1, <1>2 DEF Ready, Quiet, Acks, NoTx, NoRx, I2TxSet, I2RxSet
<1>4. \A m \in Modes : Started(m) => Started(m)'
  BY <1>1, <1>2 DEF Started, Quiet, Acks, NoTx, NoRx, I2TxSet, I2RxSet
<1>5. \A m \in Modes : StartSeen(m) => StartSeen(m)'
  BY <1>1, <1>2 DEF StartSeen, Quiet, Acks, NoTx, NoRx, I2TxSet, I2RxSet
<1>6. \A a \in {"r", "w"}, m \in Modes : Addressed(a, m) => Addressed(a, m)'
  BY <1>1, <1>2 DEF Addressed, Quiet, Acks, NoTx, NoRx, I2TxSet, I2RxSet
<1>7. \A a \in {"r", "w"}, m \in Modes : Answered(a, m) => Answered(a, m)'
  BY <1>1, <1>2 DEF Answered, Quiet, Acks, NoTx, NoRx, I2TxSet, I2RxSet
<1>8. \A t \in Nat : Sending(t) => Sending(t)'
  BY <1>1, <1>2 DEF Sending, Quiet, Acks, NoTx, NoRx, I2TxSet, I2RxSet
<1>9. \A t \in Nat : AllAcked(t) => AllAcked(t)'
  BY <1>1, <1>2 DEF AllAcked, Quiet, Acks, NoTx, NoRx, I2TxSet, I2RxSet
<1>10. \A t \in Nat : WriteStopped(t) => WriteStopped(t)'
  BY <1>1, <1>2 DEF WriteStopped, Quiet, Acks, NoTx, NoRx, I2TxSet, I2RxSet
<1>11. \A r, lo, n \in Nat, m \in Modes : Receiving(r, lo, n, m) => Receiving(r, lo, n, m)'
  BY <1>1, <1>2 DEF Receiving, Quiet, Acks, Stored, Taken, NoTx, NoRx, I2TxSet, I2RxSet
<1>12. \A r, lo, n \in Nat, m \in Modes : ReadStopped(r, lo, n, m) => ReadStopped(r, lo, n, m)'
  BY <1>1, <1>2 DEF ReadStopped, Quiet, Acks, Stored, Taken, NoTx, NoRx, I2TxSet, I2RxSet
<1> QED BY <1>2, <1>3, <1>4, <1>5, <1>6, <1>7, <1>8, <1>9, <1>10, <1>11, <1>12
     DEF PhasesKept, StartsKept, AddressesKept, WritesKept, ReadsKept

\* A STOP that finishes keeps every phase.
LEMMA I2StopSentKept ==
  ASSUME I2BlockTypes, I2BusTypes, StopSent
  PROVE  PhasesKept
<1>1. /\ ctl \in I2CtlSet /\ rx \in I2RxSet /\ tx \in I2TxSet
  BY DEF I2BlockTypes, I2BusTypes
<1>2. /\ ctl.stop /\ (ph \in {"sb", "ack", "hold"} \/ (ph = "tx" /\ tx.queued = 0) \/ (ph = "rx" /\ rx.clocked > 0))
      /\ ~ctl'.stop /\ ctl'.start = ctl.start /\ ctl'.acken = ctl.acken /\ ctl'.poap = ctl.poap
      /\ ph' = "free" /\ err' = err /\ dir' = dir /\ rx' = rx /\ tx' = tx /\ nack' = nack /\ rcv' = rcv
  BY <1>1 DEF StopSent, CanStop, Bus, I2CtlSet, I2TxSet, I2RxSet
<1>3. \A m \in Modes : Ready(m) => Ready(m)'
  BY <1>1, <1>2 DEF Ready, Quiet, Acks, NoTx, NoRx, I2TxSet, I2RxSet
<1>4. \A m \in Modes : Started(m) => Started(m)'
  BY <1>1, <1>2 DEF Started, Quiet, Acks, NoTx, NoRx, I2TxSet, I2RxSet
<1>5. \A m \in Modes : StartSeen(m) => StartSeen(m)'
  BY <1>1, <1>2 DEF StartSeen, Quiet, Acks, NoTx, NoRx, I2TxSet, I2RxSet
<1>6. \A a \in {"r", "w"}, m \in Modes : Addressed(a, m) => Addressed(a, m)'
  BY <1>1, <1>2 DEF Addressed, Quiet, Acks, NoTx, NoRx, I2TxSet, I2RxSet
<1>7. \A a \in {"r", "w"}, m \in Modes : Answered(a, m) => Answered(a, m)'
  BY <1>1, <1>2 DEF Answered, Quiet, Acks, NoTx, NoRx, I2TxSet, I2RxSet
<1>8. \A t \in Nat : Sending(t) => Sending(t)'
  BY <1>1, <1>2 DEF Sending, Quiet, Acks, NoTx, NoRx, I2TxSet, I2RxSet
<1>9. \A t \in Nat : AllAcked(t) => AllAcked(t)'
  BY <1>1, <1>2 DEF AllAcked, Quiet, Acks, NoTx, NoRx, I2TxSet, I2RxSet
<1>10. \A t \in Nat : WriteStopped(t) => WriteStopped(t)'
  BY <1>1, <1>2 DEF WriteStopped, Quiet, Acks, NoTx, NoRx, I2TxSet, I2RxSet
<1>11. \A r, lo, n \in Nat, m \in Modes : Receiving(r, lo, n, m) => Receiving(r, lo, n, m)'
  BY <1>1, <1>2 DEF Receiving, Quiet, Acks, Stored, Taken, NoTx, NoRx, I2TxSet, I2RxSet
<1>12. \A r, lo, n \in Nat, m \in Modes : ReadStopped(r, lo, n, m) => ReadStopped(r, lo, n, m)'
  BY <1>1, <1>2 DEF ReadStopped, Quiet, Acks, Stored, Taken, NoTx, NoRx, I2TxSet, I2RxSet
<1> QED BY <1>2, <1>3, <1>4, <1>5, <1>6, <1>7, <1>8, <1>9, <1>10, <1>11, <1>12
     DEF PhasesKept, StartsKept, AddressesKept, WritesKept, ReadsKept

\* A wedged bus keeps every phase: none is one in which it may wedge.
LEMMA I2WedgeKept ==
  ASSUME I2BlockTypes, I2BusTypes, Wedge
  PROVE  PhasesKept
<1>1. /\ ctl \in I2CtlSet /\ rx \in I2RxSet /\ tx \in I2TxSet
  BY DEF I2BlockTypes, I2BusTypes
<1>2. /\ ctl.stop /\ dir = "r" /\ ~rx.nacked /\ (ph = "ack" \/ (ph = "rx" /\ rx.clocked > 0))
      /\ ctl' = ctl /\ err' = err /\ dir' = dir /\ rx' = rx /\ tx' = tx /\ nack' = nack /\ rcv' = rcv
  BY <1>1 DEF Wedge, CanStop, Bus, regs, I2CtlSet, I2TxSet, I2RxSet
<1>3. \A m \in Modes : Ready(m) => Ready(m)'
  BY <1>1, <1>2 DEF Ready, Quiet, Acks, NoTx, NoRx, I2TxSet, I2RxSet
<1>4. \A m \in Modes : Started(m) => Started(m)'
  BY <1>1, <1>2 DEF Started, Quiet, Acks, NoTx, NoRx, I2TxSet, I2RxSet
<1>5. \A m \in Modes : StartSeen(m) => StartSeen(m)'
  BY <1>1, <1>2 DEF StartSeen, Quiet, Acks, NoTx, NoRx, I2TxSet, I2RxSet
<1>6. \A a \in {"r", "w"}, m \in Modes : Addressed(a, m) => Addressed(a, m)'
  BY <1>1, <1>2 DEF Addressed, Quiet, Acks, NoTx, NoRx, I2TxSet, I2RxSet
<1>7. \A a \in {"r", "w"}, m \in Modes : Answered(a, m) => Answered(a, m)'
  BY <1>1, <1>2 DEF Answered, Quiet, Acks, NoTx, NoRx, I2TxSet, I2RxSet
<1>8. \A t \in Nat : Sending(t) => Sending(t)'
  BY <1>1, <1>2 DEF Sending, Quiet, Acks, NoTx, NoRx, I2TxSet, I2RxSet
<1>9. \A t \in Nat : AllAcked(t) => AllAcked(t)'
  BY <1>1, <1>2 DEF AllAcked, Quiet, Acks, NoTx, NoRx, I2TxSet, I2RxSet
<1>10. \A t \in Nat : WriteStopped(t) => WriteStopped(t)'
  BY <1>1, <1>2 DEF WriteStopped, Quiet, Acks, NoTx, NoRx, I2TxSet, I2RxSet
<1>11. \A r, lo, n \in Nat, m \in Modes : Receiving(r, lo, n, m) => Receiving(r, lo, n, m)'
  BY <1>1, <1>2 DEF Receiving, Quiet, Acks, Stored, Taken, NoTx, NoRx, I2TxSet, I2RxSet
<1>12. \A r, lo, n \in Nat, m \in Modes : ReadStopped(r, lo, n, m) => ReadStopped(r, lo, n, m)'
  BY <1>1, <1>2 DEF ReadStopped, Quiet, Acks, Stored, Taken, NoTx, NoRx, I2TxSet, I2RxSet
<1> QED BY <1>2, <1>3, <1>4, <1>5, <1>6, <1>7, <1>8, <1>9, <1>10, <1>11, <1>12
     DEF PhasesKept, StartsKept, AddressesKept, WritesKept, ReadsKept

\* A bus error keeps every phase: it raises a flag only.
LEMMA I2BusErrorKept ==
  ASSUME I2BlockTypes, I2BusTypes, NEW e, BusError(e)
  PROVE  PhasesKept
<1>1. /\ ctl \in I2CtlSet /\ rx \in I2RxSet /\ tx \in I2TxSet
  BY DEF I2BlockTypes, I2BusTypes
<1>2. /\ err \subseteq err' /\ ctl' = ctl /\ ph' = ph /\ dir' = dir /\ rx' = rx /\ tx' = tx /\ nack' = nack /\ rcv' = rcv
  BY <1>1 DEF BusError, Bus, I2CtlSet, I2TxSet, I2RxSet
<1>3. \A m \in Modes : Ready(m) => Ready(m)'
  BY <1>1, <1>2 DEF Ready, Quiet, Acks, NoTx, NoRx, I2TxSet, I2RxSet
<1>4. \A m \in Modes : Started(m) => Started(m)'
  BY <1>1, <1>2 DEF Started, Quiet, Acks, NoTx, NoRx, I2TxSet, I2RxSet
<1>5. \A m \in Modes : StartSeen(m) => StartSeen(m)'
  BY <1>1, <1>2 DEF StartSeen, Quiet, Acks, NoTx, NoRx, I2TxSet, I2RxSet
<1>6. \A a \in {"r", "w"}, m \in Modes : Addressed(a, m) => Addressed(a, m)'
  BY <1>1, <1>2 DEF Addressed, Quiet, Acks, NoTx, NoRx, I2TxSet, I2RxSet
<1>7. \A a \in {"r", "w"}, m \in Modes : Answered(a, m) => Answered(a, m)'
  BY <1>1, <1>2 DEF Answered, Quiet, Acks, NoTx, NoRx, I2TxSet, I2RxSet
<1>8. \A t \in Nat : Sending(t) => Sending(t)'
  BY <1>1, <1>2 DEF Sending, Quiet, Acks, NoTx, NoRx, I2TxSet, I2RxSet
<1>9. \A t \in Nat : AllAcked(t) => AllAcked(t)'
  BY <1>1, <1>2 DEF AllAcked, Quiet, Acks, NoTx, NoRx, I2TxSet, I2RxSet
<1>10. \A t \in Nat : WriteStopped(t) => WriteStopped(t)'
  BY <1>1, <1>2 DEF WriteStopped, Quiet, Acks, NoTx, NoRx, I2TxSet, I2RxSet
<1>11. \A r, lo, n \in Nat, m \in Modes : Receiving(r, lo, n, m) => Receiving(r, lo, n, m)'
  BY <1>1, <1>2 DEF Receiving, Quiet, Acks, Stored, Taken, NoTx, NoRx, I2TxSet, I2RxSet
<1>12. \A r, lo, n \in Nat, m \in Modes : ReadStopped(r, lo, n, m) => ReadStopped(r, lo, n, m)'
  BY <1>1, <1>2 DEF ReadStopped, Quiet, Acks, Stored, Taken, NoTx, NoRx, I2TxSet, I2RxSet
<1> QED BY <1>2, <1>3, <1>4, <1>5, <1>6, <1>7, <1>8, <1>9, <1>10, <1>11, <1>12
     DEF PhasesKept, StartsKept, AddressesKept, WritesKept, ReadsKept

\* A byte received keeps every phase.
LEMMA I2ByteReceivedKept ==
  ASSUME I2BlockTypes, I2BusTypes, ByteReceived
  PROVE  PhasesKept
<1>1. /\ ctl \in I2CtlSet /\ rx \in I2RxSet /\ tx \in I2TxSet
  BY DEF I2BlockTypes, I2BusTypes
<1>2. /\ ph = "rx" /\ ~rx.nacked /\ rx.sh = None
      /\ rx'.clocked = rx.clocked + 1 /\ rx'.nacked = ~AckNext
      /\ rx'.dr = (IF rx.dr = None THEN rx.clocked + 1 ELSE rx.dr)
      /\ rx'.sh = (IF rx.dr = None THEN None ELSE rx.clocked + 1)
      /\ ctl' = ctl /\ err' = err /\ ph' = ph /\ dir' = dir /\ tx' = tx /\ nack' = nack /\ rcv' = rcv
  BY <1>1 DEF ByteReceived, CanReceive, Bus, regs
<1>a. rx.clocked \in Nat /\ rx.dr \in Nat /\ rx.nacked \in BOOLEAN
  BY <1>1 DEF I2RxSet
<1>3. \A m \in Modes : Ready(m) => Ready(m)'
  BY <1>1, <1>2 DEF Ready, Quiet, Acks
<1>4. \A m \in Modes : Started(m) => Started(m)'
  BY <1>1, <1>2 DEF Started, Quiet, Acks
<1>5. \A m \in Modes : StartSeen(m) => StartSeen(m)'
  BY <1>1, <1>2 DEF StartSeen, Quiet, Acks
<1>6. \A a \in {"r", "w"}, m \in Modes : Addressed(a, m) => Addressed(a, m)'
  BY <1>1, <1>2 DEF Addressed, Quiet, Acks
<1>7. \A a \in {"r", "w"}, m \in Modes : Answered(a, m) => Answered(a, m)'
  BY <1>1, <1>2 DEF Answered, Quiet, Acks
<1>8. \A t \in Nat : Sending(t) => Sending(t)'
  BY <1>1, <1>2 DEF Sending, Quiet, Acks
<1>9. \A t \in Nat : AllAcked(t) => AllAcked(t)'
  BY <1>1, <1>2 DEF AllAcked, Quiet, Acks
<1>10. \A t \in Nat : WriteStopped(t) => WriteStopped(t)'
  BY <1>1, <1>2 DEF WriteStopped, Quiet, Acks
\* A byte clocked in with a NACK if it is the last of the read.
<1>11. ASSUME NEW r \in Nat, NEW lo \in Nat, NEW n \in Nat, Taken(r, lo, n), rx.clocked < n => (AckNext <=> rx.clocked + 1 < n)
       PROVE  Taken(r, lo, n)'
  <2>1. /\ rx.clocked >= lo /\ rx.clocked >= r /\ rx.clocked <= r + 2 /\ rx.clocked <= n
        /\ rx.dr = (IF rx.clocked > r THEN r + 1 ELSE None)
        /\ rx.sh = (IF rx.clocked = r + 2 THEN r + 2 ELSE None)
        /\ rx.nacked <=> rx.clocked = n
    BY <1>11 DEF Taken
  <2>2. rx.clocked < n /\ rx.clocked < r + 2
    BY <1>2, <1>a, <2>1 DEF None
  <2>3. rx'.clocked >= lo /\ rx'.clocked >= r /\ rx'.clocked <= r + 2 /\ rx'.clocked <= n
    BY <1>2, <1>a, <2>1, <2>2
  <2>4. rx'.dr = IF rx'.clocked > r THEN r + 1 ELSE None
    BY <1>2, <1>a, <2>1, <2>2 DEF None
  <2>5. rx'.sh = IF rx'.clocked = r + 2 THEN r + 2 ELSE None
    BY <1>2, <1>a, <2>1, <2>2 DEF None
  <2>6. rx'.nacked <=> rx'.clocked = n
    <3>1. AckNext <=> rx.clocked + 1 < n
      BY <1>11, <2>2
    <3>2. rx'.nacked <=> ~AckNext
      BY <1>2 DEF AckNext
    <3>3. rx'.clocked = n <=> ~(rx.clocked + 1 < n)
      BY <1>2, <1>a, <2>2
    <3> QED BY <3>1, <3>2, <3>3
  <2> QED BY <2>3, <2>4, <2>5, <2>6 DEF Taken
<1>12. ASSUME NEW r \in Nat, NEW lo \in Nat, NEW n \in Nat, NEW m \in Modes, Receiving(r, lo, n, m)
       PROVE  Receiving(r, lo, n, m)'
  <2>1. Quiet /\ Acks(m) /\ Stored(r) /\ Taken(r, lo, n) /\ Suits(r, lo, n, m) /\ dir = "r"
    BY <1>12 DEF Receiving
  <2>2. /\ rx.clocked >= lo /\ rx.clocked < r + 2 /\ (rx.clocked = n <=> rx.nacked)
    BY <1>2, <1>a, <2>1 DEF Taken, None
  <2>3. rx.clocked < n => (AckNext <=> rx.clocked + 1 < n)
    <3>1. CASE m = "on" /\ (r + 2 < n \/ (lo = r + 2 /\ lo < n))
      BY <1>a, <2>1, <2>2, <3>1 DEF Acks, AckNext
    <3>2. CASE m = "off" /\ lo >= n - 1
      BY <1>a, <2>1, <2>2, <3>2 DEF Acks, AckNext
    <3>3. CASE m = "second" /\ n = 2
      BY <1>a, <2>1, <2>2, <3>3 DEF Acks, AckNext
    <3> QED BY <2>1, <3>1, <3>2, <3>3 DEF Suits
  <2>4. Taken(r, lo, n)'
    BY <1>11, <2>1, <2>3
  <2>5. Quiet' /\ Acks(m)' /\ Stored(r)'
    BY <1>2, <2>1 DEF Quiet, Acks, Stored
  <2>6. Suits(r, lo, n, m)'
    BY <2>1 DEF Suits
  <2> QED BY <1>2, <2>1, <2>4, <2>5, <2>6 DEF Receiving
<1>13. ASSUME NEW r \in Nat, NEW lo \in Nat, NEW n \in Nat, NEW m \in Modes, ReadStopped(r, lo, n, m)
       PROVE  ReadStopped(r, lo, n, m)'
  <2>1. ~ctl.start /\ Acks(m) /\ dir = "r" /\ Stored(r) /\ Taken(r, lo, n) /\ (lo = n \/ (n = 1 /\ m = "off")) /\ ctl.stop
    BY <1>2, <1>13 DEF ReadStopped
  <2>2. /\ rx.clocked >= lo /\ rx.clocked <= n /\ (rx.clocked = n <=> rx.nacked)
    BY <1>2, <1>a, <2>1 DEF Taken
  <2>3. rx.clocked < n => (AckNext <=> rx.clocked + 1 < n)
    <3>1. CASE lo = n
      BY <1>a, <2>2, <3>1
    <3>2. CASE n = 1 /\ m = "off"
      BY <1>a, <2>1, <2>2, <3>2 DEF Acks, AckNext
    <3> QED BY <2>1, <3>1, <3>2
  <2>4. Taken(r, lo, n)'
    BY <1>11, <2>1, <2>3
  <2>5. Acks(m)' /\ Stored(r)'
    BY <1>2, <2>1 DEF Acks, Stored
  <2> QED BY <1>2, <2>1, <2>4, <2>5 DEF ReadStopped
<1> QED BY <1>2, <1>3, <1>4, <1>5, <1>6, <1>7, <1>8, <1>9, <1>10, <1>12, <1>13
     DEF PhasesKept, StartsKept, AddressesKept, WritesKept, ReadsKept

---------------------------------------------------------------------------
\* What a step of the bus leaves alone, and what else it may do.
BusLeaves ==
  /\ mode' = mode /\ ops' = ops /\ fresh' = fresh /\ left' = left /\ budget' = budget /\ todo' = todo
  /\ res' = res /\ rmw' = rmw /\ rcv' = rcv /\ polls' = polls /\ held' = held
BusFaults ==
  /\ fault \subseteq fault' /\ (err' # err => fault' # {}) /\ err \subseteq err'
  /\ "AERR" \in err' /\ "AERR" \notin err =>
       /\ ph = "addr" \/ (ph = "tx" /\ tx.queued > 0)
       /\ ph' = "hold" /\ (mode = "recover" => "late" \in fault')
BusRequests ==
  /\ (ctl'.start => ctl.start) /\ (ctl'.stop => ctl.stop) /\ ctl'.poap = ctl.poap
  /\ ctl' # ctl => ctl.start \/ rmw = <<>>
  /\ ctl.stop /\ ~ctl'.stop => ph' = "free"
BusMoves ==
  /\ Settled => Settled'
  /\ ph = "free" /\ (held > 0 \/ ~ctl.start) => ph' = "free"
  /\ ph \in {"free", "sb"} /\ ~ctl.stop => ph' \in {"free", "sb"}
  /\ ph = "wedged" => ph' = "wedged"
  /\ ph = "hold" /\ ~ctl.stop => ph' = "hold"
  /\ ph = "tx" /\ tx.queued = 0 /\ Quiet => ph' = "tx"
BusStep == BusLeaves /\ BusFaults /\ BusRequests /\ BusMoves /\ PhasesKept /\ I2BlockTypes' /\ I2BusTypes' /\ I2HistTypes'

\* Sending a START is a step of the bus.
LEMMA I2StartSentStep ==
  ASSUME I2BlockTypes, I2BusTypes, I2HistTypes, ~StopMidModify, StartSent
  PROVE  BusStep
<1>1. /\ ctl \in I2CtlSet /\ rx \in I2RxSet /\ tx \in I2TxSet
  BY DEF I2BlockTypes, I2BusTypes
<1>2. BusLeaves
  BY DEF BusLeaves, Bus, call, StartSent, CanStart
<1>3. BusFaults
  BY I2cAssumption DEF BusFaults, StartSent, CanStart
<1>4. BusRequests
  BY <1>1 DEF BusRequests, I2CtlSet, StartSent, CanStart
<1>5. BusMoves
  BY <1>1 DEF BusMoves, Settled, Quiet, I2CtlSet, StartSent, CanStart
<1>6. I2BlockTypes'
  <2>1. ctl' \in I2CtlSet
    BY <1>1 DEF I2CtlSet, StartSent, CanStart
  <2>2. err' \subseteq I2Errors
    BY I2cAssumption DEF I2BlockTypes, I2Errors, StartSent, CanStart
  <2> QED BY <1>2, <2>1, <2>2 DEF I2BlockTypes, BusLeaves
<1>7. I2BusTypes'
  <2>1. rx' \in I2RxSet /\ tx' \in I2TxSet
    BY <1>1 DEF I2RxSet, I2TxSet, NoTx, None, AckNext, I2CtlSet, StartSent, CanStart
  <2>2. ph' \in I2Phases /\ dir' = dir
    BY DEF I2BusTypes, I2Phases, StartSent, CanStart
  <2> QED BY <1>2, <2>1, <2>2 DEF I2BusTypes, BusLeaves
<1>8. I2HistTypes'
  <2>1. fault' \subseteq {"late", "fresh"} /\ nack' \in {"none", "address", "data"}
    BY DEF I2HistTypes, StartSent, CanStart
  <2> QED BY <1>2, <2>1 DEF I2HistTypes, BusLeaves
<1> QED BY <1>2, <1>3, <1>4, <1>5, <1>6, <1>7, <1>8, I2StartSentKept DEF BusStep

\* An acknowledged address is a step of the bus.
LEMMA I2AddressAckedStep ==
  ASSUME I2BlockTypes, I2BusTypes, I2HistTypes, ~StopMidModify, AddressAcked
  PROVE  BusStep
<1>1. /\ ctl \in I2CtlSet /\ rx \in I2RxSet /\ tx \in I2TxSet
  BY DEF I2BlockTypes, I2BusTypes
<1>2. BusLeaves
  BY DEF BusLeaves, Bus, call, AddressAcked, regs
<1>3. BusFaults
  BY I2cAssumption DEF BusFaults, AddressAcked, regs
<1>4. BusRequests
  BY <1>1 DEF BusRequests, I2CtlSet, AddressAcked, regs
<1>5. BusMoves
  BY <1>1 DEF BusMoves, Settled, Quiet, I2CtlSet, AddressAcked, regs
<1>6. I2BlockTypes'
  <2>1. ctl' \in I2CtlSet
    BY <1>1 DEF I2CtlSet, AddressAcked, regs
  <2>2. err' \subseteq I2Errors
    BY I2cAssumption DEF I2BlockTypes, I2Errors, AddressAcked, regs
  <2> QED BY <1>2, <2>1, <2>2 DEF I2BlockTypes, BusLeaves
<1>7. I2BusTypes'
  <2>1. rx' \in I2RxSet /\ tx' \in I2TxSet
    BY <1>1 DEF I2RxSet, I2TxSet, NoTx, None, AckNext, I2CtlSet, AddressAcked, regs
  <2>2. ph' \in I2Phases /\ dir' = dir
    BY DEF I2BusTypes, I2Phases, AddressAcked, regs
  <2> QED BY <1>2, <2>1, <2>2 DEF I2BusTypes, BusLeaves
<1>8. I2HistTypes'
  <2>1. fault' \subseteq {"late", "fresh"} /\ nack' \in {"none", "address", "data"}
    BY DEF I2HistTypes, AddressAcked, regs
  <2> QED BY <1>2, <2>1 DEF I2HistTypes, BusLeaves
<1> QED BY <1>2, <1>3, <1>4, <1>5, <1>6, <1>7, <1>8, I2AddressAckedKept DEF BusStep

\* A refused address is a step of the bus.
LEMMA I2AddressRefusedStep ==
  ASSUME I2BlockTypes, I2BusTypes, I2HistTypes, ~StopMidModify, AddressRefused
  PROVE  BusStep
<1>1. /\ ctl \in I2CtlSet /\ rx \in I2RxSet /\ tx \in I2TxSet
  BY DEF I2BlockTypes, I2BusTypes
<1>2. BusLeaves
  BY DEF BusLeaves, Bus, call, AddressRefused, Fault
<1>3. BusFaults
  BY I2cAssumption DEF BusFaults, AddressRefused, Fault
<1>4. BusRequests
  BY <1>1 DEF BusRequests, I2CtlSet, AddressRefused, Fault
<1>5. BusMoves
  BY <1>1 DEF BusMoves, Settled, Quiet, I2CtlSet, AddressRefused, Fault
<1>6. I2BlockTypes'
  <2>1. ctl' \in I2CtlSet
    BY <1>1 DEF I2CtlSet, AddressRefused, Fault
  <2>2. err' \subseteq I2Errors
    BY I2cAssumption DEF I2BlockTypes, I2Errors, AddressRefused, Fault
  <2> QED BY <1>2, <2>1, <2>2 DEF I2BlockTypes, BusLeaves
<1>7. I2BusTypes'
  <2>1. rx' \in I2RxSet /\ tx' \in I2TxSet
    BY <1>1 DEF I2RxSet, I2TxSet, NoTx, None, AckNext, I2CtlSet, AddressRefused, Fault
  <2>2. ph' \in I2Phases /\ dir' = dir
    BY DEF I2BusTypes, I2Phases, AddressRefused, Fault
  <2> QED BY <1>2, <2>1, <2>2 DEF I2BusTypes, BusLeaves
<1>8. I2HistTypes'
  <2>1. fault' \subseteq {"late", "fresh"} /\ nack' \in {"none", "address", "data"}
    BY DEF I2HistTypes, AddressRefused, Fault
  <2> QED BY <1>2, <2>1 DEF I2HistTypes, BusLeaves
<1> QED BY <1>2, <1>3, <1>4, <1>5, <1>6, <1>7, <1>8, I2AddressRefusedKept DEF BusStep

\* A byte received is a step of the bus.
LEMMA I2ByteReceivedStep ==
  ASSUME I2BlockTypes, I2BusTypes, I2HistTypes, ~StopMidModify, ByteReceived
  PROVE  BusStep
<1>1. /\ ctl \in I2CtlSet /\ rx \in I2RxSet /\ tx \in I2TxSet
  BY DEF I2BlockTypes, I2BusTypes
<1>2. BusLeaves
  BY DEF BusLeaves, Bus, call, ByteReceived, CanReceive, regs
<1>3. BusFaults
  BY I2cAssumption DEF BusFaults, ByteReceived, CanReceive, regs
<1>4. BusRequests
  BY <1>1 DEF BusRequests, I2CtlSet, ByteReceived, CanReceive, regs
<1>5. BusMoves
  BY <1>1 DEF BusMoves, Settled, Quiet, I2CtlSet, ByteReceived, CanReceive, regs
<1>6. I2BlockTypes'
  <2>1. ctl' \in I2CtlSet
    BY <1>1 DEF I2CtlSet, ByteReceived, CanReceive, regs
  <2>2. err' \subseteq I2Errors
    BY I2cAssumption DEF I2BlockTypes, I2Errors, ByteReceived, CanReceive, regs
  <2> QED BY <1>2, <2>1, <2>2 DEF I2BlockTypes, BusLeaves
<1>7. I2BusTypes'
  <2>1. rx' \in I2RxSet /\ tx' \in I2TxSet
    BY <1>1 DEF I2RxSet, I2TxSet, NoTx, None, AckNext, I2CtlSet, ByteReceived, CanReceive, regs
  <2>2. ph' \in I2Phases /\ dir' = dir
    BY DEF I2BusTypes, I2Phases, ByteReceived, CanReceive, regs
  <2> QED BY <1>2, <2>1, <2>2 DEF I2BusTypes, BusLeaves
<1>8. I2HistTypes'
  <2>1. fault' \subseteq {"late", "fresh"} /\ nack' \in {"none", "address", "data"}
    BY DEF I2HistTypes, ByteReceived, CanReceive, regs
  <2> QED BY <1>2, <2>1 DEF I2HistTypes, BusLeaves
<1> QED BY <1>2, <1>3, <1>4, <1>5, <1>6, <1>7, <1>8, I2ByteReceivedKept DEF BusStep

\* An acknowledged byte is a step of the bus.
LEMMA I2ByteAckedStep ==
  ASSUME I2BlockTypes, I2BusTypes, I2HistTypes, ~StopMidModify, ByteAcked
  PROVE  BusStep
<1>1. /\ ctl \in I2CtlSet /\ rx \in I2RxSet /\ tx \in I2TxSet
  BY DEF I2BlockTypes, I2BusTypes
<1>2. BusLeaves
  BY DEF BusLeaves, Bus, call, ByteAcked, CanTransmit, regs
<1>3. BusFaults
  BY I2cAssumption DEF BusFaults, ByteAcked, CanTransmit, regs
<1>4. BusRequests
  BY <1>1 DEF BusRequests, I2CtlSet, ByteAcked, CanTransmit, regs
<1>5. BusMoves
  BY <1>1 DEF BusMoves, Settled, Quiet, I2CtlSet, ByteAcked, CanTransmit, regs
<1>6. I2BlockTypes'
  <2>1. ctl' \in I2CtlSet
    BY <1>1 DEF I2CtlSet, ByteAcked, CanTransmit, regs
  <2>2. err' \subseteq I2Errors
    BY I2cAssumption DEF I2BlockTypes, I2Errors, ByteAcked, CanTransmit, regs
  <2> QED BY <1>2, <2>1, <2>2 DEF I2BlockTypes, BusLeaves
<1>7. I2BusTypes'
  <2>1. rx' \in I2RxSet /\ tx' \in I2TxSet
    BY <1>1 DEF I2RxSet, I2TxSet, NoTx, None, AckNext, I2CtlSet, ByteAcked, CanTransmit, regs
  <2>2. ph' \in I2Phases /\ dir' = dir
    BY DEF I2BusTypes, I2Phases, ByteAcked, CanTransmit, regs
  <2> QED BY <1>2, <2>1, <2>2 DEF I2BusTypes, BusLeaves
<1>8. I2HistTypes'
  <2>1. fault' \subseteq {"late", "fresh"} /\ nack' \in {"none", "address", "data"}
    BY DEF I2HistTypes, ByteAcked, CanTransmit, regs
  <2> QED BY <1>2, <2>1 DEF I2HistTypes, BusLeaves
<1> QED BY <1>2, <1>3, <1>4, <1>5, <1>6, <1>7, <1>8, I2ByteAckedKept DEF BusStep

\* A refused byte is a step of the bus.
LEMMA I2ByteRefusedStep ==
  ASSUME I2BlockTypes, I2BusTypes, I2HistTypes, ~StopMidModify, ByteRefused
  PROVE  BusStep
<1>1. /\ ctl \in I2CtlSet /\ rx \in I2RxSet /\ tx \in I2TxSet
  BY DEF I2BlockTypes, I2BusTypes
<1>2. BusLeaves
  BY DEF BusLeaves, Bus, call, ByteRefused, CanTransmit, Fault
<1>3. BusFaults
  BY I2cAssumption DEF BusFaults, ByteRefused, CanTransmit, Fault
<1>4. BusRequests
  BY <1>1 DEF BusRequests, I2CtlSet, ByteRefused, CanTransmit, Fault
<1>5. BusMoves
  BY <1>1 DEF BusMoves, Settled, Quiet, I2CtlSet, ByteRefused, CanTransmit, Fault
<1>6. I2BlockTypes'
  <2>1. ctl' \in I2CtlSet
    BY <1>1 DEF I2CtlSet, ByteRefused, CanTransmit, Fault
  <2>2. err' \subseteq I2Errors
    BY I2cAssumption DEF I2BlockTypes, I2Errors, ByteRefused, CanTransmit, Fault
  <2> QED BY <1>2, <2>1, <2>2 DEF I2BlockTypes, BusLeaves
<1>7. I2BusTypes'
  <2>1. rx' \in I2RxSet /\ tx' \in I2TxSet
    BY <1>1 DEF I2RxSet, I2TxSet, NoTx, None, AckNext, I2CtlSet, ByteRefused, CanTransmit, Fault
  <2>2. ph' \in I2Phases /\ dir' = dir
    BY DEF I2BusTypes, I2Phases, ByteRefused, CanTransmit, Fault
  <2> QED BY <1>2, <2>1, <2>2 DEF I2BusTypes, BusLeaves
<1>8. I2HistTypes'
  <2>1. fault' \subseteq {"late", "fresh"} /\ nack' \in {"none", "address", "data"}
    BY DEF I2HistTypes, ByteRefused, CanTransmit, Fault
  <2> QED BY <1>2, <2>1 DEF I2HistTypes, BusLeaves
<1> QED BY <1>2, <1>3, <1>4, <1>5, <1>6, <1>7, <1>8, I2ByteRefusedKept DEF BusStep

\* A STOP that finishes outside a modify is a step of the bus.
LEMMA I2StopSentStep ==
  ASSUME I2BlockTypes, I2BusTypes, I2HistTypes, ~StopMidModify, StopSent
  PROVE  BusStep
<1>1. /\ ctl \in I2CtlSet /\ rx \in I2RxSet /\ tx \in I2TxSet
  BY DEF I2BlockTypes, I2BusTypes
<1>2. BusLeaves
  BY DEF BusLeaves, Bus, call, StopSent, CanStop
<1>3. BusFaults
  BY I2cAssumption DEF BusFaults, StopSent, CanStop
<1>4. BusRequests
  BY <1>1 DEF BusRequests, I2CtlSet, StopSent, CanStop
<1>5. BusMoves
  BY <1>1 DEF BusMoves, Settled, Quiet, I2CtlSet, StopSent, CanStop
<1>6. I2BlockTypes'
  <2>1. ctl' \in I2CtlSet
    BY <1>1 DEF I2CtlSet, StopSent, CanStop
  <2>2. err' \subseteq I2Errors
    BY I2cAssumption DEF I2BlockTypes, I2Errors, StopSent, CanStop
  <2> QED BY <1>2, <2>1, <2>2 DEF I2BlockTypes, BusLeaves
<1>7. I2BusTypes'
  <2>1. rx' \in I2RxSet /\ tx' \in I2TxSet
    BY <1>1 DEF I2RxSet, I2TxSet, NoTx, None, AckNext, I2CtlSet, StopSent, CanStop
  <2>2. ph' \in I2Phases /\ dir' = dir
    BY DEF I2BusTypes, I2Phases, StopSent, CanStop
  <2> QED BY <1>2, <2>1, <2>2 DEF I2BusTypes, BusLeaves
<1>8. I2HistTypes'
  <2>1. fault' \subseteq {"late", "fresh"} /\ nack' \in {"none", "address", "data"}
    BY DEF I2HistTypes, StopSent, CanStop
  <2> QED BY <1>2, <2>1 DEF I2HistTypes, BusLeaves
<1> QED BY <1>2, <1>3, <1>4, <1>5, <1>6, <1>7, <1>8, I2StopSentKept DEF BusStep

\* A wedged bus is a step of the bus.
LEMMA I2WedgeStep ==
  ASSUME I2BlockTypes, I2BusTypes, I2HistTypes, ~StopMidModify, Wedge
  PROVE  BusStep
<1>1. /\ ctl \in I2CtlSet /\ rx \in I2RxSet /\ tx \in I2TxSet
  BY DEF I2BlockTypes, I2BusTypes
<1>2. BusLeaves
  BY DEF BusLeaves, Bus, call, Wedge, CanStop, regs
<1>3. BusFaults
  BY I2cAssumption DEF BusFaults, Wedge, CanStop, regs
<1>4. BusRequests
  BY <1>1 DEF BusRequests, I2CtlSet, Wedge, CanStop, regs
<1>5. BusMoves
  BY <1>1 DEF BusMoves, Settled, Quiet, I2CtlSet, Wedge, CanStop, regs
<1>6. I2BlockTypes'
  <2>1. ctl' \in I2CtlSet
    BY <1>1 DEF I2CtlSet, Wedge, CanStop, regs
  <2>2. err' \subseteq I2Errors
    BY I2cAssumption DEF I2BlockTypes, I2Errors, Wedge, CanStop, regs
  <2> QED BY <1>2, <2>1, <2>2 DEF I2BlockTypes, BusLeaves
<1>7. I2BusTypes'
  <2>1. rx' \in I2RxSet /\ tx' \in I2TxSet
    BY <1>1 DEF I2RxSet, I2TxSet, NoTx, None, AckNext, I2CtlSet, Wedge, CanStop, regs
  <2>2. ph' \in I2Phases /\ dir' = dir
    BY DEF I2BusTypes, I2Phases, Wedge, CanStop, regs
  <2> QED BY <1>2, <2>1, <2>2 DEF I2BusTypes, BusLeaves
<1>8. I2HistTypes'
  <2>1. fault' \subseteq {"late", "fresh"} /\ nack' \in {"none", "address", "data"}
    BY DEF I2HistTypes, Wedge, CanStop, regs
  <2> QED BY <1>2, <2>1 DEF I2HistTypes, BusLeaves
<1> QED BY <1>2, <1>3, <1>4, <1>5, <1>6, <1>7, <1>8, I2WedgeKept DEF BusStep

\* A bus error is a step of the bus.
LEMMA I2BusErrorStep ==
  ASSUME I2BlockTypes, I2BusTypes, I2HistTypes, ~StopMidModify, NEW e \in BusErrors, BusError(e)
  PROVE  BusStep
<1>1. /\ ctl \in I2CtlSet /\ rx \in I2RxSet /\ tx \in I2TxSet
  BY DEF I2BlockTypes, I2BusTypes
<1>2. BusLeaves
  BY DEF BusLeaves, Bus, call, BusError, Fault
<1>3. BusFaults
  BY I2cAssumption DEF BusFaults, BusError, Fault
<1>4. BusRequests
  BY <1>1 DEF BusRequests, I2CtlSet, BusError, Fault
<1>5. BusMoves
  BY <1>1 DEF BusMoves, Settled, Quiet, I2CtlSet, BusError, Fault
<1>6. I2BlockTypes'
  <2>1. ctl' \in I2CtlSet
    BY <1>1 DEF I2CtlSet, BusError, Fault
  <2>2. err' \subseteq I2Errors
    BY I2cAssumption DEF I2BlockTypes, I2Errors, BusError, Fault
  <2> QED BY <1>2, <2>1, <2>2 DEF I2BlockTypes, BusLeaves
<1>7. I2BusTypes'
  <2>1. rx' \in I2RxSet /\ tx' \in I2TxSet
    BY <1>1 DEF I2RxSet, I2TxSet, NoTx, None, AckNext, I2CtlSet, BusError, Fault
  <2>2. ph' \in I2Phases /\ dir' = dir
    BY DEF I2BusTypes, I2Phases, BusError, Fault
  <2> QED BY <1>2, <2>1, <2>2 DEF I2BusTypes, BusLeaves
<1>8. I2HistTypes'
  <2>1. fault' \subseteq {"late", "fresh"} /\ nack' \in {"none", "address", "data"}
    BY DEF I2HistTypes, BusError, Fault
  <2> QED BY <1>2, <2>1 DEF I2HistTypes, BusLeaves
<1> QED BY <1>2, <1>3, <1>4, <1>5, <1>6, <1>7, <1>8, I2BusErrorKept DEF BusStep

\* Whatever the environment does is a step of the bus.
LEMMA I2BusStep ==
  ASSUME I2Types, ~StopMidModify, Environment
  PROVE  BusStep
<1>1. I2BlockTypes /\ I2BusTypes /\ I2HistTypes
  BY DEF I2Types
<1> QED BY <1>1, I2StartSentStep, I2AddressAckedStep, I2AddressRefusedStep, I2ByteReceivedStep, I2ByteAckedStep,
           I2ByteRefusedStep, I2StopSentStep, I2WedgeStep, I2BusErrorStep DEF Environment

\* A transfer never loses the bus, and requests no STOP while a refusal waits.
LEMMA I2RunStages ==
  ASSUME I2Types, ops # <<>>, Head(ops) # [kind |-> "read", n |-> 0],
         NEW d \in 0 .. Len(Inner(Head(ops))), TransferAt(d)
  PROVE  ph # "wedged" /\ (ph = "hold" => ~ctl.stop)
<1>1. ops \in Seq(Operation)
  BY DEF I2Types, I2CallTypes
<1>2. CASE todo = <<>>
  <2>1. PICK n \in Nat : n = Head(ops).n
    BY <1>1, I2Kinds
  <2>2. WriteStopped(n) \/ AllAcked(n) \/ ReadStopped(n, n, n, "on")
    BY <1>1, <1>2, <2>1, I2RunDone
  <2> QED BY <2>2 DEF WriteStopped, AllAcked, ReadStopped
<1>3. CASE todo # <<>>
  <2>1. Row(d)
    BY <1>1, <1>3, I2RunRow
  <2>2. CASE ModifyRow(d)
    BY <2>2 DEF ModifyRow, Ready, ReadStopped, Addressed, Receiving, AllAcked, Quiet
  <2>3. CASE AddressRow(d)
    BY <2>3 DEF AddressRow, StartSeen
  <2>4. CASE ClearRow(d)
    BY <2>4 DEF ClearRow, Answered
  <2>5. CASE DataRow(d)
    BY <2>5 DEF DataRow, Sending, Receiving, ReadStopped, Quiet
  <2>6. CASE WaitRow(d)
    BY <2>6 DEF WaitRow, Started, Addressed, Sending, Receiving, ReadStopped, Quiet
  <2> QED BY <2>1, <2>2, <2>3, <2>4, <2>5, <2>6 DEF Row
<1> QED BY <1>2, <1>3

\* The bus keeps recovery where it is.
LEMMA I2RecoverKept ==
  ASSUME I2Types, BusStep, NEW k \in 0 .. 9, RecoverAt(k), mode = "recover"
  PROVE  RecoverAt(k)'
<1>1. /\ res' = res /\ rmw' = rmw /\ left' = left /\ budget' = budget /\ polls' = polls /\ held' = held /\ mode' = mode
      /\ todo' = todo
  BY DEF BusStep, BusLeaves
<1>2. todo' = Left(RecoverInner, k)
  BY <1>1 DEF RecoverAt
<1>3. res' = "Ok" => ~ctl'.start /\ (rmw' # <<>> => ~rmw'[1].start) /\ left' > 0
  BY <1>1 DEF RecoverAt, BusStep, BusRequests
<1>4. k > 0 => ("AERR" \in err' => "late" \in fault')
  BY DEF RecoverAt, BusStep, BusFaults
<1>5. /\ k < 2 => polls' + left' <= PollBudget + IdleBudget + 1 /\ (res' = "Ok" => polls' + left' <= PollBudget + 1)
      /\ k \in {2, 3} => /\ budget' > 0 /\ polls' + budget' <= PollBudget + 2 * IdleBudget + 1
                         /\ res' = "Ok" => polls' + left' + budget' <= PollBudget + IdleBudget + 1
  BY <1>1 DEF RecoverAt
<1>6. /\ k = 3 /\ ~ctl'.stop => ph' \in {"free", "sb"} /\ (res' = "Ok" => ph' = "free")
      /\ k = 4 /\ ~ctl'.stop => ph' \in {"free", "sb", "wedged"} /\ (res' = "Ok" => ph' \in {"free", "wedged"})
      /\ k = 5 /\ ~ctl'.stop => ph' \in {"free", "sb"} /\ (res' = "Ok" => ph' = "free")
  <2>1. CASE ctl.stop
    BY <2>1 DEF BusStep, BusRequests
  <2>2. CASE ~ctl.stop
    BY <1>1, <2>2 DEF RecoverAt, BusStep, BusMoves
  <2> QED BY <2>1, <2>2
<1>7. k = 5 => held' = 0
  BY <1>1 DEF RecoverAt
<1>8. k >= 7 => Settled' /\ ~ctl'.stop /\ Whole' /\ ph' \in {"free", "sb"}
  <2>1. SUFFICES ASSUME k >= 7 PROVE Settled' /\ ~ctl'.stop /\ Whole' /\ ph' \in {"free", "sb"}
    OBVIOUS
  <2>2. Settled /\ ~ctl.stop /\ Whole /\ ph \in {"free", "sb"}
    BY <2>1 DEF RecoverAt
  <2>3. ~ctl.start
    BY <2>2 DEF Settled
  <2>4. Whole'
    BY <1>1, <2>2, <2>3 DEF Whole, BusStep, BusRequests
  <2> QED BY <2>2, <2>3, <2>4 DEF BusStep, BusMoves, BusRequests
<1>9. k >= 7 /\ res' = "Ok" => ph' = "free"
  <2>1. k >= 7 /\ res' = "Ok" => ph = "free" /\ ~ctl.start
    BY <1>1 DEF RecoverAt, Settled
  <2> QED BY <2>1 DEF BusStep, BusMoves
<1>10. k >= 8 => ~ctl'.poap
  BY DEF RecoverAt, BusStep, BusRequests
<1> QED BY <1>2, <1>3, <1>4, <1>5, <1>6, <1>7, <1>8, <1>9, <1>10 DEF RecoverAt

\* A step of the bus keeps the invariant.
LEMMA I2BusKeeps ==
  ASSUME I2IInv, BusStep
  PROVE  I2IInv'
<1>1. /\ mode' = mode /\ ops' = ops /\ fresh' = fresh /\ left' = left /\ budget' = budget /\ todo' = todo
      /\ res' = res /\ rmw' = rmw /\ rcv' = rcv /\ polls' = polls /\ held' = held
  BY DEF BusStep, BusLeaves
<1>2. I2Types /\ I2cBlock /\ ModifyInv
  BY DEF I2IInv
<1>3. I2Types'
  BY <1>1, <1>2 DEF I2Types, I2CallTypes, BusStep
<1>4. mode = "run" => /\ ops \in Seq(Operation) /\ ops # <<>> /\ Head(ops) # [kind |-> "read", n |-> 0]
                      /\ RunInv /\ ph # "wedged" /\ (ph = "hold" => ~ctl.stop)
  BY <1>2, I2RunStages DEF I2IInv, RunInv, I2Types, I2CallTypes
<1>5. fault # {} => fault' # {}
  BY DEF BusStep, BusFaults
<1>6. mode \in {"idle", "gate", "recheck"} \/ (mode = "op" /\ fresh) => AtRest'
  BY DEF I2IInv, AtRest, BusStep, BusMoves, BusRequests
<1>7. mode = "op" /\ ~fresh => Kept'
  <2>1. SUFFICES ASSUME mode = "op", ~fresh PROVE Kept'
    OBVIOUS
  <2>2. Kept
    BY <2>1 DEF I2IInv
  <2>3. Ready("any")'
    BY <2>2 DEF Kept, BusStep, PhasesKept, StartsKept, Modes
  <2>4. ph' = "tx"
    BY <2>2 DEF Kept, Ready, BusStep, BusMoves
  <2> QED BY <1>1, <1>5, <2>2, <2>3, <2>4 DEF Kept
<1>8. mode = "recheck" => ph' = "free" /\ ~ctl'.stop
  BY DEF I2IInv, AtRest, Settled, BusStep, BusMoves, BusRequests
<1>9. mode = "run" => RunInv'
  <2>1. SUFFICES ASSUME mode = "run" PROVE RunInv'
    OBVIOUS
  <2>2. PICK d \in 0 .. Len(Inner(Head(ops))) : TransferAt(d)
    BY <1>4, <2>1 DEF RunInv
  <2>3. TransferAt(d)' /\ (d \in 0 .. Len(Inner(Head(ops))))'
    BY <1>1, <1>4, <2>1, <2>2, I2TransferKept DEF BusStep
  <2>4. Whole'
    BY <1>1, <1>4, <2>1 DEF RunInv, Whole, BusStep, BusRequests
  <2>5. (\E c \in 0 .. Len(Inner(Head(ops))) : TransferAt(c))'
    BY <2>3
  <2> QED BY <1>1, <1>4, <1>5, <2>1, <2>4, <2>5 DEF RunInv
<1>10. mode = "recover" => RecoverInv'
  <2>1. SUFFICES ASSUME mode = "recover" PROVE RecoverInv'
    OBVIOUS
  <2>2. PICK k \in 0 .. 9 : RecoverAt(k)
    BY <2>1 DEF I2IInv, RecoverInv
  <2>3. RecoverAt(k)'
    BY <1>2, <2>1, <2>2, I2RecoverKept
  <2>4. res' = "Ok" => polls' + left' <= PollBudget + IdleBudget + 1
    BY <1>1, <2>1 DEF I2IInv, RecoverInv
  <2> QED BY <2>3, <2>4 DEF RecoverInv
<1>11. ModifyInv'
  BY <1>1, <1>2 DEF ModifyInv
<1>12. I2cBlock'
  <2>1. held' > 0 => ph' = "free"
    BY <1>1, <1>2 DEF I2cBlock, BusStep, BusMoves
  <2>2. err' # {} => fault' # {}
    BY <1>2, <1>5 DEF I2cBlock, BusStep, BusFaults
  <2>3. mode # "recover" /\ "AERR" \in err' /\ "late" \notin fault' => mode = "run" /\ ph' = "hold"
    <3>1. SUFFICES ASSUME mode # "recover", "AERR" \in err', "late" \notin fault' PROVE mode = "run" /\ ph' = "hold"
      OBVIOUS
    <3>2. "late" \notin fault
      BY <3>1 DEF BusStep, BusFaults
    <3>3. CASE "AERR" \in err
      <4>1. mode = "run" /\ ph = "hold"
        BY <1>2, <3>1, <3>2, <3>3 DEF I2cBlock
      <4> QED BY <1>4, <4>1 DEF BusStep, BusMoves
    <3>4. CASE "AERR" \notin err
      <4>1. (ph = "addr" \/ (ph = "tx" /\ tx.queued > 0)) /\ ph' = "hold"
        BY <3>1, <3>4 DEF BusStep, BusFaults
      <4>2. mode # "idle" /\ mode # "gate" /\ mode # "recheck" /\ mode # "op"
        <5>1. ~AtRest
          BY <1>2, <4>1 DEF AtRest, Settled, I2Types, I2BusTypes, I2TxSet
        <5>2. ~Kept
          BY <1>2, <4>1 DEF Kept, Ready, I2Types, I2BusTypes, I2TxSet
        <5> QED BY <1>2, <5>1, <5>2 DEF I2IInv, I2Types, I2CallTypes
      <4> QED BY <1>2, <3>1, <4>1, <4>2 DEF I2Types, I2CallTypes
    <3> QED BY <3>3, <3>4
  <2>4. PollsBounded'
    BY <1>1, <1>2 DEF I2cBlock, PollsBounded
  <2> QED BY <1>1, <2>1, <2>2, <2>3, <2>4 DEF I2cBlock
<1> QED BY <1>1, <1>3, <1>6, <1>7, <1>8, <1>9, <1>10, <1>11, <1>12 DEF I2IInv

---------------------------------------------------------------------------
(* What each of the driver's steps does to the registers and to the bus. *)

ModifyWords == {"start", "stop", "ackOn", "ackOff", "poapOn", "poapOff"}
\* The modify of each operation changes one bit of what it read.
Modified(c, o) == [c EXCEPT ![Modifies[o][1]] = Modifies[o][2]]
OneBit(b, c, o) ==
  /\ b \in I2CtlSet /\ o \in ModifyWords
  /\ b.start = IF o = "start" THEN TRUE ELSE c.start
  /\ b.stop = IF o = "stop" THEN TRUE ELSE c.stop
  /\ b.acken = IF o = "ackOn" THEN TRUE ELSE IF o = "ackOff" THEN FALSE ELSE c.acken
  /\ b.poap = IF o = "poapOn" THEN TRUE ELSE IF o = "poapOff" THEN FALSE ELSE c.poap

\* A modify changes one bit of CTL0.
LEMMA I2ModifyOne ==
  ASSUME NEW c \in I2CtlSet, NEW o \in DOMAIN Modifies
  PROVE  OneBit(Modified(c, o), c, o)
<1>1. o \in ModifyWords
  BY DEF Modifies, ModifyWords
<1>2. CASE o = "start"
  <2>1. Modifies[o][1] = "start" /\ Modifies[o][2] = TRUE
    BY <1>2 DEF Modifies
  <2>2. Modified(c, o) = [c EXCEPT !.start = TRUE]
    BY <2>1 DEF Modified
  <2> QED BY <1>1, <1>2, <2>2 DEF OneBit, I2CtlSet
<1>3. CASE o = "stop"
  <2>1. Modifies[o][1] = "stop" /\ Modifies[o][2] = TRUE
    BY <1>3 DEF Modifies
  <2>2. Modified(c, o) = [c EXCEPT !.stop = TRUE]
    BY <2>1 DEF Modified
  <2> QED BY <1>1, <1>3, <2>2 DEF OneBit, I2CtlSet
<1>4. CASE o = "ackOn"
  <2>1. Modifies[o][1] = "acken" /\ Modifies[o][2] = TRUE
    BY <1>4 DEF Modifies
  <2>2. Modified(c, o) = [c EXCEPT !.acken = TRUE]
    BY <2>1 DEF Modified
  <2> QED BY <1>1, <1>4, <2>2 DEF OneBit, I2CtlSet
<1>5. CASE o = "ackOff"
  <2>1. Modifies[o][1] = "acken" /\ Modifies[o][2] = FALSE
    BY <1>5 DEF Modifies
  <2>2. Modified(c, o) = [c EXCEPT !.acken = FALSE]
    BY <2>1 DEF Modified
  <2> QED BY <1>1, <1>5, <2>2 DEF OneBit, I2CtlSet
<1>6. CASE o = "poapOn"
  <2>1. Modifies[o][1] = "poap" /\ Modifies[o][2] = TRUE
    BY <1>6 DEF Modifies
  <2>2. Modified(c, o) = [c EXCEPT !.poap = TRUE]
    BY <2>1 DEF Modified
  <2> QED BY <1>1, <1>6, <2>2 DEF OneBit, I2CtlSet
<1>7. CASE o = "poapOff"
  <2>1. Modifies[o][1] = "poap" /\ Modifies[o][2] = FALSE
    BY <1>7 DEF Modifies
  <2>2. Modified(c, o) = [c EXCEPT !.poap = FALSE]
    BY <2>1 DEF Modified
  <2> QED BY <1>1, <1>7, <2>2 DEF OneBit, I2CtlSet
<1> QED BY <1>1, <1>2, <1>3, <1>4, <1>5, <1>6, <1>7 DEF ModifyWords

\* The words ahead tell the rows apart.
LEMMA I2ModifyRowOnly ==
  ASSUME NEW d, Row(d), Head(todo) \in ModifyWords
  PROVE  ModifyRow(d)
<1>1. ~AddressRow(d)
  BY DEF AddressRow, ModifyWords
<1>2. ~ClearRow(d)
  BY DEF ClearRow, ModifyWords
<1>3. ~DataRow(d)
  BY DEF DataRow, ModifyWords
<1>4. ~WaitRow(d)
  BY DEF WaitRow, ModifyWords
<1> QED BY <1>1, <1>2, <1>3, <1>4 DEF Row

\* No START is pending where a transfer modifies CTL0.
LEMMA I2ModifyQuiet ==
  ASSUME NEW d, ModifyRow(d)
  PROVE  ~ctl.start
BY DEF ModifyRow, Ready, ReadStopped, Addressed, Receiving, AllAcked, Quiet

\* The write of a modify makes the next place of the transfer.
LEMMA I2ModifyRun ==
  ASSUME NEW d, ModifyRow(d), ctl \in I2CtlSet, rx \in I2RxSet, tx \in I2TxSet, NEW o \in DOMAIN Modifies, Head(todo) = o,
         ctl' = [ctl EXCEPT ![Modifies[o][1]] = Modifies[o][2]],
         ph' = ph, dir' = dir, rx' = rx, tx' = tx, err' = err, nack' = nack, rcv' = rcv
  PROVE  After(d)
<1>1. /\ ctl' \in I2CtlSet
      /\ ctl'.start = IF o = "start" THEN TRUE ELSE ctl.start
      /\ ctl'.stop = IF o = "stop" THEN TRUE ELSE ctl.stop
      /\ ctl'.acken = IF o = "ackOn" THEN TRUE ELSE IF o = "ackOff" THEN FALSE ELSE ctl.acken
      /\ ctl'.poap = IF o = "poapOn" THEN TRUE ELSE IF o = "poapOff" THEN FALSE ELSE ctl.poap
  <2>1. OneBit(Modified(ctl, o), ctl, o)
    BY I2ModifyOne
  <2>2. ctl' = Modified(ctl, o)
    BY DEF Modified
  <2> QED BY ONLY <2>1, <2>2 DEF OneBit
<1>2. CASE o = "ackOn" /\ Ready("any") /\ (Ready("on")' /\ rcv' = rcv => After(d))
  <2>1. Ready("on")'
    BY <1>1, <1>2 DEF Ready, Quiet, Acks
  <2> QED BY <1>2, <2>1
<1>3. ASSUME NEW n \in Nat, o = "ackOn", n > 0, ReadStopped(n, n, n, "off"), ReadStopped(n, n, n, "on")' => After(d)
      PROVE  After(d)
  <2>1. ReadStopped(n, n, n, "on")'
    BY <1>1, <1>3 DEF ReadStopped, Acks, Stored, Taken
  <2> QED BY <1>3, <2>1
<1>4. CASE o = "poapOn" /\ Ready("on") /\ (Ready("ahead")' /\ rcv' = rcv => After(d))
  <2>1. Ready("ahead")'
    BY <1>1, <1>4 DEF Ready, Quiet, Acks
  <2> QED BY <1>4, <2>1
<1>5. CASE o = "poapOff" /\ ReadStopped(2, 2, 2, "second") /\ (ReadStopped(2, 2, 2, "off")' => After(d))
  <2>1. ReadStopped(2, 2, 2, "off")'
    BY <1>1, <1>5 DEF ReadStopped, Acks, Stored, Taken
  <2> QED BY <1>5, <2>1
<1>6. CASE o = "ackOff" /\ Addressed("r", "on") /\ (Addressed("r", "off")' /\ rcv' = rcv => After(d))
  <2>1. Addressed("r", "off")'
    BY <1>1, <1>6 DEF Addressed, Quiet, Acks
  <2> QED BY <1>6, <2>1
<1>7. CASE o = "ackOff" /\ Addressed("r", "ahead") /\ (Addressed("r", "second")' /\ rcv' = rcv => After(d))
  <2>1. Addressed("r", "second")'
    BY <1>1, <1>7 DEF Addressed, Quiet, Acks
  <2> QED BY <1>7, <2>1
<1>8. ASSUME NEW r \in Nat, NEW lo \in Nat, NEW n \in Nat, o = "ackOff", lo + 1 = n, Receiving(r, lo, n, "on"),
             Receiving(r, lo, n, "off")' => After(d)
      PROVE  After(d)
  <2>1. Receiving(r, lo, n, "off")'
    <3>1. Suits(r, lo, n, "off")'
      BY <1>8 DEF Suits
    <3> QED BY <1>1, <1>8, <3>1 DEF Receiving, Quiet, Acks, Stored, Taken
  <2> QED BY <1>8, <2>1
<1>9. ASSUME NEW m \in {"on", "ahead"}, o = "start", Ready(m), Started(m)' /\ rcv' = rcv => After(d)
      PROVE  After(d)
  <2>1. Started(m)'
    BY <1>1, <1>9 DEF Ready, Started, Quiet, Acks
  <2> QED BY <1>9, <2>1
<1>10. ASSUME NEW t \in Nat, o = "stop", AllAcked(t), WriteStopped(t)' => After(d)
       PROVE  After(d)
  <2>1. WriteStopped(t)'
    BY <1>1, <1>10 DEF AllAcked, WriteStopped, Quiet, Acks
  <2> QED BY <1>10, <2>1
<1>11. ASSUME NEW r \in Nat, NEW lo \in Nat, NEW n \in Nat, NEW m \in {"off", "second"}, o = "stop",
              Receiving(r, lo, n, m), lo = n \/ (n = 1 /\ m = "off"), ReadStopped(r, lo, n, m)' => After(d)
       PROVE  After(d)
  <2>1. ReadStopped(r, lo, n, m)'
    BY <1>1, <1>11 DEF Receiving, ReadStopped, Quiet, Acks, Stored, Taken
  <2> QED BY <1>11, <2>1
<1> QED BY <1>2, <1>3, <1>4, <1>5, <1>6, <1>7, <1>8, <1>9, <1>10, <1>11 DEF ModifyRow

\* The address goes out, and the phase of the data begins.
LEMMA I2AddressRun ==
  ASSUME NEW d, Row(d), NEW a \in {"r", "w"}, Head(todo) = (IF a = "r" THEN "addressR" ELSE "addressW"),
         ph' = (IF ph = "sb" THEN "addr" ELSE ph), dir' = (IF ph = "sb" THEN a ELSE dir),
         rx' = (IF ph = "sb" THEN NoRx ELSE rx), ctl' = ctl, tx' = tx, rcv' = rcv
  PROVE  After(d) /\ ph = "sb"
<1>1. AddressRow(d)
  <2>1. ~ModifyRow(d)
    BY DEF ModifyRow
  <2>2. ~ClearRow(d)
    BY DEF ClearRow
  <2>3. ~DataRow(d)
    BY DEF DataRow
  <2>4. ~WaitRow(d)
    BY DEF WaitRow
  <2> QED BY <2>1, <2>2, <2>3, <2>4 DEF Row
<1>2. PICK m \in {"on", "ahead"} : StartSeen(m) /\ (Addressed(a, m)' /\ rcv' = rcv => After(d))
  BY <1>1 DEF AddressRow
<1>3. Addressed(a, m)'
  BY <1>2 DEF StartSeen, Addressed, Quiet, Acks
<1> QED BY <1>2, <1>3 DEF StartSeen

\* So does clearing ADDSEND, which ends the address phase.
LEMMA I2ClearRun ==
  ASSUME NEW d, Row(d), Head(todo) = "clear", rx \in I2RxSet,
         ph' = (IF ph # "ack" THEN ph ELSE IF dir = "r" THEN "rx" ELSE "tx"),
         ctl' = ctl, dir' = dir, rx' = rx, tx' = tx, rcv' = rcv
  PROVE  After(d) /\ ph = "ack"
<1>1. ClearRow(d)
  <2>1. ~ModifyRow(d)
    BY DEF ModifyRow
  <2>2. ~AddressRow(d)
    BY DEF AddressRow
  <2>3. ~DataRow(d)
    BY DEF DataRow
  <2>4. ~WaitRow(d)
    BY DEF WaitRow
  <2> QED BY <2>1, <2>2, <2>3, <2>4 DEF Row
<1>2. CASE Answered("w", "on") /\ (Sending(0)' /\ AllAcked(0)' => After(d))
  <2>1. Sending(0)'
    BY <1>2 DEF Answered, Sending, Quiet, Acks, NoTx
  <2>2. AllAcked(0)'
    BY <1>2 DEF Answered, AllAcked, Quiet, Acks, NoTx
  <2> QED BY <1>2, <2>1, <2>2 DEF Answered
<1>3. ASSUME NEW n \in Nat, NEW m \in {"on", "off", "second"}, n > 0, Answered("r", m), Stored(0), Suits(0, 0, n, m),
             Receiving(0, 0, n, m)' => After(d)
      PROVE  After(d) /\ ph = "ack"
  <2>1. Taken(0, 0, n)'
    BY <1>3 DEF Answered, Taken, NoRx, None
  <2>2. Stored(0)' /\ Suits(0, 0, n, m)'
    BY <1>3 DEF Stored, Suits
  <2>3. Receiving(0, 0, n, m)'
    BY <1>3, <2>1, <2>2 DEF Answered, Receiving, Quiet, Acks
  <2> QED BY <1>3, <2>3 DEF Answered
<1> QED BY <1>1, <1>2, <1>3 DEF ClearRow

\* So does a byte handed to the transmitter.
LEMMA I2TransmitRun ==
  ASSUME NEW d, Row(d), Head(todo) = "transmit", tx \in I2TxSet,
         tx' = (IF ph = "tx" THEN [tx EXCEPT !.queued = @ + 1] ELSE tx),
         ctl' = ctl, ph' = ph, rx' = rx, nack' = nack, err' = err
  PROVE  After(d)
<1>1. DataRow(d)
  <2>1. ~ModifyRow(d)
    BY DEF ModifyRow
  <2>2. ~AddressRow(d)
    BY DEF AddressRow
  <2>3. ~ClearRow(d)
    BY DEF ClearRow
  <2>4. ~WaitRow(d)
    BY DEF WaitRow
  <2> QED BY <2>1, <2>2, <2>3, <2>4 DEF Row
<1>2. PICK t \in Nat, u \in Nat : u = t + 1 /\ Sending(t) /\ (Sending(u)' => After(d))
  BY <1>1 DEF DataRow
<1>3. Sending(u)'
  BY <1>2 DEF Sending, Quiet, Acks, I2TxSet
<1> QED BY <1>2, <1>3

\* The byte read from DATA is the next one of the buffer.
LEMMA I2Append ==
  ASSUME NEW r \in Nat
  PROVE  Append([i \in 1 .. r |-> i], r + 1) = [i \in 1 .. r + 1 |-> i]
<1> DEFINE s == [i \in 1 .. r |-> i]
           a == Append(s, r + 1)
           b == [i \in 1 .. r + 1 |-> i]
<1>1. s \in Seq(Nat) /\ Len(s) = r /\ \A i \in 1 .. r : s[i] = i
  OBVIOUS
<1>2. b \in Seq(Nat) /\ Len(b) = r + 1 /\ \A i \in 1 .. r + 1 : b[i] = i
  OBVIOUS
<1> HIDE DEF s
<1>3. a \in Seq(Nat) /\ Len(a) = r + 1 /\ (\A i \in 1 .. r : a[i] = s[i]) /\ a[r + 1] = r + 1
  BY <1>1, AppendProperties
<1> HIDE DEF a, b
<1>4. \A i \in 1 .. r + 1 : a[i] = b[i]
  BY <1>1, <1>2, <1>3
<1>5. Len(a) = Len(b) /\ Len(a) = r + 1
  BY <1>2, <1>3
<1>6. a = b
  BY <1>2, <1>3, <1>4, <1>5, SeqEqual
<1> QED BY <1>6 DEF a, b, s

\* The byte a read of DATA stores is the next of the stream.
LEMMA I2TakenNext ==
  ASSUME NEW r \in Nat, NEW q \in Nat, NEW lo \in Nat, NEW n \in Nat, q = r + 1, lo >= q,
         rx \in I2RxSet, Stored(r), Taken(r, lo, n),
         rcv' = Append(rcv, rx.dr), rx' = [rx EXCEPT !.dr = rx.sh, !.sh = None]
  PROVE  Stored(q)' /\ Taken(q, lo, n)'
<1>1. /\ rx.clocked >= lo /\ rx.clocked >= r /\ rx.clocked <= r + 2 /\ rx.clocked <= n
      /\ rx.dr = (IF rx.clocked > r THEN r + 1 ELSE None)
      /\ rx.sh = (IF rx.clocked = r + 2 THEN r + 2 ELSE None)
      /\ rx.nacked <=> rx.clocked = n
  BY DEF Taken
<1>2. rx.clocked \in Nat
  BY DEF I2RxSet
<1>3. rx'.clocked = rx.clocked /\ rx'.nacked = rx.nacked /\ rx'.dr = rx.sh /\ rx'.sh = None
  BY DEF I2RxSet
<1>4. rx.dr = r + 1
  BY <1>1, <1>2
<1>5. Stored(q)'
  <2>1. rcv' = Append([i \in 1 .. r |-> i], r + 1)
    BY <1>4 DEF Stored
  <2>2. rcv' = [i \in 1 .. r + 1 |-> i]
    BY <2>1, I2Append
  <2> QED BY <2>2 DEF Stored
<1>6. Taken(q, lo, n)'
  <2>1. rx'.clocked >= lo /\ rx'.clocked >= q /\ rx'.clocked <= q + 2 /\ rx'.clocked <= n /\ (rx'.nacked <=> rx'.clocked = n)
    BY <1>1, <1>2, <1>3
  <2>2. rx'.dr = IF rx'.clocked > q THEN q + 1 ELSE None
    BY <1>1, <1>2, <1>3
  <2>3. rx'.sh = IF rx'.clocked = q + 2 THEN q + 2 ELSE None
    BY <1>1, <1>2, <1>3
  <2> QED BY <2>1, <2>2, <2>3 DEF Taken
<1> QED BY <1>5, <1>6

\* A read of DATA makes the next place of the transfer.
LEMMA I2ReceiveRun ==
  ASSUME NEW d, Row(d), Head(todo) = "receive", rx \in I2RxSet,
         rcv' = Append(rcv, rx.dr), rx' = [rx EXCEPT !.dr = rx.sh, !.sh = None],
         ctl' = ctl, ph' = ph, dir' = dir, tx' = tx
  PROVE  After(d)
<1>1. DataRow(d)
  <2>1. ~ModifyRow(d)
    BY DEF ModifyRow
  <2>2. ~AddressRow(d)
    BY DEF AddressRow
  <2>3. ~ClearRow(d)
    BY DEF ClearRow
  <2>4. ~WaitRow(d)
    BY DEF WaitRow
  <2> QED BY <2>1, <2>2, <2>3, <2>4 DEF Row
<1>2. ASSUME NEW r \in Nat, NEW q \in Nat, NEW lo \in Nat, NEW n \in Nat, NEW m \in {"on", "off"},
             q = r + 1, lo >= q, Receiving(r, lo, n, m), Suits(q, lo, n, m), Receiving(q, lo, n, m)' => After(d)
      PROVE  After(d)
  <2>1. Stored(q)' /\ Taken(q, lo, n)'
    BY <1>2, I2TakenNext DEF Receiving
  <2>2. Suits(q, lo, n, m)'
    BY <1>2 DEF Suits
  <2>3. Receiving(q, lo, n, m)'
    BY <1>2, <2>1, <2>2 DEF Receiving, Quiet, Acks
  <2> QED BY <1>2, <2>3
<1>3. ASSUME NEW r \in Nat, NEW q \in Nat, NEW lo \in Nat, NEW n \in Nat, NEW m \in {"off", "second"},
             q = r + 1, lo >= q, ReadStopped(r, lo, n, m), ReadStopped(q, lo, n, m)' => After(d)
      PROVE  After(d)
  <2>1. Stored(q)' /\ Taken(q, lo, n)'
    BY <1>3, I2TakenNext DEF ReadStopped
  <2>2. rx'.clocked = rx.clocked
    BY DEF I2RxSet
  <2>3. ReadStopped(q, lo, n, m)'
    BY <1>3, <2>1, <2>2 DEF ReadStopped, Acks
  <2> QED BY <1>3, <2>3
<1> QED BY <1>1, <1>2, <1>3 DEF DataRow

\* A wait finds one of the phases of a wait.
LEMMA I2WaitRowOnly ==
  ASSUME NEW d, Row(d), Head(todo) \in Flags
  PROVE  WaitRow(d)
<1>1. ~ModifyRow(d)
  BY DEF ModifyRow, Flags
<1>2. ~AddressRow(d)
  BY DEF AddressRow, Flags
<1>3. ~ClearRow(d)
  BY DEF ClearRow, Flags
<1>4. ~DataRow(d)
  BY DEF DataRow, Flags
<1> QED BY <1>1, <1>2, <1>3, <1>4 DEF Row

\* What each flag shows.
LEMMA I2Flags ==
  /\ Flag["SBSEND"] <=> ph = "sb"
  /\ Flag["ADDSEND"] <=> ph = "ack"
  /\ Flag["TBE"] <=> ph = "tx" /\ tx.queued < 2
  /\ Flag["RBNE"] <=> rx.dr # None
  /\ Flag["BTC"] <=> \/ ph = "tx" /\ tx.queued = 0 /\ tx.acked > 0
                     \/ rx.dr # None /\ rx.sh # None
  BY DEF Flag

\* A wait that is met finds the phase the next operation needs.
LEMMA I2WaitRun ==
  ASSUME NEW d, WaitRow(d), NEW f \in Flags, Head(todo) = f, Flag[f], rx \in I2RxSet, tx \in I2TxSet,
         ctl' = ctl, ph' = ph, dir' = dir, rx' = rx, tx' = tx, err' = err, nack' = nack, rcv' = rcv
  PROVE  After(d)
<1>0. /\ f = "SBSEND" => ph = "sb"
      /\ f = "ADDSEND" => ph = "ack"
      /\ f = "RBNE" => rx.dr # None
      /\ f = "BTC" => \/ ph = "tx" /\ tx.queued = 0 /\ tx.acked > 0
                      \/ rx.dr # None /\ rx.sh # None
  BY I2Flags, Zenon
<1>1. rx.clocked \in Nat /\ tx.queued \in Nat /\ tx.acked \in Nat /\ PhasesKept
  BY I2Unmoved DEF I2RxSet, I2TxSet
<1>2. ASSUME NEW m \in {"on", "ahead"}, f = "SBSEND", Started(m), StartSeen(m)' /\ rcv' = rcv => After(d)
      PROVE  After(d)
  <2>1. StartSeen(m)'
    BY <1>0, <1>2 DEF Started, StartSeen, Quiet, Acks
  <2> QED BY <1>2, <2>1
<1>3. ASSUME NEW a \in {"r", "w"}, NEW m \in {"on", "off", "second"}, f = "ADDSEND", Addressed(a, m),
             Answered(a, m)' /\ rcv' = rcv => After(d)
      PROVE  After(d)
  <2>1. Answered(a, m)'
    BY <1>0, <1>3 DEF Addressed, Answered, Quiet, Acks
  <2> QED BY <1>3, <2>1
<1>4. ASSUME NEW t \in Nat, f = "TBE", Sending(t), Sending(t)' => After(d)
      PROVE  After(d)
  BY <1>1, <1>4 DEF PhasesKept, WritesKept
<1>5. ASSUME NEW t \in Nat, f = "BTC", t > 0, Sending(t), AllAcked(t)' => After(d)
      PROVE  After(d)
  <2>1. CASE ph = "tx" /\ tx.queued = 0 /\ tx.acked > 0
    <3>1. tx.acked = t
      BY <1>1, <1>5, <2>1 DEF Sending
    <3>2. tx = [queued |-> 0, acked |-> t]
      BY <2>1, <3>1 DEF I2TxSet
    <3>3. AllAcked(t)'
      BY <1>5, <2>1, <3>2 DEF Sending, AllAcked, Quiet, Acks
    <3> QED BY <1>5, <3>3
  <2>2. CASE rx.dr # None /\ rx.sh # None
    BY <1>5, <2>2 DEF Sending, NoRx
  <2> QED BY <1>0, <1>5, <2>1, <2>2
<1>6. ASSUME NEW r \in Nat, NEW lo \in Nat, NEW hi \in Nat, NEW n \in Nat, NEW m \in {"on", "off", "second"},
             f = "BTC", hi = r + 2, hi <= n, Receiving(r, lo, n, m), Suits(r, hi, n, m),
             Receiving(r, hi, n, m)' => After(d)
      PROVE  After(d)
  <2>1. rx.clocked = hi
    BY <1>0, <1>1, <1>6 DEF Receiving, Taken, None
  <2>2. Taken(r, hi, n)'
    BY <1>1, <1>6, <2>1 DEF Receiving, Taken
  <2>3. Stored(r)' /\ Suits(r, hi, n, m)'
    BY <1>6 DEF Receiving, Stored, Suits
  <2>4. Receiving(r, hi, n, m)'
    BY <1>6, <2>2, <2>3 DEF Receiving, Quiet, Acks
  <2> QED BY <1>6, <2>4
<1>7. ASSUME NEW r \in Nat, NEW hi \in Nat, NEW n \in Nat, f = "RBNE", hi = r + 1, hi + 2 < n,
             Receiving(r, r, n, "on"), Receiving(r, hi, n, "on")' => After(d)
      PROVE  After(d)
  <2>1. rx.clocked >= hi
    BY <1>0, <1>1, <1>7 DEF Receiving, Taken
  <2>2. Taken(r, hi, n)'
    BY <1>1, <1>7, <2>1 DEF Receiving, Taken
  <2>3. Stored(r)' /\ Suits(r, hi, n, "on")'
    BY <1>7 DEF Receiving, Stored, Suits
  <2>4. Receiving(r, hi, n, "on")'
    BY <1>7, <2>2, <2>3 DEF Receiving, Quiet, Acks
  <2> QED BY <1>7, <2>4
<1>8. ASSUME NEW r \in Nat, NEW lo \in Nat, NEW n \in Nat, NEW m \in {"off", "second"}, f = "RBNE", r + 1 = n,
             ReadStopped(r, lo, n, m), ReadStopped(r, n, n, m)' => After(d)
      PROVE  After(d)
  <2>1. rx.clocked = n
    BY <1>0, <1>1, <1>8 DEF ReadStopped, Taken
  <2>2. Taken(r, n, n)'
    BY <1>1, <1>8, <2>1 DEF ReadStopped, Taken
  <2>3. ReadStopped(r, n, n, m)'
    BY <1>8, <2>1, <2>2 DEF ReadStopped, Stored, Acks
  <2> QED BY <1>8, <2>3
<1> QED BY <1>2, <1>3, <1>4, <1>5, <1>6, <1>7, <1>8 DEF WaitRow

\* A wait that is not met, with no error raised, waits for a bus that can move.
LEMMA I2WaitMoves ==
  ASSUME NEW d, WaitRow(d), NEW f \in Flags, Head(todo) = f, ~Flag[f], rx \in I2RxSet, tx \in I2TxSet,
         held = 0, err = {}
  PROVE  Moves
<1>0. /\ f = "SBSEND" => ph # "sb"
      /\ f = "ADDSEND" => ph # "ack"
      /\ f = "TBE" => ~(ph = "tx" /\ tx.queued < 2)
      /\ f = "RBNE" => rx.dr = None
      /\ f = "BTC" => ~(ph = "tx" /\ tx.queued = 0 /\ tx.acked > 0) /\ ~(rx.dr # None /\ rx.sh # None)
  BY I2Flags, Zenon
<1>1. rx.clocked \in Nat /\ tx.queued \in Nat /\ tx.acked \in Nat
  BY DEF I2RxSet, I2TxSet
<1>2. ASSUME NEW m \in {"on", "ahead"}, f = "SBSEND", Started(m)
      PROVE  CanStart
  BY <1>0, <1>2 DEF Started, CanStart
<1>3. ASSUME NEW a \in {"r", "w"}, NEW m \in {"on", "off", "second"}, f = "ADDSEND", Addressed(a, m)
      PROVE  ph = "addr"
  BY <1>0, <1>3 DEF Addressed
<1>4. ASSUME NEW t \in Nat, f = "TBE", Sending(t)
      PROVE  CanTransmit
  BY <1>0, <1>1, <1>4 DEF Sending, CanTransmit
<1>5. ASSUME NEW t \in Nat, f = "BTC", t > 0, Sending(t)
      PROVE  CanTransmit
  BY <1>0, <1>1, <1>5 DEF Sending, CanTransmit
<1>6. ASSUME NEW r \in Nat, NEW lo \in Nat, NEW hi \in Nat, NEW n \in Nat, NEW m \in {"on", "off", "second"},
             f = "BTC", hi = r + 2, hi <= n, Receiving(r, lo, n, m)
      PROVE  CanReceive
  <2>1. rx.clocked # r + 2
    BY <1>0, <1>1, <1>6 DEF Receiving, Taken, None
  <2> QED BY <1>1, <1>6, <2>1 DEF Receiving, Taken, CanReceive
<1>7. ASSUME NEW r \in Nat, NEW hi \in Nat, NEW n \in Nat, f = "RBNE", hi = r + 1, hi + 2 < n, Receiving(r, r, n, "on")
      PROVE  CanReceive
  <2>1. rx.clocked = r
    BY <1>0, <1>1, <1>7 DEF Receiving, Taken, None
  <2> QED BY <1>1, <1>7, <2>1 DEF Receiving, Taken, CanReceive
<1>8. ASSUME NEW r \in Nat, NEW lo \in Nat, NEW n \in Nat, NEW m \in {"off", "second"}, f = "RBNE", r + 1 = n,
             ReadStopped(r, lo, n, m)
      PROVE  CanReceive
  <2>1. rx.clocked = r
    BY <1>0, <1>1, <1>8 DEF ReadStopped, Taken, None
  <2> QED BY <1>1, <1>8, <2>1 DEF ReadStopped, Taken, CanReceive
<1> QED BY <1>2, <1>3, <1>4, <1>5, <1>6, <1>7, <1>8 DEF WaitRow, Moves

\* A wait that finds the bus held after a refusal waits for what was refused.
LEMMA I2WaitRefused ==
  ASSUME NEW d, WaitRow(d), NEW f \in Flags, Head(todo) = f, ph = "hold"
  PROVE  /\ f \in {"SBSEND", "ADDSEND"} => nack = "address"
         /\ f \notin {"SBSEND", "ADDSEND"} => nack = "data"
  BY DEF WaitRow, Started, Addressed, Sending, Receiving, ReadStopped

\* A register operation of a transfer that leads to the next phase.
LEMMA I2RunDo ==
  ASSUME I2IInv, mode = "run", NEW d \in 0 .. Len(Inner(Head(ops))) - 1, After(d),
         mode' = mode, ops' = ops, fresh' = fresh, left' = left, budget' = budget, res' = res, todo' = Tail(todo),
         rmw' = <<>>, err' = err, held' = held, fault' = fault, polls' = polls, nack' = nack, rcv' \in Seq(Nat),
         I2BlockTypes', I2BusTypes', ph = "hold" => ph' = "hold"
  PROVE  I2IInv'
<1>1. I2Types /\ I2cBlock /\ RunInv /\ ops # <<>> /\ Head(ops) # [kind |-> "read", n |-> 0] /\ res = "Ok"
  BY DEF I2IInv
<1>2. I2Types'
  BY <1>1 DEF I2Types, I2CallTypes, I2HistTypes
<1>3. held' = 0 /\ (left' = 0 => fault' # {}) /\ polls' + left' <= PollBudget + IdleBudget + 1
  BY <1>1 DEF RunInv
<1>4. I2cBlock'
  <2>1. err' # {} => fault' # {}
    BY <1>1 DEF I2cBlock
  <2>2. mode # "recover" /\ "AERR" \in err' /\ "late" \notin fault' => mode = "run" /\ ph' = "hold"
    BY <1>1 DEF I2cBlock
  <2>3. PollsBounded'
    BY <1>1 DEF I2cBlock, PollsBounded
  <2> QED BY <1>3, <2>1, <2>2, <2>3 DEF I2cBlock
<1>5. RunInv'
  <2>1. TransferAt(d + 1)'
    BY DEF After
  <2>2. PICK s \in Seq(I2Words) : s = Inner(Head(ops))
    BY <1>1, I2InnerWords DEF I2Types, I2CallTypes
  <2>3. Inner(Head(ops))' = s
    BY <2>2 DEF Inner
  <2>4. d + 1 \in 0 .. Len(s)
    BY <2>2
  <2>5. (\E c \in 0 .. Len(Inner(Head(ops))) : TransferAt(c))'
    BY <2>1, <2>3, <2>4
  <2> QED BY <1>3, <2>5 DEF RunInv, Whole
<1> QED BY <1>1, <1>2, <1>4, <1>5 DEF I2IInv, ModifyInv

\* The operation of recovery that is ahead.
LEMMA I2RecoverAhead ==
  ASSUME NEW k \in 0 .. 9, RecoverAt(k)
  PROVE  /\ todo = <<>> <=> k = 9
         /\ k = 0 => Head(todo) = "clearErrors"
         /\ k = 1 => Head(todo) = "ifMaster"
         /\ k = 2 => Head(todo) = "stop"
         /\ k = 3 => Head(todo) = "spin"
         /\ k = 4 => Head(todo) = "busyNotMaster"
         /\ k = 5 => Head(todo) = "requestStuck"
         /\ k = 6 => Head(todo) = "reset"
         /\ k = 7 => Head(todo) = "poapOff"
         /\ k = 8 => Head(todo) = "ackOn"
         /\ k < 9 => Tail(todo) = Left(RecoverInner, k + 1)
<1>1. PICK s \in Seq(I2Words) : s = RecoverInner
  BY I2RecoverWords
<1>2. /\ Len(s) = 9 /\ s[1] = "clearErrors" /\ s[2] = "ifMaster" /\ s[3] = "stop" /\ s[4] = "spin"
      /\ s[5] = "busyNotMaster" /\ s[6] = "requestStuck" /\ s[7] = "reset" /\ s[8] = "poapOff" /\ s[9] = "ackOn"
  BY <1>1, I2RecoverWords
<1>3. /\ Left(s, k) = <<>> <=> k = 9
      /\ k < 9 => Head(Left(s, k)) = s[k + 1] /\ Tail(Left(s, k)) = Left(s, k + 1)
  BY <1>2, I2Left
<1>4. todo = Left(s, k)
  BY <1>1 DEF RecoverAt
<1>5. k < 9 => Head(todo) = s[k + 1] /\ Tail(todo) = Left(RecoverInner, k + 1)
  BY <1>1, <1>3, <1>4
<1>6. todo = <<>> <=> k = 9
  BY <1>3, <1>4
<1> QED BY <1>2, <1>5, <1>6

---------------------------------------------------------------------------
(* The driver's steps, one at a time. *)

\* While a transfer runs and operations are left, the next finds its phase.
LEMMA I2RunAhead ==
  ASSUME I2IInv, mode = "run", todo # <<>>
  PROVE  \E d \in 0 .. Len(Inner(Head(ops))) - 1 : TransferAt(d) /\ Row(d)
<1>1. ops \in Seq(Operation) /\ ops # <<>> /\ Head(ops) # [kind |-> "read", n |-> 0]
  BY DEF I2IInv, I2Types, I2CallTypes
<1>2. PICK d \in 0 .. Len(Inner(Head(ops))) : TransferAt(d)
  BY DEF I2IInv, RunInv
<1> QED BY <1>1, <1>2, I2RunRow

RecoverWords ==
  {"clearErrors", "ifMaster", "stop", "spin", "busyNotMaster", "requestStuck", "reset", "poapOff", "ackOn"}

\* An operation recovery does not have belongs to a transfer.
LEMMA I2TransferOnly ==
  ASSUME I2IInv, mode \in {"run", "recover"}, todo # <<>>, Head(todo) \notin RecoverWords
  PROVE  mode = "run"
<1>1. ASSUME mode = "recover" PROVE FALSE
  <2>1. PICK k \in 0 .. 9 : RecoverAt(k)
    BY <1>1 DEF I2IInv, RecoverInv
  <2>2. Head(todo) \in RecoverWords
    BY <2>1, I2RecoverAhead DEF RecoverWords
  <2> QED BY <2>2
<1> QED BY <1>1

\* An operation that is not a modify finds none in progress.
LEMMA I2NoModify ==
  ASSUME I2IInv, Head(todo) \notin ModifyWords
  PROVE  rmw = <<>>
  BY DEF I2IInv, ModifyInv, Modifies, ModifyWords

\* Writing the address to DATA keeps the invariant.
LEMMA I2SendAddressKeeps ==
  ASSUME I2IInv, NEW a \in {"r", "w"}, NEW o, o = (IF a = "r" THEN "addressR" ELSE "addressW"), SendAddress(o, a)
  PROVE  I2IInv'
<1>1. /\ Steps(o) /\ todo' = Tail(todo) /\ mode' = mode /\ ops' = ops /\ fresh' = fresh /\ left' = left
      /\ budget' = budget /\ res' = res /\ ctl' = ctl /\ err' = err /\ tx' = tx /\ held' = held /\ rmw' = rmw
      /\ rcv' = rcv /\ nack' = nack /\ fault' = fault /\ polls' = polls
      /\ ph' = (IF ph = "sb" THEN "addr" ELSE ph) /\ dir' = (IF ph = "sb" THEN a ELSE dir)
      /\ rx' = (IF ph = "sb" THEN NoRx ELSE rx)
  BY DEF SendAddress, Do, call, regs, hist
<1>2. mode \in {"run", "recover"} /\ todo # <<>> /\ Head(todo) = o
  BY <1>1 DEF Steps
<1>3. mode = "run" /\ rmw = <<>>
  BY <1>2, I2TransferOnly, I2NoModify DEF RecoverWords, ModifyWords
<1>4. PICK d \in 0 .. Len(Inner(Head(ops))) - 1 : TransferAt(d) /\ Row(d)
  BY <1>2, <1>3, I2RunAhead
<1>5. After(d)
  BY <1>1, <1>2, <1>4, I2AddressRun
<1>6. I2Types
  BY DEF I2IInv
<1>7. I2BlockTypes' /\ rcv' \in Seq(Nat)
  BY <1>1, <1>6 DEF I2Types, I2BlockTypes, I2HistTypes
<1>8. I2BusTypes'
  <2>1. rx' \in I2RxSet
    BY <1>1, <1>6 DEF I2Types, I2BusTypes, I2RxSet, NoRx, None
  <2> QED BY <1>1, <1>6, <2>1 DEF I2Types, I2BusTypes, I2Phases
<1> QED BY <1>1, <1>3, <1>4, <1>5, <1>7, <1>8, I2RunDo

\* Clearing ADDSEND keeps the invariant.
LEMMA I2ClearAddsendKeeps ==
  ASSUME I2IInv, ClearAddsend
  PROVE  I2IInv'
<1>1. /\ Steps("clear") /\ todo' = Tail(todo) /\ mode' = mode /\ ops' = ops /\ fresh' = fresh /\ left' = left
      /\ budget' = budget /\ res' = res /\ ctl' = ctl /\ err' = err /\ tx' = tx /\ held' = held /\ rmw' = rmw
      /\ rcv' = rcv /\ nack' = nack /\ fault' = fault /\ polls' = polls /\ dir' = dir /\ rx' = rx
      /\ ph' = IF ph # "ack" THEN ph ELSE IF dir = "r" THEN "rx" ELSE "tx"
  BY DEF ClearAddsend, Do, call, regs, hist
<1>2. mode \in {"run", "recover"} /\ todo # <<>> /\ Head(todo) = "clear"
  BY <1>1 DEF Steps
<1>3. mode = "run" /\ rmw = <<>>
  BY <1>2, I2TransferOnly, I2NoModify DEF RecoverWords, ModifyWords
<1>4. PICK d \in 0 .. Len(Inner(Head(ops))) - 1 : TransferAt(d) /\ Row(d)
  BY <1>2, <1>3, I2RunAhead
<1>6. I2Types
  BY DEF I2IInv
<1>5. After(d)
  BY <1>1, <1>2, <1>4, <1>6, I2ClearRun DEF I2Types, I2BusTypes
<1>7. I2BlockTypes' /\ rcv' \in Seq(Nat)
  BY <1>1, <1>6 DEF I2Types, I2BlockTypes, I2HistTypes
<1>8. I2BusTypes'
  BY <1>1, <1>6 DEF I2Types, I2BusTypes, I2Phases
<1> QED BY <1>1, <1>3, <1>4, <1>5, <1>7, <1>8, I2RunDo

\* Writing a byte to DATA keeps the invariant.
LEMMA I2TransmitKeeps ==
  ASSUME I2IInv, Transmit
  PROVE  I2IInv'
<1>1. /\ Steps("transmit") /\ todo' = Tail(todo) /\ mode' = mode /\ ops' = ops /\ fresh' = fresh /\ left' = left
      /\ budget' = budget /\ res' = res /\ ctl' = ctl /\ err' = err /\ held' = held /\ rmw' = rmw
      /\ rcv' = rcv /\ nack' = nack /\ fault' = fault /\ polls' = polls /\ dir' = dir /\ rx' = rx /\ ph' = ph
      /\ tx' = IF ph = "tx" THEN [tx EXCEPT !.queued = @ + 1] ELSE tx
  BY DEF Transmit, Do, call, regs, hist
<1>2. mode \in {"run", "recover"} /\ todo # <<>> /\ Head(todo) = "transmit"
  BY <1>1 DEF Steps
<1>3. mode = "run" /\ rmw = <<>>
  BY <1>2, I2TransferOnly, I2NoModify DEF RecoverWords, ModifyWords
<1>4. PICK d \in 0 .. Len(Inner(Head(ops))) - 1 : TransferAt(d) /\ Row(d)
  BY <1>2, <1>3, I2RunAhead
<1>6. I2Types
  BY DEF I2IInv
<1>5. After(d)
  BY <1>1, <1>2, <1>4, <1>6, I2TransmitRun DEF I2Types, I2BusTypes
<1>7. I2BlockTypes' /\ rcv' \in Seq(Nat)
  BY <1>1, <1>6 DEF I2Types, I2BlockTypes, I2HistTypes
<1>8. I2BusTypes'
  <2>1. tx' \in I2TxSet
    BY <1>1, <1>6 DEF I2Types, I2BusTypes, I2TxSet
  <2> QED BY <1>1, <1>6, <2>1 DEF I2Types, I2BusTypes
<1> QED BY <1>1, <1>3, <1>4, <1>5, <1>7, <1>8, I2RunDo

\* Reading a byte from DATA keeps the invariant.
LEMMA I2ReceiveKeeps ==
  ASSUME I2IInv, Receive
  PROVE  I2IInv'
<1>1. /\ Steps("receive") /\ todo' = Tail(todo) /\ mode' = mode /\ ops' = ops /\ fresh' = fresh /\ left' = left
      /\ budget' = budget /\ res' = res /\ ctl' = ctl /\ err' = err /\ held' = held /\ rmw' = rmw
      /\ nack' = nack /\ fault' = fault /\ polls' = polls /\ dir' = dir /\ ph' = ph /\ tx' = tx
      /\ rcv' = Append(rcv, rx.dr) /\ rx' = [rx EXCEPT !.dr = rx.sh, !.sh = None]
  BY DEF Receive, Do, call, regs, hist
<1>2. mode \in {"run", "recover"} /\ todo # <<>> /\ Head(todo) = "receive"
  BY <1>1 DEF Steps
<1>3. mode = "run" /\ rmw = <<>>
  BY <1>2, I2TransferOnly, I2NoModify DEF RecoverWords, ModifyWords
<1>4. PICK d \in 0 .. Len(Inner(Head(ops))) - 1 : TransferAt(d) /\ Row(d)
  BY <1>2, <1>3, I2RunAhead
<1>6. I2Types
  BY DEF I2IInv
<1>5. After(d)
  BY <1>1, <1>2, <1>4, <1>6, I2ReceiveRun DEF I2Types, I2BusTypes
<1>7. I2BlockTypes'
  BY <1>1, <1>6 DEF I2Types, I2BlockTypes
<1>9. rcv' \in Seq(Nat)
  <2>1. rx.dr \in Nat /\ rcv \in Seq(Nat)
    BY <1>6 DEF I2Types, I2BusTypes, I2HistTypes, I2RxSet
  <2> QED BY <1>1, <2>1
<1>8. I2BusTypes'
  <2>1. rx' \in I2RxSet
    BY <1>1, <1>6 DEF I2Types, I2BusTypes, I2RxSet, None
  <2> QED BY <1>1, <1>6, <2>1 DEF I2Types, I2BusTypes
<1> QED BY <1>1, <1>3, <1>4, <1>5, <1>7, <1>8, <1>9, I2RunDo

\* A wait whose flag is up keeps the invariant.
LEMMA I2WaitMetKeeps ==
  ASSUME I2IInv, NEW f \in Flags, WaitMet(f)
  PROVE  I2IInv'
<1>1. /\ Steps(f) /\ todo' = Tail(todo) /\ mode' = mode /\ ops' = ops /\ fresh' = fresh /\ left' = left
      /\ budget' = budget /\ res' = res /\ ctl' = ctl /\ err' = err /\ held' = held /\ rmw' = rmw
      /\ rcv' = rcv /\ nack' = nack /\ fault' = fault /\ polls' = polls /\ dir' = dir /\ ph' = ph /\ tx' = tx
      /\ rx' = rx /\ Flag[f]
  BY DEF WaitMet, Do, call, regs, hist, hw, bus
<1>2. mode \in {"run", "recover"} /\ todo # <<>> /\ Head(todo) = f
  BY <1>1 DEF Steps
<1>3. mode = "run" /\ rmw = <<>>
  BY <1>2, I2TransferOnly, I2NoModify DEF RecoverWords, ModifyWords, Flags
<1>4. PICK d \in 0 .. Len(Inner(Head(ops))) - 1 : TransferAt(d) /\ Row(d)
  BY <1>2, <1>3, I2RunAhead
<1>6. I2Types
  BY DEF I2IInv
<1>5. After(d)
  <2>1. WaitRow(d)
    BY <1>2, <1>4, I2WaitRowOnly
  <2> QED BY <1>1, <1>2, <1>6, <2>1, I2WaitRun DEF I2Types, I2BusTypes
<1>7. I2BlockTypes' /\ I2BusTypes' /\ rcv' \in Seq(Nat)
  BY <1>1, <1>6 DEF I2Types, I2BlockTypes, I2BusTypes, I2HistTypes
<1> QED BY <1>1, <1>3, <1>4, <1>5, <1>7, I2RunDo

\* A step of recovery that leads to its next place.
LEMMA I2RecoverDo ==
  ASSUME I2IInv, mode = "recover", NEW k \in 0 .. 9, RecoverAt(k)',
         mode' = mode, ops' = ops, fresh' = fresh, left' = left, budget' \in 0 .. IdleBudget, res' = res,
         res = "Ok" => polls' + left <= PollBudget + IdleBudget + 1,
         polls' \in Nat, polls' <= PollBudget + 2 * IdleBudget + 1,
         rcv' = rcv, nack' = nack, fault' \subseteq {"late", "fresh"}, err' # {} => fault' # {},
         held' > 0 => ph' = "free", ModifyInv', I2BlockTypes', I2BusTypes'
  PROVE  I2IInv'
<1>1. I2Types /\ ops # <<>> /\ Head(ops) # [kind |-> "read", n |-> 0]
  BY DEF I2IInv
<1>2. I2Types'
  BY <1>1 DEF I2Types, I2CallTypes, I2HistTypes
<1>3. I2cBlock'
  BY DEF I2cBlock, PollsBounded
<1>4. RecoverInv'
  BY DEF RecoverInv
<1> QED BY <1>1, <1>2, <1>3, <1>4 DEF I2IInv

\* The read of a modify keeps the invariant.
LEMMA I2ModifyReadKeeps ==
  ASSUME I2IInv, NEW o \in DOMAIN Modifies, ModifyRead(o)
  PROVE  I2IInv'
<1>1. /\ Steps(o) /\ todo' = todo /\ mode' = mode /\ ops' = ops /\ fresh' = fresh /\ left' = left
      /\ budget' = budget /\ res' = res /\ ctl' = ctl /\ err' = err /\ tx' = tx /\ held' = held /\ rmw' = <<ctl>>
      /\ rcv' = rcv /\ nack' = nack /\ fault' = fault /\ polls' = polls /\ dir' = dir /\ rx' = rx /\ ph' = ph
  BY DEF ModifyRead, call, hist, hw, regs, bus
<1>2. mode \in {"run", "recover"} /\ todo # <<>> /\ Head(todo) = o /\ o \in ModifyWords
  BY <1>1 DEF Steps, Modifies, ModifyWords
<1>3. I2Types /\ I2cBlock /\ ops # <<>> /\ Head(ops) # [kind |-> "read", n |-> 0]
  BY <1>2 DEF I2IInv
<1>4. ctl \in I2CtlSet
  BY <1>3 DEF I2Types, I2BlockTypes
<1>5. I2BlockTypes' /\ I2BusTypes' /\ I2CallTypes' /\ I2HistTypes'
  BY <1>1, <1>3, <1>4 DEF I2Types, I2BlockTypes, I2BusTypes, I2CallTypes, I2HistTypes
<1>6. ModifyInv'
  BY <1>1, <1>2 DEF ModifyInv, Modifies, ModifyWords
<1>7. I2cBlock'
  BY <1>1, <1>3 DEF I2cBlock, PollsBounded
<1>8. CASE mode = "run"
  <2>1. PICK d \in 0 .. Len(Inner(Head(ops))) - 1 : TransferAt(d) /\ Row(d)
    BY <1>2, <1>8, I2RunAhead
  <2>2. ~ctl.start
    BY <1>2, <2>1, I2ModifyRowOnly, I2ModifyQuiet
  <2>3. PhasesKept
    BY <1>1, I2Unmoved
  <2>4. ops \in Seq(Operation)
    BY <1>3 DEF I2Types, I2CallTypes
  <2>5. TransferAt(d)' /\ (d \in 0 .. Len(Inner(Head(ops))))'
    <3>1. d \in 0 .. Len(Inner(Head(ops)))
      OBVIOUS
    <3> QED BY <1>1, <1>3, <2>1, <2>3, <2>4, <3>1, I2TransferKept
  <2>6. (\E c \in 0 .. Len(Inner(Head(ops))) : TransferAt(c))'
    BY <2>5
  <2>7. Whole'
    BY <1>1, <2>2 DEF Whole
  <2>8. RunInv'
    BY <1>1, <1>8, <2>6, <2>7 DEF I2IInv, RunInv
  <2>9. res' = "Ok"
    BY <1>1, <1>8 DEF I2IInv
  <2> QED BY <1>1, <1>3, <1>5, <1>6, <1>7, <1>8, <2>8, <2>9 DEF I2IInv, I2Types
<1>9. CASE mode = "recover"
  <2>1. PICK k \in 0 .. 9 : RecoverAt(k)
    BY <1>9 DEF I2IInv, RecoverInv
  <2>2. rmw'[1] = ctl
    BY <1>1
  <2>3. k >= 7 => Settled' /\ ~ctl'.stop /\ Whole' /\ ph' \in {"free", "sb"}
    <3>1. SUFFICES ASSUME k >= 7 PROVE Settled' /\ ~ctl'.stop /\ Whole' /\ ph' \in {"free", "sb"}
      OBVIOUS
    <3>2. Settled /\ ~ctl.stop /\ ph \in {"free", "sb"}
      BY <2>1, <3>1 DEF RecoverAt
    <3> QED BY <1>1, <3>2 DEF Settled, Whole
  <2>4. RecoverAt(k)'
    BY <1>1, <2>1, <2>2, <2>3 DEF RecoverAt
  <2>5. RecoverInv'
    BY <1>1, <1>9, <2>4 DEF I2IInv, RecoverInv
  <2> QED BY <1>1, <1>3, <1>5, <1>6, <1>7, <1>9, <2>5 DEF I2IInv, I2Types
<1> QED BY <1>2, <1>8, <1>9

\* The write of a modify keeps the invariant.
LEMMA I2ModifyWriteKeeps ==
  ASSUME I2IInv, NEW o \in DOMAIN Modifies, ModifyWrite(o)
  PROVE  I2IInv'
<1>1. /\ Steps(o) /\ todo' = Tail(todo) /\ mode' = mode /\ ops' = ops /\ fresh' = fresh /\ left' = left
      /\ budget' = budget /\ res' = res /\ err' = err /\ tx' = tx /\ held' = held /\ rmw # <<>> /\ rmw' = <<>>
      /\ rcv' = rcv /\ nack' = nack /\ fault' = fault /\ polls' = polls /\ dir' = dir /\ rx' = rx /\ ph' = ph
      /\ ctl' = [rmw[1] EXCEPT ![Modifies[o][1]] = Modifies[o][2]]
  BY DEF ModifyWrite, Do, call, hist, bus
<1>2. mode \in {"run", "recover"} /\ todo # <<>> /\ Head(todo) = o /\ o \in ModifyWords
  BY <1>1 DEF Steps, Modifies, ModifyWords
<1>3. I2Types /\ I2cBlock
  BY DEF I2IInv
<1>4. PICK c \in I2CtlSet : rmw = <<c>>
  BY <1>1, <1>3 DEF I2Types, I2BlockTypes
<1>5. ctl' = [c EXCEPT ![Modifies[o][1]] = Modifies[o][2]]
  <2>1. rmw[1] = c
    BY <1>4
  <2> QED BY <1>1, <2>1
<1>6. /\ ctl' \in I2CtlSet
      /\ ctl'.start = IF o = "start" THEN TRUE ELSE c.start
      /\ ctl'.stop = IF o = "stop" THEN TRUE ELSE c.stop
      /\ ctl'.poap = IF o = "poapOn" THEN TRUE ELSE IF o = "poapOff" THEN FALSE ELSE c.poap
  <2>1. OneBit(Modified(c, o), c, o)
    BY I2ModifyOne
  <2>2. ctl' = Modified(c, o)
    BY <1>5 DEF Modified
  <2> QED BY ONLY <2>1, <2>2 DEF OneBit
<1>7. I2BlockTypes' /\ I2BusTypes' /\ rcv' \in Seq(Nat) /\ ModifyInv'
  BY <1>1, <1>3, <1>6 DEF I2Types, I2BlockTypes, I2BusTypes, I2HistTypes, ModifyInv
<1>8. CASE mode = "run"
  <2>1. PICK d \in 0 .. Len(Inner(Head(ops))) - 1 : TransferAt(d) /\ Row(d)
    BY <1>2, <1>8, I2RunAhead
  <2>2. c = ctl
    <3>1. rmw = <<ctl>>
      BY <1>1, <1>8 DEF I2IInv, RunInv, Whole
    <3> QED BY <1>4, <3>1
  <2>3. ModifyRow(d)
    BY <1>2, <2>1, I2ModifyRowOnly
  <2>4. After(d)
    BY <1>1, <1>2, <1>3, <1>5, <2>2, <2>3, I2ModifyRun DEF I2Types, I2BlockTypes, I2BusTypes
  <2> QED BY <1>1, <1>7, <1>8, <2>4, I2RunDo
<1>9. CASE mode = "recover"
  <2>1. PICK k \in 0 .. 9 : RecoverAt(k)
    BY <1>9 DEF I2IInv, RecoverInv
  <2>2. /\ k \in {2, 7, 8} /\ (k = 2 => o = "stop") /\ (k = 7 => o = "poapOff") /\ (k = 8 => o = "ackOn")
        /\ Tail(todo) = Left(RecoverInner, k + 1)
    BY <1>2, <2>1, I2RecoverAhead DEF ModifyWords
  <2>3. /\ polls \in Nat /\ budget \in 0 .. IdleBudget /\ fault \subseteq {"late", "fresh"}
        /\ (err # {} => fault # {}) /\ (held > 0 => ph = "free") /\ PollsBounded
    BY <1>3 DEF I2cBlock, I2Types, I2CallTypes, I2HistTypes
  <2>4. res = "Ok" => polls + left <= PollBudget + IdleBudget + 1
    BY <1>9 DEF I2IInv, RecoverInv
  <2>5. PICK q \in 0 .. 9 : q = k + 1
    BY <2>2
  <2>6. RecoverAt(q)'
    <3>1. CASE k = 2
      <4>1. res = "Ok" => ~c.start
        BY <1>1, <1>4, <2>1 DEF RecoverAt
      <4>2. q = 3 /\ todo' = Left(RecoverInner, q)
        BY <1>1, <2>2, <2>5, <3>1
      <4>3. ctl'.stop /\ (res = "Ok" => ~ctl'.start)
        BY <1>6, <2>2, <3>1, <4>1
      <4>4. /\ res = "Ok" => left > 0
            /\ "AERR" \in err => "late" \in fault
            /\ budget > 0 /\ polls + budget <= PollBudget + 2 * IdleBudget + 1
            /\ res = "Ok" => polls + left + budget <= PollBudget + IdleBudget + 1
        BY <2>1, <3>1 DEF RecoverAt
      <4> QED BY <1>1, <4>2, <4>3, <4>4 DEF RecoverAt
    <3>2. CASE k = 7 \/ k = 8
      <4>1. rmw = <<ctl>>
        BY <1>1, <2>1, <3>2 DEF RecoverAt, Whole
      <4>2. c = ctl
        BY <1>4, <4>1
      <4>3. Settled /\ ~ctl.stop /\ ph \in {"free", "sb"}
        BY <2>1, <3>2 DEF RecoverAt
      <4>4. Settled' /\ ~ctl'.stop /\ Whole' /\ ~ctl'.start /\ ~ctl'.poap
        <5>1. k = 8 => ~ctl.poap
          BY <2>1 DEF RecoverAt
        <5> QED BY <1>1, <1>6, <2>2, <3>2, <4>2, <4>3, <5>1 DEF Settled, Whole
      <4> QED BY <1>1, <2>1, <2>2, <2>5, <3>2, <4>3, <4>4 DEF RecoverAt
    <3> QED BY <2>2, <3>1, <3>2
  <2> QED BY <1>1, <1>7, <1>9, <2>3, <2>4, <2>6, I2RecoverDo DEF PollsBounded
<1> QED BY <1>2, <1>8, <1>9

\* An operation that only recovery performs.
LEMMA I2RecoverOnly ==
  ASSUME I2IInv, mode \in {"run", "recover"}, todo # <<>>,
         Head(todo) \in {"clearErrors", "ifMaster", "spin", "busyNotMaster", "requestStuck", "reset"}
  PROVE  mode = "recover" /\ rmw = <<>> /\ \E k \in 0 .. 9 : RecoverAt(k)
<1>1. ASSUME mode = "run" PROVE FALSE
  <2>1. PICK d \in 0 .. Len(Inner(Head(ops))) - 1 : Row(d)
    BY <1>1, I2RunAhead
  <2>2. ~ModifyRow(d)
    BY DEF ModifyRow
  <2>3. ~AddressRow(d)
    BY DEF AddressRow
  <2>4. ~ClearRow(d)
    BY DEF ClearRow
  <2>5. ~DataRow(d)
    BY DEF DataRow
  <2>6. ~WaitRow(d)
    BY DEF WaitRow
  <2> QED BY <2>1, <2>2, <2>3, <2>4, <2>5, <2>6 DEF Row
<1>2. rmw = <<>>
  BY I2NoModify DEF ModifyWords
<1> QED BY <1>1, <1>2 DEF I2IInv, RecoverInv

\* What recovery may count on wherever it is.
RecoverFacts ==
  /\ polls \in Nat /\ left \in 0 .. PollBudget /\ budget \in 0 .. IdleBudget /\ fault \subseteq {"late", "fresh"}
  /\ (err # {} => fault # {}) /\ (held > 0 => ph = "free") /\ polls <= PollBudget + 2 * IdleBudget + 1
  /\ res = "Ok" => polls + left <= PollBudget + IdleBudget + 1

\* What the invariant says of a recovery under way.
LEMMA I2RecoverFacts ==
  ASSUME I2IInv, mode = "recover"
  PROVE  RecoverFacts /\ I2BlockTypes /\ I2BusTypes
<1>1. I2Types /\ I2cBlock /\ RecoverInv
  BY DEF I2IInv
<1> QED BY <1>1 DEF RecoverFacts, I2Types, I2CallTypes, I2HistTypes, I2cBlock, PollsBounded, RecoverInv

\* Clearing the error flags keeps the invariant.
LEMMA I2ClearErrorsKeeps ==
  ASSUME I2IInv, ClearErrors
  PROVE  I2IInv'
<1>1. /\ Steps("clearErrors") /\ todo' = Tail(todo) /\ mode' = mode /\ ops' = ops /\ fresh' = fresh /\ left' = left
      /\ budget' = budget /\ res' = res /\ ctl' = ctl /\ err' = {} /\ tx' = tx /\ held' = held /\ rmw' = rmw
      /\ rcv' = rcv /\ nack' = nack /\ fault' = {} /\ polls' = polls /\ dir' = dir /\ rx' = rx /\ ph' = ph
  BY DEF ClearErrors, Do, call, bus
<1>2. mode \in {"run", "recover"} /\ todo # <<>> /\ Head(todo) = "clearErrors"
  BY <1>1 DEF Steps
<1>3. mode = "recover" /\ rmw = <<>>
  BY <1>2, I2RecoverOnly
<1>4. PICK k \in 0 .. 9 : RecoverAt(k)
  BY <1>2, I2RecoverOnly
<1>5. k = 0 /\ Tail(todo) = Left(RecoverInner, 1)
  BY <1>2, <1>4, I2RecoverAhead
<1>6. RecoverFacts /\ I2BlockTypes /\ I2BusTypes
  BY <1>3, I2RecoverFacts
<1>7. I2BlockTypes' /\ I2BusTypes' /\ ModifyInv'
  BY <1>1, <1>3, <1>6 DEF I2BlockTypes, I2BusTypes, ModifyInv
<1>8. RecoverAt(1)'
  BY <1>1, <1>3, <1>4, <1>5 DEF RecoverAt
<1> QED BY <1>1, <1>3, <1>6, <1>7, <1>8, I2RecoverDo DEF RecoverFacts

\* The STOP and its wait are jumped over when the block is not master.
LEMMA I2JumpStop ==
  ASSUME todo = Left(RecoverInner, 1)
  PROVE  SubSeq(todo, 4, Len(todo)) = Left(RecoverInner, 4)
<1>1. PICK s \in Seq(I2Words) : s = RecoverInner /\ Len(s) = 9
  BY I2RecoverWords
<1>2. todo = [i \in 1 .. 8 |-> s[i + 1]]
  BY <1>1 DEF Left
<1>3. Left(RecoverInner, 4) = [i \in 1 .. 5 |-> s[i + 4]]
  BY <1>1 DEF Left
<1>0. \A i \in 1 .. Len(s) : s[i] \in I2Words
  OBVIOUS
<1>4. \A i \in 1 .. 9 : s[i] \in I2Words
  BY ONLY <1>0, <1>1
<1>5. todo \in Seq(I2Words) /\ Len(todo) = 8 /\ \A i \in 1 .. 8 : todo[i] = s[i + 1]
  <2>1. \A i \in 1 .. 8 : s[i + 1] \in I2Words
    BY ONLY <1>4
  <2>2. todo \in [1 .. 8 -> I2Words]
    BY ONLY <1>2, <2>1
  <2> QED BY ONLY <1>2, <2>2
<1> DEFINE a == SubSeq(todo, 4, 8)
           b == [i \in 1 .. 5 |-> s[i + 4]]
<1>6. a \in Seq(I2Words) /\ Len(a) = 5 /\ \A i \in 1 .. 5 : a[i] = todo[4 + i - 1]
  BY <1>5, SubSeqProperties
<1>7. b \in Seq(I2Words) /\ Len(b) = 5 /\ \A i \in 1 .. 5 : b[i] = s[i + 4]
  BY <1>4
<1> HIDE DEF a, b
<1>8. \A i \in 1 .. 5 : a[i] = b[i]
  BY <1>5, <1>6, <1>7
<1>9. a = b
  BY <1>6, <1>7, <1>8, SeqEqual
<1> QED BY <1>3, <1>5, <1>9 DEF a, b

\* The test for a bus still owned keeps the invariant.
LEMMA I2IfMasterKeeps ==
  ASSUME I2IInv, IfMaster
  PROVE  I2IInv'
<1>1. /\ Steps("ifMaster") /\ todo' = (IF ~Master THEN SubSeq(todo, 4, Len(todo)) ELSE Tail(todo))
      /\ mode' = mode /\ ops' = ops /\ fresh' = fresh /\ left' = left
      /\ budget' = IdleBudget /\ res' = res /\ ctl' = ctl /\ err' = err /\ tx' = tx /\ held' = held /\ rmw' = rmw
      /\ rcv' = rcv /\ nack' = nack /\ fault' = fault /\ polls' = polls /\ dir' = dir /\ rx' = rx /\ ph' = ph
  BY DEF IfMaster, Jump, hw, regs, bus
<1>2. mode \in {"run", "recover"} /\ todo # <<>> /\ Head(todo) = "ifMaster"
  BY <1>1 DEF Steps
<1>3. mode = "recover" /\ rmw = <<>>
  BY <1>2, I2RecoverOnly
<1>4. PICK k \in 0 .. 9 : RecoverAt(k)
  BY <1>2, I2RecoverOnly
<1>5. k = 1 /\ Tail(todo) = Left(RecoverInner, 2) /\ todo = Left(RecoverInner, 1)
  <2>1. k = 1
    BY <1>2, <1>4, I2RecoverAhead
  <2>2. Tail(todo) = Left(RecoverInner, 1 + 1)
    BY <1>4, <2>1, I2RecoverAhead
  <2> QED BY <1>4, <2>1, <2>2 DEF RecoverAt
<1>6. RecoverFacts /\ I2BlockTypes /\ I2BusTypes
  BY <1>3, I2RecoverFacts
<1>7. I2BlockTypes' /\ I2BusTypes' /\ ModifyInv'
  BY <1>1, <1>3, <1>6 DEF I2BlockTypes, I2BusTypes, ModifyInv
<1>8. /\ res = "Ok" => ~ctl.start /\ left > 0 /\ polls + left <= PollBudget + 1
      /\ "AERR" \in err => "late" \in fault
      /\ polls + left <= PollBudget + IdleBudget + 1
  BY <1>4, <1>5 DEF RecoverAt
<1>9. PollBudget \in Nat /\ IdleBudget \in Nat /\ IdleBudget > 0
  BY I2cAssumption
<1>10. PICK q \in 0 .. 9 : RecoverAt(q)'
  <2>1. CASE Master
    <3>1. RecoverAt(2)'
      BY <1>1, <1>3, <1>5, <1>6, <1>8, <1>9, <2>1 DEF RecoverAt, RecoverFacts
    <3> QED BY <3>1
  <2>2. CASE ~Master
    <3>1. todo' = Left(RecoverInner, 4)
      BY <1>1, <1>5, <2>2, I2JumpStop
    <3>2. ph \in {"free", "wedged"}
      BY <1>6, <2>2 DEF Master, I2BusTypes, I2Phases
    <3>3. RecoverAt(4)'
      BY <1>1, <1>3, <1>8, <3>1, <3>2 DEF RecoverAt
    <3> QED BY <3>3
  <2> QED BY <2>1, <2>2
<1>11. /\ budget' \in 0 .. IdleBudget /\ polls' \in Nat /\ polls' <= PollBudget + 2 * IdleBudget + 1
       /\ res = "Ok" => polls' + left <= PollBudget + IdleBudget + 1
  BY <1>1, <1>6, <1>9 DEF RecoverFacts
<1> QED BY <1>1, <1>3, <1>6, <1>7, <1>10, <1>11, I2RecoverDo DEF RecoverFacts

\* The wait for the STOP keeps the invariant.
LEMMA I2SpinKeeps ==
  ASSUME I2IInv, Spin
  PROVE  I2IInv'
<1>1. /\ Steps("spin") /\ todo' = (IF ctl.stop /\ budget > 1 THEN todo ELSE Tail(todo))
      /\ mode' = mode /\ ops' = ops /\ fresh' = fresh /\ left' = left
      /\ res' = res /\ ctl' = ctl /\ err' = err /\ tx' = tx /\ held' = held /\ rmw' = rmw
      /\ rcv' = rcv /\ nack' = nack /\ fault' = fault /\ dir' = dir /\ rx' = rx /\ ph' = ph
      /\ ctl.stop => budget' = budget - 1 /\ polls' = polls + 1
      /\ ~ctl.stop => budget' = budget /\ polls' = polls
  BY DEF Spin, Jump, hw, regs, bus
<1>2. mode \in {"run", "recover"} /\ todo # <<>> /\ Head(todo) = "spin"
  BY <1>1 DEF Steps
<1>3. mode = "recover" /\ rmw = <<>>
  BY <1>2, I2RecoverOnly
<1>4. PICK k \in 0 .. 9 : RecoverAt(k)
  BY <1>2, I2RecoverOnly
<1>5. k = 3 /\ Tail(todo) = Left(RecoverInner, 4) /\ todo = Left(RecoverInner, 3)
  <2>1. k = 3
    BY <1>2, <1>4, I2RecoverAhead
  <2>2. Tail(todo) = Left(RecoverInner, 3 + 1)
    BY <1>4, <2>1, I2RecoverAhead
  <2> QED BY <1>4, <2>1, <2>2 DEF RecoverAt
<1>6. RecoverFacts /\ I2BlockTypes /\ I2BusTypes
  BY <1>3, I2RecoverFacts
<1>7. I2BlockTypes' /\ I2BusTypes' /\ ModifyInv'
  BY <1>1, <1>3, <1>6 DEF I2BlockTypes, I2BusTypes, ModifyInv
<1>8. /\ res = "Ok" => ~ctl.start /\ left > 0
      /\ "AERR" \in err => "late" \in fault
      /\ budget > 0 /\ polls + budget <= PollBudget + 2 * IdleBudget + 1
      /\ res = "Ok" => polls + left + budget <= PollBudget + IdleBudget + 1
      /\ ~ctl.stop => ph \in {"free", "sb"} /\ (res = "Ok" => ph = "free")
  BY <1>4, <1>5 DEF RecoverAt
<1>9. PollBudget \in Nat /\ IdleBudget \in Nat
  BY I2cAssumption
<1>10. /\ budget' \in 0 .. IdleBudget /\ polls' \in Nat /\ polls' <= PollBudget + 2 * IdleBudget + 1
       /\ res = "Ok" => polls' + left <= PollBudget + IdleBudget + 1
  BY <1>1, <1>6, <1>8, <1>9 DEF RecoverFacts
<1>11. PICK q \in 0 .. 9 : RecoverAt(q)'
  <2>1. CASE ctl.stop /\ budget > 1
    <3>1. RecoverAt(3)'
      BY <1>1, <1>3, <1>5, <1>6, <1>8, <1>9, <2>1 DEF RecoverAt, RecoverFacts
    <3> QED BY <3>1
  <2>2. CASE ~(ctl.stop /\ budget > 1)
    <3>1. todo' = Left(RecoverInner, 4)
      BY <1>1, <1>5, <2>2
    <3>2. RecoverAt(4)'
      BY <1>1, <1>3, <1>8, <3>1 DEF RecoverAt
    <3> QED BY <3>2
  <2> QED BY <2>1, <2>2
<1> QED BY <1>1, <1>3, <1>6, <1>7, <1>10, <1>11, I2RecoverDo DEF RecoverFacts

\* Two operations of recovery on.
LEMMA I2TwoOn ==
  ASSUME NEW k \in 0 .. 7, todo = Left(RecoverInner, k)
  PROVE  Tail(todo) = Left(RecoverInner, k + 1) /\ Tail(Tail(todo)) = Left(RecoverInner, k + 2)
<1>1. PICK s \in Seq(I2Words) : s = RecoverInner /\ Len(s) = 9
  BY I2RecoverWords
<1>2. k \in 0 .. Len(s) /\ k < Len(s) /\ k + 1 \in 0 .. Len(s) /\ k + 1 < Len(s)
  BY <1>1
<1>3. Tail(Left(s, k)) = Left(s, k + 1)
  BY <1>2, I2Left
<1>4. Tail(Left(s, k + 1)) = Left(s, k + 1 + 1)
  BY <1>2, I2Left
<1>5. k + 1 + 1 = k + 2
  OBVIOUS
<1>6. todo = Left(s, k)
  BY <1>1
<1> QED BY ONLY <1>1, <1>3, <1>4, <1>5, <1>6

\* The test for a block stuck busy keeps the invariant.
LEMMA I2BusyNotMasterKeeps ==
  ASSUME I2IInv, BusyNotMaster
  PROVE  I2IInv'
<1>1. /\ Steps("busyNotMaster") /\ todo' = (IF Busy /\ ~Master THEN Tail(Tail(todo)) ELSE Tail(todo))
      /\ mode' = mode /\ ops' = ops /\ fresh' = fresh /\ left' = left /\ budget' = budget /\ polls' = polls
      /\ res' = res /\ ctl' = ctl /\ err' = err /\ tx' = tx /\ held' = held /\ rmw' = rmw
      /\ rcv' = rcv /\ nack' = nack /\ fault' = fault /\ dir' = dir /\ rx' = rx /\ ph' = ph
  BY DEF BusyNotMaster, Jump, hw, regs, bus
<1>2. mode \in {"run", "recover"} /\ todo # <<>> /\ Head(todo) = "busyNotMaster"
  BY <1>1 DEF Steps
<1>3. mode = "recover" /\ rmw = <<>>
  BY <1>2, I2RecoverOnly
<1>4. PICK k \in 0 .. 9 : RecoverAt(k)
  BY <1>2, I2RecoverOnly
<1>5. k = 4
  BY <1>2, <1>4, I2RecoverAhead
<1>6. RecoverFacts /\ I2BlockTypes /\ I2BusTypes
  BY <1>3, I2RecoverFacts
<1>7. I2BlockTypes' /\ I2BusTypes' /\ ModifyInv'
  BY <1>1, <1>3, <1>6 DEF I2BlockTypes, I2BusTypes, ModifyInv
<1>8. /\ res = "Ok" => ~ctl.start /\ left > 0
      /\ "AERR" \in err => "late" \in fault
      /\ ~ctl.stop => ph \in {"free", "sb", "wedged"} /\ (res = "Ok" => ph \in {"free", "wedged"})
      /\ todo = Left(RecoverInner, 4)
  BY <1>4, <1>5 DEF RecoverAt
<1>9. Tail(todo) = Left(RecoverInner, 5) /\ Tail(Tail(todo)) = Left(RecoverInner, 6)
  <2>1. 4 \in 0 .. 7 /\ 4 + 1 = 5 /\ 4 + 2 = 6
    OBVIOUS
  <2>2. Tail(todo) = Left(RecoverInner, 4 + 1) /\ Tail(Tail(todo)) = Left(RecoverInner, 4 + 2)
    BY <1>8, <2>1, I2TwoOn
  <2> QED BY ONLY <2>1, <2>2
<1>10. PICK q \in 0 .. 9 : RecoverAt(q)'
  <2>1. CASE Busy /\ ~Master
    <3>1. RecoverAt(6)'
      BY <1>1, <1>3, <1>8, <1>9, <2>1 DEF RecoverAt
    <3> QED BY <3>1
  <2>2. CASE ~(Busy /\ ~Master)
    <3>1. held = 0 /\ ph # "wedged"
      BY <1>6, <2>2 DEF Busy, Master, RecoverFacts, I2BusTypes
    <3>2. RecoverAt(5)'
      BY <1>1, <1>3, <1>8, <1>9, <2>2, <3>1 DEF RecoverAt
    <3> QED BY <3>2
  <2> QED BY <2>1, <2>2
<1> QED BY <1>1, <1>3, <1>6, <1>7, <1>10, I2RecoverDo DEF RecoverFacts

\* The test for a START or STOP left requested keeps the invariant.
LEMMA I2RequestStuckKeeps ==
  ASSUME I2IInv, RequestStuck
  PROVE  I2IInv'
<1>1. /\ Steps("requestStuck") /\ todo' = (IF ~(ctl.start \/ ctl.stop) THEN Tail(Tail(todo)) ELSE Tail(todo))
      /\ mode' = mode /\ ops' = ops /\ fresh' = fresh /\ left' = left /\ budget' = budget /\ polls' = polls
      /\ res' = res /\ ctl' = ctl /\ err' = err /\ tx' = tx /\ held' = held /\ rmw' = rmw
      /\ rcv' = rcv /\ nack' = nack /\ fault' = fault /\ dir' = dir /\ rx' = rx /\ ph' = ph
  BY DEF RequestStuck, Jump, hw, regs, bus
<1>2. mode \in {"run", "recover"} /\ todo # <<>> /\ Head(todo) = "requestStuck"
  BY <1>1 DEF Steps
<1>3. mode = "recover" /\ rmw = <<>>
  BY <1>2, I2RecoverOnly
<1>4. PICK k \in 0 .. 9 : RecoverAt(k)
  BY <1>2, I2RecoverOnly
<1>5. k = 5
  BY <1>2, <1>4, I2RecoverAhead
<1>6. RecoverFacts /\ I2BlockTypes /\ I2BusTypes
  BY <1>3, I2RecoverFacts
<1>7. I2BlockTypes' /\ I2BusTypes' /\ ModifyInv'
  BY <1>1, <1>3, <1>6 DEF I2BlockTypes, I2BusTypes, ModifyInv
<1>8. /\ res = "Ok" => ~ctl.start /\ left > 0
      /\ "AERR" \in err => "late" \in fault
      /\ ~ctl.stop => ph \in {"free", "sb"} /\ (res = "Ok" => ph = "free")
      /\ todo = Left(RecoverInner, 5)
  BY <1>4, <1>5 DEF RecoverAt
<1>9. Tail(todo) = Left(RecoverInner, 6) /\ Tail(Tail(todo)) = Left(RecoverInner, 7)
  <2>1. 5 \in 0 .. 7 /\ 5 + 1 = 6 /\ 5 + 2 = 7
    OBVIOUS
  <2>2. Tail(todo) = Left(RecoverInner, 5 + 1) /\ Tail(Tail(todo)) = Left(RecoverInner, 5 + 2)
    BY <1>8, <2>1, I2TwoOn
  <2> QED BY ONLY <2>1, <2>2
<1>10. PICK q \in 0 .. 9 : RecoverAt(q)'
  <2>1. CASE ctl.start \/ ctl.stop
    <3>1. RecoverAt(6)'
      BY <1>1, <1>3, <1>8, <1>9, <2>1 DEF RecoverAt
    <3> QED BY <3>1
  <2>2. CASE ~(ctl.start \/ ctl.stop)
    <3>1. Settled' /\ Whole'
      BY <1>1, <1>3, <1>8, <2>2 DEF Settled, Whole
    <3>2. RecoverAt(7)'
      BY <1>1, <1>3, <1>8, <1>9, <2>2, <3>1 DEF RecoverAt
    <3> QED BY <3>2
  <2> QED BY <2>1, <2>2
<1> QED BY <1>1, <1>3, <1>6, <1>7, <1>10, I2RecoverDo DEF RecoverFacts

\* The block after its soft reset.
LEMMA I2SoftReset ==
  ASSUME I2BusTypes, SoftReset, rmw = <<>>, held' \in 0 .. MaxPulses + 1
  PROVE  I2BlockTypes' /\ I2BusTypes' /\ Settled' /\ Whole' /\ ~ctl'.stop /\ ~ctl'.poap /\ ph' = "free" /\ err' = {}
<1>1. ctl' \in I2CtlSet /\ ~ctl'.start /\ ~ctl'.stop /\ ~ctl'.poap
  BY DEF SoftReset, Posture, I2CtlSet
<1>2. rx' \in I2RxSet /\ tx' \in I2TxSet
  BY DEF SoftReset, NoRx, NoTx, None, I2RxSet, I2TxSet
<1>3. rmw' = <<>> /\ err' = {} /\ ph' = "free" /\ dir' = dir
  BY DEF SoftReset
<1> QED BY <1>1, <1>2, <1>3 DEF I2BlockTypes, I2BusTypes, I2Phases, Settled, Whole

\* The soft reset keeps the invariant.
LEMMA I2ResetKeeps ==
  ASSUME I2IInv, Reset
  PROVE  I2IInv'
<1>1. /\ Steps("reset") /\ todo' = Tail(todo) /\ mode' = mode /\ ops' = ops /\ fresh' = fresh /\ left' = left
      /\ budget' = budget /\ polls' = polls /\ res' = res /\ rmw' = rmw /\ rcv' = rcv /\ nack' = nack
      /\ err' = {} /\ fault' = {} /\ SoftReset /\ (held' = held \/ held' \in 1 .. MaxPulses + 1)
  BY DEF Reset, SoftReset, Do, call
<1>2. mode \in {"run", "recover"} /\ todo # <<>> /\ Head(todo) = "reset"
  BY <1>1 DEF Steps
<1>3. mode = "recover" /\ rmw = <<>>
  BY <1>2, I2RecoverOnly
<1>4. PICK k \in 0 .. 9 : RecoverAt(k)
  BY <1>2, I2RecoverOnly
<1>5. k = 6 /\ Tail(todo) = Left(RecoverInner, 7)
  <2>1. k = 6
    BY <1>2, <1>4, I2RecoverAhead
  <2>2. Tail(todo) = Left(RecoverInner, 6 + 1)
    BY <1>4, <2>1, I2RecoverAhead
  <2> QED BY <2>1, <2>2
<1>6. RecoverFacts /\ I2BlockTypes /\ I2BusTypes
  BY <1>3, I2RecoverFacts
<1>7. held' \in 0 .. MaxPulses + 1
  BY <1>1, <1>6, I2cAssumption DEF I2BusTypes
<1>8. I2BlockTypes' /\ I2BusTypes' /\ Settled' /\ Whole' /\ ~ctl'.stop /\ ~ctl'.poap /\ ph' = "free"
  BY <1>1, <1>3, <1>6, <1>7, I2SoftReset
<1>9. ModifyInv'
  BY <1>1, <1>3 DEF ModifyInv
<1>10. res = "Ok" => left > 0
  BY <1>4 DEF RecoverAt
<1>11. RecoverAt(7)'
  BY <1>1, <1>3, <1>5, <1>8, <1>10 DEF RecoverAt, Settled
<1> QED BY <1>1, <1>3, <1>6, <1>8, <1>9, <1>11, I2RecoverDo DEF RecoverFacts

\* The end of a recovery keeps the invariant.
LEMMA I2RecoverDoneKeeps ==
  ASSUME I2IInv, RecoverDone
  PROVE  I2IInv'
<1>1. /\ mode = "recover" /\ todo = <<>> /\ mode' = (IF res = "Ok" THEN "recheck" ELSE "idle")
      /\ todo' = todo /\ ops' = ops /\ fresh' = fresh /\ left' = left
      /\ budget' = budget /\ res' = res /\ ctl' = ctl /\ err' = err /\ tx' = tx /\ held' = held /\ rmw' = rmw
      /\ rcv' = rcv /\ nack' = nack /\ fault' = fault /\ polls' = polls /\ dir' = dir /\ rx' = rx /\ ph' = ph
  BY DEF RecoverDone, call, hist, hw, regs, bus
<1>2. PICK k \in 0 .. 9 : RecoverAt(k)
  BY <1>1 DEF I2IInv, RecoverInv
<1>3. RecoverAt(9)
  <2>1. k = 9
    BY <1>1, <1>2, I2RecoverAhead
  <2> QED BY <1>2, <2>1
<1>4. /\ Settled /\ ~ctl.stop /\ ~ctl.poap /\ ("AERR" \in err => "late" \in fault)
      /\ res = "Ok" => ph = "free" /\ left > 0
  BY <1>3 DEF RecoverAt
<1>5. I2Types /\ I2cBlock /\ ModifyInv /\ ops # <<>> /\ Head(ops) # [kind |-> "read", n |-> 0]
  BY <1>1 DEF I2IInv
<1>6. res = "Ok" => polls + left <= PollBudget + IdleBudget + 1
  BY <1>1 DEF I2IInv, RecoverInv
<1>7. rmw' = <<>>
  BY <1>1, <1>5 DEF ModifyInv
<1>8. I2Types'
  BY <1>1, <1>5 DEF I2Types, I2CallTypes, I2BlockTypes, I2BusTypes, I2HistTypes
<1>9. AtRest'
  BY <1>1, <1>4 DEF AtRest, Settled
<1>10. I2cBlock'
  BY <1>1, <1>4, <1>5 DEF I2cBlock, PollsBounded
<1> QED BY <1>1, <1>4, <1>5, <1>6, <1>7, <1>8, <1>9, <1>10 DEF I2IInv, ModifyInv

\* A poll that is not met only costs the budgets.
LEMMA I2Slow ==
  ASSUME fault \subseteq {"late", "fresh"}, Slow
  PROVE  /\ fault' \subseteq {"late", "fresh"} /\ fault \subseteq fault'
         /\ "late" \in fault' => "late" \in fault
         /\ Moves => fault' # {}
<1>1. fault' = fault \/ fault' = fault \cup {"fresh"}
  BY DEF Slow
<1>2. Moves => fault' = fault \cup {"fresh"}
  BY DEF Slow
<1> QED BY <1>1, <1>2

\* An idle poll of a wait keeps the invariant.
LEMMA I2WaitPollKeeps ==
  ASSUME I2IInv, NEW f \in Flags, WaitPoll(f)
  PROVE  I2IInv'
<1>1. /\ Steps(f) /\ ~Flag[f] /\ err = {} /\ left > 0 /\ left' = left - 1 /\ polls' = polls + 1 /\ Slow
      /\ todo' = todo /\ mode' = mode /\ ops' = ops /\ fresh' = fresh
      /\ budget' = budget /\ res' = res /\ ctl' = ctl /\ err' = err /\ tx' = tx /\ held' = held /\ rmw' = rmw
      /\ rcv' = rcv /\ nack' = nack /\ dir' = dir /\ rx' = rx /\ ph' = ph
  BY DEF WaitPoll, hw, regs, bus
<1>2. mode \in {"run", "recover"} /\ todo # <<>> /\ Head(todo) = f
  BY <1>1 DEF Steps
<1>3. mode = "run" /\ rmw = <<>>
  BY <1>2, I2TransferOnly, I2NoModify DEF RecoverWords, ModifyWords, Flags
<1>4. PICK d \in 0 .. Len(Inner(Head(ops))) - 1 : TransferAt(d) /\ Row(d)
  BY <1>2, <1>3, I2RunAhead
<1>5. I2Types /\ I2cBlock /\ RunInv /\ res = "Ok" /\ ops # <<>> /\ Head(ops) # [kind |-> "read", n |-> 0]
  BY <1>3 DEF I2IInv
<1>6. /\ fault' \subseteq {"late", "fresh"} /\ fault' # {}
  <2>1. Moves
    <3>1. WaitRow(d)
      BY <1>2, <1>4, I2WaitRowOnly
    <3>2. rx \in I2RxSet /\ tx \in I2TxSet /\ held = 0
      BY <1>5 DEF I2Types, I2BusTypes, RunInv
    <3> QED BY <1>1, <1>2, <3>1, <3>2, I2WaitMoves
  <2> QED BY <1>1, <1>5, <2>1, I2Slow DEF I2Types, I2HistTypes
<1>7. /\ left' \in 0 .. PollBudget /\ polls' \in Nat /\ polls' + left' <= PollBudget + IdleBudget + 1
      /\ polls' <= PollBudget + 2 * IdleBudget + 1
  <2>1. polls \in Nat /\ left \in 0 .. PollBudget /\ polls + left <= PollBudget + IdleBudget + 1
    BY <1>5 DEF I2Types, I2CallTypes, I2HistTypes, RunInv
  <2> QED BY <1>1, <2>1, I2cAssumption
<1>8. I2Types'
  BY <1>1, <1>5, <1>6, <1>7 DEF I2Types, I2CallTypes, I2BlockTypes, I2BusTypes, I2HistTypes
<1>9. I2cBlock'
  BY <1>1, <1>5, <1>7 DEF I2cBlock, PollsBounded
<1>10. RunInv'
  <2>1. PhasesKept
    BY <1>1, I2Unmoved
  <2>2. ops \in Seq(Operation)
    BY <1>5 DEF I2Types, I2CallTypes
  <2>3. TransferAt(d)' /\ (d \in 0 .. Len(Inner(Head(ops))))'
    <3>1. d \in 0 .. Len(Inner(Head(ops)))
      OBVIOUS
    <3> QED BY <1>1, <1>4, <1>5, <2>1, <2>2, <3>1, I2TransferKept
  <2>4. (\E c \in 0 .. Len(Inner(Head(ops))) : TransferAt(c))'
    BY <2>3
  <2> QED BY <1>1, <1>3, <1>5, <1>6, <1>7, <2>4 DEF RunInv, Whole
<1> QED BY <1>1, <1>3, <1>5, <1>8, <1>9, <1>10 DEF I2IInv, ModifyInv

\* A wait that ends in an error gives the transfer up to recovery.
LEMMA I2WaitFails ==
  ASSUME I2IInv, NEW f \in Flags, Steps(f), res' \in I2Results \ {"Ok"}, Recover,
         ops' = ops, fresh' = fresh, left' = left, budget' = budget, ctl' = ctl, err' = err, tx' = tx, held' = held,
         rmw' = rmw, rcv' = rcv, nack' = nack, dir' = dir, rx' = rx, ph' = ph, fault' = fault, polls' = polls
  PROVE  I2IInv'
<1>2. mode \in {"run", "recover"} /\ todo # <<>> /\ Head(todo) = f
  BY DEF Steps
<1>3. mode = "run" /\ rmw = <<>>
  BY <1>2, I2TransferOnly, I2NoModify DEF RecoverWords, ModifyWords, Flags
<1>4. I2Types /\ I2cBlock /\ RunInv /\ ops # <<>> /\ Head(ops) # [kind |-> "read", n |-> 0]
  BY <1>3 DEF I2IInv
<1>5. mode' = "recover" /\ todo' = RecoverInner
  BY DEF Recover
<1>6. I2Types'
  BY <1>4, <1>5 DEF I2Types, I2CallTypes, I2BlockTypes, I2BusTypes, I2HistTypes
<1>7. I2cBlock'
  BY <1>4, <1>5 DEF I2cBlock, PollsBounded
<1>8. RecoverAt(0)'
  <2>1. todo' = Left(RecoverInner, 0)
    BY <1>5, I2LeftAll, I2RecoverWords
  <2> QED BY <1>4, <2>1 DEF RecoverAt, RunInv
<1>9. RecoverInv'
  BY <1>8 DEF RecoverInv
<1> QED BY <1>3, <1>4, <1>5, <1>6, <1>7, <1>9 DEF I2IInv, ModifyInv

\* A wait that finds an error flag keeps the invariant.
LEMMA I2WaitErrorKeeps ==
  ASSUME I2IInv, NEW f \in Flags, WaitError(f)
  PROVE  I2IInv'
<1>1. res' \in I2Results \ {"Ok"}
  BY DEF WaitError, ErrorOf, I2Results
<1> QED BY <1>1, I2WaitFails DEF WaitError, call, hw, regs, bus, hist

\* A wait whose budget is spent keeps the invariant.
LEMMA I2WaitTimeoutKeeps ==
  ASSUME I2IInv, NEW f \in Flags, WaitTimeout(f)
  PROVE  I2IInv'
<1>1. res' \in I2Results \ {"Ok"}
  BY DEF WaitTimeout, I2Results
<1> QED BY <1>1, I2WaitFails DEF WaitTimeout, call, hw, regs, bus, hist

\* Between transfers no modify is in progress, and no refusal waits for a report.
LEMMA I2Between ==
  ASSUME I2IInv, mode \in {"idle", "op", "gate", "recheck"}
  PROVE  /\ rmw = <<>> /\ I2Types /\ I2cBlock
         /\ "AERR" \in err => "late" \in fault
         /\ AtRest \/ Kept
  BY DEF I2IInv, ModifyInv, I2cBlock

\* A bus kept for the next operation is at rest as well.
LEMMA I2KeptRests ==
  ASSUME Kept
  PROVE  AtRest
  BY DEF Kept, Ready, Quiet, Acks, AtRest, Settled

\* A call keeps the invariant.
LEMMA I2CallKeeps ==
  ASSUME I2IInv, NEW c \in Calls, Call(c)
  PROVE  I2IInv'
<1>1. /\ mode = "idle" /\ mode' = "op" /\ ops' = c /\ fresh' = TRUE /\ res' = "Ok"
      /\ todo' = todo /\ left' = left /\ polls' = polls
      /\ budget' = budget /\ ctl' = ctl /\ err' = err /\ tx' = tx /\ held' = held /\ rmw' = rmw
      /\ rcv' = rcv /\ nack' = nack /\ fault' = fault /\ dir' = dir /\ rx' = rx /\ ph' = ph
  BY DEF Call, hw, regs, bus, hist
<1>2. /\ rmw = <<>> /\ I2Types /\ I2cBlock /\ AtRest /\ ("AERR" \in err => "late" \in fault)
  BY <1>1, I2Between DEF I2IInv
<1>3. c \in Seq(Operation)
  BY I2cAssumption
<1>4. I2Types'
  BY <1>1, <1>2, <1>3 DEF I2Types, I2CallTypes, I2BlockTypes, I2BusTypes, I2HistTypes, I2Results
<1>5. AtRest' /\ I2cBlock'
  BY <1>1, <1>2 DEF AtRest, Settled, I2cBlock, PollsBounded
<1> QED BY <1>1, <1>2, <1>4, <1>5 DEF I2IInv, ModifyInv

\* Clocking out a held bus keeps the invariant.
LEMMA I2BusClearKeeps ==
  ASSUME I2IInv, BusClear
  PROVE  I2IInv'
<1>1. /\ mode = "idle" /\ mode' = "idle" /\ ops' = ops /\ fresh' = fresh /\ res' \in {"Ok", "BusHeld"}
      /\ todo' = todo /\ left' = left /\ polls' = polls /\ budget' = budget /\ held' = Clocked
      /\ rmw' = rmw /\ rcv' = rcv /\ nack' = nack /\ fault' = {} /\ SoftReset
  BY DEF BusClear, SoftReset, call
<1>2. /\ rmw = <<>> /\ I2Types /\ I2cBlock
  BY <1>1, I2Between DEF I2IInv
<1>3. held' \in 0 .. MaxPulses + 1
  BY <1>1, <1>2, I2cAssumption DEF Clocked, I2Types, I2BusTypes
<1>4. I2BlockTypes' /\ I2BusTypes' /\ Settled' /\ ~ctl'.poap /\ ph' = "free" /\ err' = {}
  BY <1>1, <1>2, <1>3, I2SoftReset DEF I2Types
<1>5. I2Types'
  BY <1>1, <1>2, <1>4 DEF I2Types, I2CallTypes, I2HistTypes, I2Results
<1>6. AtRest' /\ I2cBlock'
  BY <1>1, <1>2, <1>4 DEF AtRest, I2cBlock, PollsBounded
<1> QED BY <1>1, <1>2, <1>5, <1>6 DEF I2IInv, ModifyInv

\* A read of no bytes keeps the invariant.
LEMMA I2EmptyReadKeeps ==
  ASSUME I2IInv, EmptyRead
  PROVE  I2IInv'
<1>1. /\ mode = "op" /\ mode' = "op" /\ ops # <<>> /\ ops' = Tail(ops) /\ fresh' = TRUE /\ res' = res
      /\ todo' = todo /\ left' = left /\ polls' = polls
      /\ budget' = budget /\ ctl' = ctl /\ err' = err /\ tx' = tx /\ held' = held /\ rmw' = rmw
      /\ rcv' = rcv /\ nack' = nack /\ fault' = fault /\ dir' = dir /\ rx' = rx /\ ph' = ph
  BY DEF EmptyRead, hw, regs, bus, hist
<1>2. /\ rmw = <<>> /\ I2Types /\ I2cBlock /\ AtRest /\ ("AERR" \in err => "late" \in fault) /\ res = "Ok"
  BY <1>1, I2Between, I2KeptRests DEF I2IInv
<1>3. ops' \in Seq(Operation)
  BY <1>1, <1>2 DEF I2Types, I2CallTypes
<1>4. I2Types'
  BY <1>1, <1>2, <1>3 DEF I2Types, I2CallTypes, I2BlockTypes, I2BusTypes, I2HistTypes
<1>5. AtRest' /\ I2cBlock'
  BY <1>1, <1>2 DEF AtRest, Settled, I2cBlock, PollsBounded
<1> QED BY <1>1, <1>2, <1>4, <1>5 DEF I2IInv, ModifyInv

\* The start of an acquisition keeps the invariant.
LEMMA I2AcquireKeeps ==
  ASSUME I2IInv, Acquire
  PROVE  I2IInv'
<1>1. /\ mode = "op" /\ fresh /\ mode' = "gate" /\ ops # <<>> /\ Head(ops) # [kind |-> "read", n |-> 0]
      /\ ops' = ops /\ fresh' = fresh /\ res' = res /\ left' = PollBudget /\ budget' = IdleBudget /\ polls' = 0
      /\ todo' = todo /\ ctl' = ctl /\ err' = err /\ tx' = tx /\ held' = held /\ rmw' = rmw
      /\ rcv' = rcv /\ nack' = nack /\ fault' = fault /\ dir' = dir /\ rx' = rx /\ ph' = ph
  BY DEF Acquire, NextOp, hw, regs, bus
<1>2. /\ rmw = <<>> /\ I2Types /\ I2cBlock /\ AtRest /\ ("AERR" \in err => "late" \in fault) /\ res = "Ok"
  BY <1>1, I2Between DEF I2IInv
<1>3. PollBudget \in Nat /\ IdleBudget \in Nat /\ IdleBudget > 0
  BY I2cAssumption
<1>4. I2Types'
  BY <1>1, <1>2, <1>3 DEF I2Types, I2CallTypes, I2BlockTypes, I2BusTypes, I2HistTypes
<1>5. AtRest' /\ I2cBlock'
  BY <1>1, <1>2, <1>3 DEF AtRest, Settled, I2cBlock, PollsBounded
<1> QED BY <1>1, <1>2, <1>3, <1>4, <1>5 DEF I2IInv, ModifyInv

\* A transfer begins on a bus that is ready for it.
LEMMA I2RunKeeps ==
  ASSUME I2IInv, mode \in {"op", "gate", "recheck"}, ops # <<>>, Head(ops) # [kind |-> "read", n |-> 0],
         Run, left' = left, polls' = polls, Ready("any"), held = 0,
         left = 0 => fault # {}, polls + left <= PollBudget + IdleBudget + 1
  PROVE  I2IInv'
<1>1. /\ mode' = "run" /\ todo' = Inner(Head(ops)) /\ rcv' = <<>> /\ nack' = "none"
      /\ ops' = ops /\ fresh' = fresh /\ res' = res /\ budget' = budget /\ fault' = fault
      /\ ctl' = ctl /\ err' = err /\ tx' = tx /\ held' = held /\ rmw' = rmw
      /\ dir' = dir /\ rx' = rx /\ ph' = ph
  BY DEF Run, hw, regs, bus
<1>2. /\ rmw = <<>> /\ I2Types /\ I2cBlock /\ ("AERR" \in err => "late" \in fault) /\ res = "Ok"
  BY I2Between DEF I2IInv
<1>3. rcv' \in Seq(Nat)
  BY <1>1
<1>4. I2Types'
  BY <1>1, <1>2, <1>3 DEF I2Types, I2CallTypes, I2BlockTypes, I2BusTypes, I2HistTypes
<1>5. I2cBlock'
  BY <1>1, <1>2 DEF I2cBlock, PollsBounded
<1>6. Ready("any")'
  BY <1>1 DEF Ready, Quiet, Acks
<1>7. Stored(0)'
  BY <1>1 DEF Stored
<1>8. TransferAt(0)' /\ (0 \in 0 .. Len(Inner(Head(ops))))'
  <2>1. ops \in Seq(Operation)
    BY <1>2 DEF I2Types, I2CallTypes
  <2> QED BY <1>1, <1>6, <1>7, <2>1, I2RunStart
<1>9. RunInv'
  <2>1. (\E d \in 0 .. Len(Inner(Head(ops))) : TransferAt(d))'
    BY <1>8
  <2> QED BY <1>1, <1>2, <2>1 DEF RunInv, Whole
<1> QED BY <1>1, <1>2, <1>4, <1>5, <1>9 DEF I2IInv, ModifyInv

\* Going on over a kept bus keeps the invariant.
LEMMA I2ContinueKeeps ==
  ASSUME I2IInv, Continue
  PROVE  I2IInv'
<1>1. /\ mode = "op" /\ ~fresh /\ ops # <<>> /\ Head(ops) # [kind |-> "read", n |-> 0] /\ Run
      /\ left' = left /\ polls' = polls
  BY DEF Continue, NextOp
<1>2. Kept
  BY <1>1 DEF I2IInv
<1>3. held = 0
  BY <1>2 DEF Kept, I2IInv, I2cBlock, I2Types, I2BusTypes
<1> QED BY <1>1, <1>2, <1>3, I2RunKeeps DEF Kept

\* A bus-idle wait that ends keeps the invariant, on a free bus with nothing requested.
LEMMA I2GateOpenKeeps ==
  ASSUME I2IInv, GateOpen
  PROVE  I2IInv' /\ ph = "free" /\ held = 0 /\ ~ctl.start /\ ~ctl.stop
<1>1. /\ mode \in {"gate", "recheck"} /\ ~Busy /\ Run /\ left' = left /\ polls' = polls
  BY DEF GateOpen
<1>2. AtRest /\ ops # <<>> /\ Head(ops) # [kind |-> "read", n |-> 0] /\ I2Types
  BY <1>1 DEF I2IInv
<1>3. ph = "free" /\ held = 0
  BY <1>1, <1>2 DEF Busy, I2Types, I2BusTypes
<1>4. ~ctl.start /\ ~ctl.stop /\ Ready("any")
  BY <1>2, <1>3 DEF AtRest, Settled, Ready, Quiet, Acks
<1>5. left > 0 /\ polls + left <= PollBudget + IdleBudget + 1
  <2>1. polls \in Nat /\ left \in 0 .. PollBudget /\ budget \in 0 .. IdleBudget
    BY <1>2 DEF I2Types, I2CallTypes, I2HistTypes
  <2>2. CASE mode = "recheck"
    BY <2>2 DEF I2IInv
  <2>3. CASE mode = "gate"
    <3>1. budget > 0 /\ polls + left = PollBudget /\ left + IdleBudget = budget + PollBudget
      BY <2>3 DEF I2IInv
    <3> QED BY <2>1, <3>1, I2cAssumption
  <2> QED BY <1>1, <2>2, <2>3
<1> QED BY <1>1, <1>2, <1>3, <1>4, <1>5, I2RunKeeps

\* A poll of the bus-idle wait keeps the invariant.
LEMMA I2GatePollKeeps ==
  ASSUME I2IInv, GatePoll
  PROVE  I2IInv'
<1>1. /\ mode = "gate" /\ budget > 1 /\ left > 0 /\ budget' = budget - 1 /\ left' = left - 1 /\ polls' = polls + 1
      /\ Slow /\ mode' = mode /\ ops' = ops /\ fresh' = fresh /\ res' = res
      /\ todo' = todo /\ ctl' = ctl /\ err' = err /\ tx' = tx /\ held' = held /\ rmw' = rmw
      /\ rcv' = rcv /\ nack' = nack /\ dir' = dir /\ rx' = rx /\ ph' = ph
  BY DEF GatePoll, hw, regs, bus
<1>2. /\ rmw = <<>> /\ I2Types /\ I2cBlock /\ AtRest /\ ("AERR" \in err => "late" \in fault) /\ res = "Ok"
      /\ ops # <<>> /\ Head(ops) # [kind |-> "read", n |-> 0]
      /\ polls + left = PollBudget /\ left + IdleBudget = budget + PollBudget
  BY <1>1, I2Between DEF I2IInv
<1>3. /\ fault' \subseteq {"late", "fresh"} /\ fault \subseteq fault'
  BY <1>1, <1>2, I2Slow DEF I2Types, I2HistTypes
<1>4. /\ polls \in Nat /\ left \in 0 .. PollBudget /\ budget \in 0 .. IdleBudget /\ PollBudget \in Nat /\ IdleBudget \in Nat
  BY <1>2, I2cAssumption DEF I2Types, I2CallTypes, I2HistTypes
<1>5. /\ left' \in 0 .. PollBudget /\ budget' \in 0 .. IdleBudget /\ budget' > 0 /\ polls' \in Nat
      /\ polls' + left' = PollBudget /\ left' + IdleBudget = budget' + PollBudget
      /\ polls' <= PollBudget + 2 * IdleBudget + 1
  BY <1>1, <1>2, <1>4
<1>6. I2Types'
  BY <1>1, <1>2, <1>3, <1>5 DEF I2Types, I2CallTypes, I2BlockTypes, I2BusTypes, I2HistTypes
<1>7. AtRest' /\ I2cBlock'
  BY <1>1, <1>2, <1>3, <1>5 DEF AtRest, Settled, I2cBlock, PollsBounded
<1> QED BY <1>1, <1>2, <1>5, <1>6, <1>7 DEF I2IInv, ModifyInv

\* A bus-idle wait that gives up keeps the invariant.
LEMMA I2GateGiveUpKeeps ==
  ASSUME I2IInv, GateGiveUp
  PROVE  I2IInv'
<1>1. /\ mode = "gate" /\ polls' = polls + 1 /\ Slow /\ mode' = "recover" /\ todo' = RecoverInner
      /\ left' = left /\ budget' = budget /\ ops' = ops /\ fresh' = fresh /\ res' = res
      /\ ctl' = ctl /\ err' = err /\ tx' = tx /\ held' = held /\ rmw' = rmw
      /\ rcv' = rcv /\ nack' = nack /\ dir' = dir /\ rx' = rx /\ ph' = ph
  BY DEF GateGiveUp, Recover, hw, regs, bus
<1>2. /\ rmw = <<>> /\ I2Types /\ I2cBlock /\ AtRest /\ res = "Ok"
      /\ ops # <<>> /\ Head(ops) # [kind |-> "read", n |-> 0]
      /\ budget > 0 /\ polls + left = PollBudget /\ left + IdleBudget = budget + PollBudget
  BY <1>1, I2Between DEF I2IInv
<1>3. /\ fault' \subseteq {"late", "fresh"} /\ fault \subseteq fault'
  BY <1>1, <1>2, I2Slow DEF I2Types, I2HistTypes
<1>4. /\ polls \in Nat /\ left \in 0 .. PollBudget /\ budget \in 0 .. IdleBudget /\ PollBudget \in Nat
      /\ IdleBudget \in 1 .. PollBudget
  BY <1>2, I2cAssumption DEF I2Types, I2CallTypes, I2HistTypes
<1>5. /\ left > 0 /\ polls' \in Nat /\ polls' + left <= PollBudget + 1 /\ polls' + left <= PollBudget + IdleBudget + 1
      /\ polls' <= PollBudget + 2 * IdleBudget + 1
  BY <1>1, <1>2, <1>4
<1>6. I2Types'
  BY <1>1, <1>2, <1>3, <1>5 DEF I2Types, I2CallTypes, I2BlockTypes, I2BusTypes, I2HistTypes
<1>7. I2cBlock'
  BY <1>1, <1>2, <1>3, <1>5 DEF I2cBlock, PollsBounded
<1>8. RecoverAt(0)'
  <2>1. todo' = Left(RecoverInner, 0)
    BY <1>1, I2LeftAll, I2RecoverWords
  <2>2. ~ctl.start
    BY <1>2 DEF AtRest, Settled
  <2> QED BY <1>1, <1>2, <1>5, <2>1, <2>2 DEF RecoverAt
<1>9. RecoverInv'
  BY <1>1, <1>5, <1>8 DEF RecoverInv
<1> QED BY <1>1, <1>2, <1>6, <1>7, <1>9 DEF I2IInv, ModifyInv

\* A bus still held after a recovery keeps the invariant, and somebody holds it.
LEMMA I2GateHeldKeeps ==
  ASSUME I2IInv, GateHeld
  PROVE  I2IInv' /\ held > 0
<1>1. /\ mode = "recheck" /\ Busy /\ mode' = "idle" /\ res' = "Bus"
      /\ ops' = ops /\ fresh' = fresh /\ left' = left /\ budget' = budget
      /\ todo' = todo /\ ctl' = ctl /\ err' = err /\ tx' = tx /\ held' = held /\ rmw' = rmw
      /\ rcv' = rcv /\ nack' = nack /\ fault' = fault /\ polls' = polls /\ dir' = dir /\ rx' = rx /\ ph' = ph
  BY DEF GateHeld, call, hist, hw, regs, bus
<1>2. /\ rmw = <<>> /\ I2Types /\ I2cBlock /\ AtRest /\ ("AERR" \in err => "late" \in fault) /\ ph = "free"
  BY <1>1, I2Between DEF I2IInv
<1>3. I2Types'
  BY <1>1, <1>2 DEF I2Types, I2CallTypes, I2BlockTypes, I2BusTypes, I2HistTypes, I2Results
<1>4. AtRest' /\ I2cBlock'
  BY <1>1, <1>2 DEF AtRest, Settled, I2cBlock, PollsBounded
<1>5. held > 0
  BY <1>1, <1>2 DEF Busy
<1> QED BY <1>1, <1>2, <1>3, <1>4, <1>5 DEF I2IInv, ModifyInv

\* The return of a call keeps the invariant.
LEMMA I2ReturnKeeps ==
  ASSUME I2IInv, I2cReturn
  PROVE  I2IInv'
<1>1. /\ mode = "op" /\ ops = <<>> /\ mode' = "idle" /\ res' = res
      /\ ops' = ops /\ fresh' = fresh /\ left' = left /\ budget' = budget
      /\ todo' = todo /\ ctl' = ctl /\ err' = err /\ tx' = tx /\ held' = held /\ rmw' = rmw
      /\ rcv' = rcv /\ nack' = nack /\ fault' = fault /\ polls' = polls /\ dir' = dir /\ rx' = rx /\ ph' = ph
  BY DEF I2cReturn, call, hist, hw, regs, bus
<1>2. /\ rmw = <<>> /\ I2Types /\ I2cBlock /\ AtRest /\ ("AERR" \in err => "late" \in fault)
  BY <1>1, I2Between, I2KeptRests
<1>3. I2Types'
  BY <1>1, <1>2 DEF I2Types, I2CallTypes, I2BlockTypes, I2BusTypes, I2HistTypes
<1>4. AtRest' /\ I2cBlock'
  BY <1>1, <1>2 DEF AtRest, Settled, I2cBlock, PollsBounded
<1> QED BY <1>1, <1>2, <1>3, <1>4 DEF I2IInv, ModifyInv

\* The end of one operation of a list keeps the invariant.
LEMMA I2OpDoneKeeps ==
  ASSUME I2IInv, OpDone
  PROVE  I2IInv'
<1>1. /\ mode = "run" /\ todo = <<>> /\ mode' = "op" /\ ops' = Tail(ops) /\ res' = res
      /\ fresh' = (Head(ops).kind = "read" \/ Len(ops) = 1)
      /\ todo' = todo /\ left' = left /\ polls' = polls
      /\ budget' = budget /\ ctl' = ctl /\ err' = err /\ tx' = tx /\ held' = held /\ rmw' = rmw
      /\ rcv' = rcv /\ nack' = nack /\ fault' = fault /\ dir' = dir /\ rx' = rx /\ ph' = ph
  BY DEF OpDone, hw, regs, bus, hist
<1>2. /\ I2Types /\ I2cBlock /\ ModifyInv /\ RunInv /\ res = "Ok" /\ ops # <<>> /\ Head(ops) # [kind |-> "read", n |-> 0]
  BY <1>1 DEF I2IInv
<1>3. rmw = <<>> /\ ops \in Seq(Operation)
  BY <1>1, <1>2 DEF ModifyInv, I2Types, I2CallTypes
<1>4. PICK d \in 0 .. Len(Inner(Head(ops))) : TransferAt(d)
  BY <1>2 DEF RunInv
<1>5. PICK n \in Nat : n = Head(ops).n
  BY <1>2, <1>3, I2Kinds
<1>6. \/ Head(ops).kind = "write" /\ Len(ops) = 1 /\ WriteStopped(n)
      \/ Head(ops).kind = "write" /\ Len(ops) # 1 /\ AllAcked(n)
      \/ Head(ops).kind = "read" /\ ReadStopped(n, n, n, "on")
  BY <1>1, <1>2, <1>3, <1>4, <1>5, I2RunDone
<1>7. ph # "hold"
  BY <1>6 DEF WriteStopped, AllAcked, ReadStopped
<1>8. I2Types'
  <2>1. ops' \in Seq(Operation)
    BY <1>1, <1>2, <1>3
  <2>2. fresh' \in BOOLEAN
    BY <1>1
  <2> QED BY <1>1, <1>2, <2>1, <2>2 DEF I2Types, I2CallTypes, I2BlockTypes, I2BusTypes, I2HistTypes
<1>9. I2cBlock'
  BY <1>1, <1>2, <1>7 DEF I2cBlock, PollsBounded
<1>10. CASE Head(ops).kind = "write" /\ Len(ops) # 1 /\ AllAcked(n)
  <2>1. ops' # <<>>
    <3>1. Len(ops) > 1
      <4>1. Len(ops) \in Nat /\ Len(ops) > 0
        BY <1>2, <1>3
      <4> QED BY <1>10, <4>1
    <3>2. Tail(ops) \in Seq(Operation) /\ Len(Tail(ops)) = Len(ops) - 1
      BY <1>2, <1>3, HeadTailProperties
    <3>3. Len(<<>>) = 0 /\ Len(ops) \in Nat
      BY <1>3
    <3>4. Len(ops') = Len(ops) - 1
      BY <1>1, <3>2
    <3> QED BY ONLY <3>1, <3>3, <3>4
  <2>2. ~fresh'
    BY <1>1, <1>10
  <2>3. Kept'
    BY <1>1, <1>2, <1>10, <2>1 DEF AllAcked, Kept, Ready, Quiet, Acks, RunInv
  <2> QED BY <1>1, <1>2, <1>3, <1>8, <1>9, <2>2, <2>3 DEF I2IInv, ModifyInv
<1>11. CASE WriteStopped(n) \/ ReadStopped(n, n, n, "on")
  <2>1. fresh' \/ AllAcked(n)
    BY <1>1, <1>6
  <2>2. AtRest'
    <3>1. CASE WriteStopped(n)
      BY <1>1, <3>1 DEF WriteStopped, AtRest, Settled, Acks
    <3>2. CASE ReadStopped(n, n, n, "on")
      <4>1. rx.clocked = n /\ rx.nacked
        <5>1. rx.clocked \in Nat
          BY <1>2 DEF I2Types, I2BusTypes, I2RxSet
        <5> QED BY <3>2, <5>1 DEF ReadStopped, Taken
      <4> QED BY <1>1, <3>2, <4>1 DEF ReadStopped, AtRest, Settled, Acks
    <3> QED BY <1>11, <3>1, <3>2
  <2>3. ~AllAcked(n) => fresh'
    BY <2>1
  <2>4. AllAcked(n) => FALSE \/ fresh' \/ (Head(ops).kind = "write" /\ Len(ops) # 1 /\ AllAcked(n))
    BY <1>1, <1>6
  <2>5. CASE fresh'
    BY <1>1, <1>2, <1>3, <1>8, <1>9, <2>2, <2>5 DEF I2IInv, ModifyInv
  <2> QED BY <1>10, <2>3, <2>4, <2>5
<1> QED BY <1>6, <1>10, <1>11

\* The invariant holds at first.
LEMMA I2InitIInv == I2cInit => I2IInv
<1>1. SUFFICES ASSUME I2cInit PROVE I2IInv
  OBVIOUS
<1>2. PollBudget \in Nat /\ IdleBudget \in Nat /\ MaxPulses \in Nat
  BY I2cAssumption
<1>3. I2CallTypes
  BY <1>1, <1>2 DEF I2cInit, I2CallTypes, I2Results
<1>4. I2BlockTypes
  BY <1>1 DEF I2cInit, I2BlockTypes, Posture, I2CtlSet
<1>5. I2BusTypes
  BY <1>1, <1>2 DEF I2cInit, I2BusTypes, I2Phases, NoRx, NoTx, None, I2RxSet, I2TxSet
<1>6. I2HistTypes
  BY <1>1 DEF I2cInit, I2HistTypes
<1>7. I2cBlock /\ AtRest
  BY <1>1, <1>2 DEF I2cInit, I2cBlock, PollsBounded, AtRest, Settled, Posture
<1> QED BY <1>1, <1>3, <1>4, <1>5, <1>6, <1>7 DEF I2cInit, I2IInv, I2Types, ModifyInv

\* A step that leaves everything as it was.
LEMMA I2StutterKeeps ==
  ASSUME I2IInv, UNCHANGED i2cVars
  PROVE  I2IInv'
<1>1. /\ mode' = mode /\ ops' = ops /\ fresh' = fresh /\ left' = left /\ budget' = budget /\ todo' = todo
      /\ res' = res /\ rmw' = rmw /\ rcv' = rcv /\ polls' = polls /\ held' = held /\ ctl' = ctl /\ err' = err
      /\ ph' = ph /\ dir' = dir /\ rx' = rx /\ tx' = tx /\ nack' = nack /\ fault' = fault
  BY DEF i2cVars, call, hw, regs, bus, hist
<1>2. BusLeaves /\ BusFaults /\ BusRequests
  BY <1>1 DEF BusLeaves, BusFaults, BusRequests
<1>3. I2BlockTypes /\ I2BusTypes /\ I2HistTypes
  BY DEF I2IInv, I2Types
<1>4. BusMoves
  BY <1>1, <1>3 DEF BusMoves, Settled
<1>5. PhasesKept
  BY <1>1, I2Unmoved
<1>6. I2BlockTypes' /\ I2BusTypes' /\ I2HistTypes'
  BY <1>1, <1>3 DEF I2BlockTypes, I2BusTypes, I2HistTypes
<1>7. BusStep
  BY <1>2, <1>4, <1>5, <1>6 DEF BusStep
<1> QED BY <1>7, I2BusKeeps

\* Every step of the driver keeps the invariant.
LEMMA I2DriverKeeps ==
  ASSUME I2IInv, Driver
  PROVE  I2IInv'
<1>1. ASSUME SendAddress("addressR", "r") PROVE I2IInv'
  BY <1>1, I2SendAddressKeeps
<1>2. ASSUME SendAddress("addressW", "w") PROVE I2IInv'
  BY <1>2, I2SendAddressKeeps
<1>3. ASSUME NEW o \in DOMAIN Modifies, ModifyRead(o) \/ ModifyWrite(o) PROVE I2IInv'
  BY <1>3, I2ModifyReadKeeps, I2ModifyWriteKeeps
<1>4. ASSUME NEW f \in Flags, WaitMet(f) \/ WaitError(f) \/ WaitPoll(f) \/ WaitTimeout(f) PROVE I2IInv'
  BY <1>4, I2WaitMetKeeps, I2WaitErrorKeeps, I2WaitPollKeeps, I2WaitTimeoutKeeps
<1>5. ASSUME EmptyRead \/ Acquire \/ Continue \/ OpDone \/ I2cReturn \/ GateOpen \/ GatePoll \/ GateGiveUp \/ GateHeld
      PROVE  I2IInv'
  BY <1>5, I2EmptyReadKeeps, I2AcquireKeeps, I2ContinueKeeps, I2OpDoneKeeps, I2ReturnKeeps, I2GateOpenKeeps,
     I2GatePollKeeps, I2GateGiveUpKeeps, I2GateHeldKeeps
<1>6. ASSUME ClearAddsend \/ Transmit \/ Receive PROVE I2IInv'
  BY <1>6, I2ClearAddsendKeeps, I2TransmitKeeps, I2ReceiveKeeps
<1>7. ASSUME ClearErrors \/ IfMaster \/ Spin \/ BusyNotMaster \/ RequestStuck \/ Reset \/ RecoverDone PROVE I2IInv'
  BY <1>7, I2ClearErrorsKeeps, I2IfMasterKeeps, I2SpinKeeps, I2BusyNotMasterKeeps, I2RequestStuckKeeps,
     I2ResetKeeps, I2RecoverDoneKeeps
<1> QED BY <1>1, <1>2, <1>3, <1>4, <1>5, <1>6, <1>7 DEF Driver

\* Every step keeps the invariant.
LEMMA I2NextIInv ==
  ASSUME I2IInv, ~StopMidModify, [I2cNext]_i2cVars
  PROVE  I2IInv'
<1>1. CASE \E c \in Calls : Call(c)
  BY <1>1, I2CallKeeps
<1>2. CASE BusClear
  BY <1>2, I2BusClearKeeps
<1>3. CASE Driver
  BY <1>3, I2DriverKeeps
<1>4. CASE Environment
  <2>1. BusStep
    BY <1>4, I2BusStep DEF I2IInv
  <2> QED BY <2>1, I2BusKeeps
<1>5. CASE UNCHANGED i2cVars
  BY <1>5, I2StutterKeeps
<1> QED BY <1>1, <1>2, <1>3, <1>4, <1>5 DEF I2cNext

\* The invariant implies what the runs check.
LEMMA I2IInvSafe == I2IInv => I2cSafe
<1>1. SUFFICES ASSUME I2IInv PROVE I2cSafe
  OBVIOUS
<1>2. I2Types /\ I2cBlock
  BY <1>1 DEF I2IInv
<1>3. I2cTypeOK
  BY <1>2 DEF I2cTypeOK, I2Types, I2CallTypes, I2BlockTypes, I2BusTypes, I2CtlSet, I2Errors, I2Results, I2Phases
<1>4. ASSUME mode = "run", NEW d \in 0 .. Len(Inner(Head(ops))), TransferAt(d), todo = <<>>, NEW n \in Nat, n = Head(ops).n
      PROVE  \/ Head(ops).kind = "write" /\ tx = [queued |-> 0, acked |-> n]
             \/ Head(ops).kind = "read" /\ Stored(n) /\ rx.clocked = n /\ rx.nacked
  <2>1. ops \in Seq(Operation) /\ ops # <<>> /\ Head(ops) # [kind |-> "read", n |-> 0]
    BY <1>1, <1>2, <1>4 DEF I2IInv, I2Types, I2CallTypes
  <2>2. \/ Head(ops).kind = "write" /\ WriteStopped(n)
        \/ Head(ops).kind = "write" /\ AllAcked(n)
        \/ Head(ops).kind = "read" /\ ReadStopped(n, n, n, "on")
    BY <1>4, <2>1, I2RunDone
  <2>3. rx.clocked \in Nat
    BY <1>2 DEF I2Types, I2BusTypes, I2RxSet
  <2> QED BY <2>2, <2>3 DEF WriteStopped, AllAcked, ReadStopped, Taken
<1>5. ReadExact /\ WriteExact
  <2>1. SUFFICES ASSUME mode = "run", todo = <<>> PROVE ReadExact /\ WriteExact
    BY DEF ReadExact, WriteExact, Completed
  <2>2. PICK d \in 0 .. Len(Inner(Head(ops))) : TransferAt(d)
    BY <1>1, <2>1 DEF I2IInv, RunInv
  <2>3. PICK n \in Nat : n = Head(ops).n
    BY <1>1, <1>2, <2>1, I2Kinds DEF I2IInv, I2Types, I2CallTypes
  <2>4. \/ Head(ops).kind = "write" /\ tx = [queued |-> 0, acked |-> n]
        \/ Head(ops).kind = "read" /\ Stored(n) /\ rx.clocked = n /\ rx.nacked
    BY <1>4, <2>1, <2>2, <2>3
  <2> QED BY <2>3, <2>4 DEF ReadExact, WriteExact, Stored
<1>6. NoWedge
  <2>1. SUFFICES ASSUME mode # "recover" PROVE ph # "wedged"
    BY DEF NoWedge
  <2>2. CASE mode = "run"
    <3>1. ops # <<>> /\ Head(ops) # [kind |-> "read", n |-> 0]
      BY <1>1, <2>2 DEF I2IInv
    <3>2. PICK d \in 0 .. Len(Inner(Head(ops))) : TransferAt(d)
      BY <1>1, <2>2 DEF I2IInv, RunInv
    <3> QED BY <1>2, <3>1, <3>2, I2RunStages
  <2>3. CASE mode # "run"
    <3>1. AtRest
      BY <1>1, <1>2, <2>1, <2>3, I2KeptRests DEF I2IInv, I2Types, I2CallTypes
    <3> QED BY <3>1 DEF AtRest, Settled
  <2> QED BY <2>2, <2>3
<1> QED BY <1>2, <1>3, <1>5, <1>6 DEF I2cSafe, I2cBlock

\* For every list of calls, every length of a transfer and every budget, and
\* whatever the bus does: a read or a write that returns Ok is exact to the
\* byte, the driver never wedges the block in a transfer, and no acquisition
\* polls longer than its budgets, provided no STOP finishes inside a
\* read-modify-write of CTL0.
THEOREM I2cSafety ==
  ASSUME ~StopMidModify
  PROVE  I2cSpec => []I2cSafe
<1>1. I2cInit => I2IInv
  BY I2InitIInv
<1>2. I2IInv /\ [I2cNext]_i2cVars => I2IInv'
  BY I2NextIInv
<1>3. I2IInv => I2cSafe
  BY I2IInvSafe
<1> QED BY <1>1, <1>2, <1>3, PTL DEF I2cSpec

---------------------------------------------------------------------------
(* What the steps may not do. *)

StartsFresh == mode \in {"gate", "recheck"} /\ mode' = "run" => ph = "free" /\ held = 0 /\ ~ctl.start /\ ~ctl.stop
OwnsFault == res' \notin {res, "Ok", "BusHeld"} => fault # {} \/ held > 0
ReportsRefusal ==
  /\ res' # res /\ "late" \notin fault
  /\ res' \in {"NackAddress", "NackData"}
  => res' = (IF nack = "address" THEN "NackAddress" ELSE "NackData") /\ nack # "none"

\* Most steps begin no transfer and report no error.
Calm == ~(mode \in {"gate", "recheck"} /\ mode' = "run") /\ res' \in {res, "Ok", "BusHeld", "Bus", "Timeout"}

\* A step that neither starts a transfer nor reports a refusal owes nothing for them.
LEMMA I2Calm ==
  ASSUME Calm
  PROVE  StartsFresh /\ ReportsRefusal
  BY DEF Calm, StartsFresh, ReportsRefusal

\* A step that reports no failure owes no fault.
LEMMA I2Silent ==
  ASSUME res' \in {res, "Ok", "BusHeld"}
  PROVE  OwnsFault
  BY DEF OwnsFault

\* A wait that finds an error flag keeps its word: the fault and the refusal are the call's own.
LEMMA I2WaitErrorSteps ==
  ASSUME I2IInv, NEW f \in Flags, WaitError(f)
  PROVE  StartsFresh /\ OwnsFault /\ ReportsRefusal
<1>1. /\ Steps(f) /\ err # {} /\ res' = ErrorOf(f) /\ mode' = "recover"
  BY DEF WaitError, Recover
<1>2. mode \in {"run", "recover"} /\ todo # <<>> /\ Head(todo) = f
  BY <1>1 DEF Steps
<1>3. mode = "run"
  BY <1>2, I2TransferOnly DEF RecoverWords, Flags
<1>4. fault # {} /\ ("AERR" \in err /\ "late" \notin fault => ph = "hold")
  BY <1>1, <1>3 DEF I2IInv, I2cBlock
<1>5. PICK d \in 0 .. Len(Inner(Head(ops))) - 1 : WaitRow(d)
  BY <1>2, <1>3, I2RunAhead, I2WaitRowOnly
<1>6. ReportsRefusal
  <2>1. SUFFICES ASSUME "late" \notin fault, res' \in {"NackAddress", "NackData"}
                 PROVE  res' = (IF nack = "address" THEN "NackAddress" ELSE "NackData") /\ nack # "none"
    BY DEF ReportsRefusal
  <2>2. "AERR" \in err /\ res' = IF f \in {"SBSEND", "ADDSEND"} THEN "NackAddress" ELSE "NackData"
    BY <1>1, <2>1 DEF ErrorOf
  <2>3. /\ f \in {"SBSEND", "ADDSEND"} => nack = "address"
        /\ f \notin {"SBSEND", "ADDSEND"} => nack = "data"
    BY <1>2, <1>4, <1>5, <2>1, <2>2, I2WaitRefused
  <2> QED BY <2>2, <2>3
<1> QED BY <1>1, <1>4, <1>6 DEF StartsFresh, OwnsFault

\* A wait that times out met a fault of its own.
LEMMA I2WaitTimeoutSteps ==
  ASSUME I2IInv, NEW f \in Flags, WaitTimeout(f)
  PROVE  StartsFresh /\ OwnsFault /\ ReportsRefusal
<1>1. /\ Steps(f) /\ left = 0 /\ res' = "Timeout" /\ mode' = "recover"
  BY DEF WaitTimeout, Recover
<1>2. mode \in {"run", "recover"} /\ todo # <<>> /\ Head(todo) = f
  BY <1>1 DEF Steps
<1>3. mode = "run"
  BY <1>2, I2TransferOnly DEF RecoverWords, Flags
<1>4. fault # {}
  BY <1>1, <1>3 DEF I2IInv, RunInv
<1> QED BY <1>1, <1>4 DEF StartsFresh, OwnsFault, ReportsRefusal

\* Every step of the driver keeps its word.
LEMMA I2DriverSteps ==
  ASSUME I2IInv, Driver
  PROVE  StartsFresh /\ OwnsFault /\ ReportsRefusal
<1>1. ASSUME SendAddress("addressR", "r") \/ SendAddress("addressW", "w") \/ ClearAddsend \/ Transmit \/ Receive
      PROVE  Calm /\ res' = res
  BY <1>1 DEF SendAddress, ClearAddsend, Transmit, Receive, Do, Steps, Calm
<1>2. ASSUME NEW o \in DOMAIN Modifies, ModifyRead(o) \/ ModifyWrite(o)
      PROVE  Calm /\ res' = res
  BY <1>2 DEF ModifyRead, ModifyWrite, Do, Steps, Calm
<1>3. ASSUME NEW f \in Flags, WaitMet(f) \/ WaitPoll(f)
      PROVE  Calm /\ res' = res
  BY <1>3 DEF WaitMet, WaitPoll, Do, Steps, Calm
<1>4. ASSUME NEW f \in Flags, WaitError(f) \/ WaitTimeout(f)
      PROVE  StartsFresh /\ OwnsFault /\ ReportsRefusal
  BY <1>4, I2WaitErrorSteps, I2WaitTimeoutSteps
<1>5. ASSUME EmptyRead \/ Acquire \/ Continue \/ OpDone \/ I2cReturn \/ GatePoll \/ GateGiveUp
      PROVE  Calm /\ res' = res
  BY <1>5 DEF EmptyRead, Acquire, Continue, NextOp, Run, OpDone, I2cReturn, GatePoll, GateGiveUp, Recover, Calm
<1>6. ASSUME GateOpen
      PROVE  StartsFresh /\ OwnsFault /\ ReportsRefusal
  <2>1. ph = "free" /\ held = 0 /\ ~ctl.start /\ ~ctl.stop
    BY <1>6, I2GateOpenKeeps
  <2>2. res' = res
    BY <1>6 DEF GateOpen, Run
  <2> QED BY <2>1, <2>2 DEF StartsFresh, OwnsFault, ReportsRefusal
<1>7. ASSUME GateHeld
      PROVE  StartsFresh /\ OwnsFault /\ ReportsRefusal
  <2>1. held > 0
    BY <1>7, I2GateHeldKeeps
  <2>2. Calm
    BY <1>7 DEF GateHeld, Calm
  <2> QED BY <2>1, <2>2, I2Calm DEF OwnsFault
<1>8. ASSUME ClearErrors \/ IfMaster \/ Spin \/ BusyNotMaster \/ RequestStuck \/ Reset \/ RecoverDone
      PROVE  Calm /\ res' = res
  BY <1>8 DEF ClearErrors, IfMaster, Spin, BusyNotMaster, RequestStuck, Reset, RecoverDone, Jump, Do, Steps, Calm
<1> QED BY <1>1, <1>2, <1>3, <1>4, <1>5, <1>6, <1>7, <1>8, I2Calm, I2Silent DEF Driver

\* Every step keeps its word.
LEMMA I2NextSteps ==
  ASSUME I2IInv, I2cNext
  PROVE  StartsFresh /\ OwnsFault /\ ReportsRefusal
<1>1. ASSUME NEW c \in Calls, Call(c) PROVE Calm /\ res' = "Ok"
  BY <1>1 DEF Call, Calm
<1>2. ASSUME BusClear PROVE Calm /\ res' \in {"Ok", "BusHeld"}
  BY <1>2 DEF BusClear, Calm
<1>3. ASSUME Environment PROVE Calm /\ res' = res
  <2>1. mode' = mode /\ res' = res
    BY <1>3 DEF Environment, StartSent, AddressAcked, AddressRefused, ByteReceived, ByteAcked, ByteRefused, StopSent,
       Wedge, BusError, Bus
  <2> QED BY <2>1 DEF Calm
<1> QED BY <1>1, <1>2, <1>3, I2DriverSteps, I2Calm, I2Silent DEF I2cNext

\* For every list of calls and every budget, and whatever the bus does: a
\* transfer starts only on a bus that is free with nothing requested, a call
\* that fails met a fault of its own, and a refusal is reported as what the
\* slave refused, provided no STOP finishes inside a read-modify-write of CTL0.
THEOREM I2cStepsHold ==
  ASSUME ~StopMidModify
  PROVE  I2cSpec => I2cSteps
<1>1. I2cInit => I2IInv
  BY I2InitIInv
<1>2. I2IInv /\ [I2cNext]_i2cVars => I2IInv'
  BY I2NextIInv
<1>3. I2IInv /\ [I2cNext]_i2cVars =>
        [(mode \in {"gate", "recheck"} /\ mode' = "run") =>
           (ph = "free" /\ held = 0 /\ ~ctl.start /\ ~ctl.stop)]_i2cVars
  BY I2NextSteps DEF StartsFresh
<1>4. I2IInv /\ [I2cNext]_i2cVars => [res' \notin {res, "Ok", "BusHeld"} => fault # {} \/ held > 0]_i2cVars
  BY I2NextSteps DEF OwnsFault
<1>5. I2IInv /\ [I2cNext]_i2cVars =>
        [/\ res' # res /\ "late" \notin fault
         /\ res' \in {"NackAddress", "NackData"}
         => res' = (IF nack = "address" THEN "NackAddress" ELSE "NackData") /\ nack # "none"]_i2cVars
  BY I2NextSteps DEF ReportsRefusal
<1> QED BY <1>1, <1>2, <1>3, <1>4, <1>5, PTL DEF I2cSpec, I2cSteps, FreshStart, NoLatch, NackHonest
=============================================================================
