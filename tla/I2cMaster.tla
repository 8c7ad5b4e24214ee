------------------------------ MODULE I2cMaster ------------------------------
(* The polled I2C master of src/src/i2c.rs against the bus.

   A call is a list of operations (transaction; read, write and write_read are
   lists of one or two). Each transfer is the sequence of register operations
   its code performs, run one at a time from todo, so that the peripheral and
   the bus move between any two of them. A read-modify-write of CTL0 is two
   steps. The bus has no other master: it may stall for ever, refuse an
   address or a byte or report an error at any point, but it is never lost.

   Bytes are their positions in the transfer. A poll is one pass of a waiting
   loop: the code's budgets count polls, and so do PollBudget and IdleBudget. *)
EXTENDS Integers, Sequences

CONSTANTS
  Calls,          \* the operation lists the application submits
  PollBudget,     \* poll_budget: polls one bus acquisition may spend
  IdleBudget,     \* idle_budget, a tenth of it: polls of the bus-idle wait and of the STOP wait
  MaxPulses,      \* BUS_CLEAR_MAX_PULSES
  BusErrors,      \* the error flags the bus raises besides AERR
  StopMidModify   \* may a STOP finish inside a read-modify-write of CTL0?

Operation == [kind : {"read", "write"}, n : Nat]
None == 0

ASSUME I2cAssumption ==
  /\ \A c \in Calls : c \in Seq(Operation)
  /\ PollBudget \in Nat \ {0} /\ IdleBudget \in 1 .. PollBudget /\ MaxPulses \in Nat
  /\ BusErrors \subseteq {"BERR", "OUERR"}
  /\ StopMidModify \in BOOLEAN

VARIABLES
  mode,    \* idle, op, gate, run, recover or recheck: where the call is
  ops,     \* operations of the call still to do
  fresh,   \* does the next operation acquire the bus?
  todo,    \* register operations still to perform
  left,    \* txn_left
  budget,  \* the local budget of the idle wait or of the STOP wait
  res,     \* the result of the call so far
  rmw,     \* CTL0 as a modify in progress read it, if there is one
  ctl,     \* START, STOP, ACKEN and POAP of CTL0
  err,     \* the sticky error flags of STAT0
  ph,      \* what the bus is doing, seen from this master
  dir,     \* R/W bit of the last address byte
  rx,      \* DATA and shift register, bytes clocked, last one refused?
  tx,      \* bytes queued in DATA and the shift register, bytes acknowledged
  held,    \* clock pulses a slave needs before it lets SDA go
  rcv,     \* history: bytes stored in the caller's buffer
  nack,    \* history: what the slave refused in this transfer
  fault,   \* history: faults of the bus since recovery last cleared the flags
  polls    \* history: polls since the bus was acquired

regs == <<ctl, err>>
bus == <<ph, dir, rx, tx, held>>
call == <<ops, fresh, left, budget>>
hist == <<rcv, nack, fault, polls>>
hw == <<regs, bus>>
i2cVars == <<mode, call, todo, res, rmw, hw, hist>>

NoRx == [dr |-> None, sh |-> None, clocked |-> 0, nacked |-> FALSE]
NoTx == [queued |-> 0, acked |-> 0]
Posture == [start |-> FALSE, stop |-> FALSE, acken |-> TRUE, poap |-> FALSE]

\* new clocks the bus first and ignores whether that freed it.
I2cInit ==
  /\ mode = "idle" /\ ops = <<>> /\ fresh = TRUE /\ todo = <<>> /\ left = 0
  /\ budget = 0 /\ res = "Ok" /\ rmw = <<>>
  /\ ctl = Posture /\ err = {} /\ ph = "free" /\ dir = "w"
  /\ rx = NoRx /\ tx = NoTx /\ held \in {0, MaxPulses + 1}
  /\ rcv = <<>> /\ nack = "none" /\ fault = {} /\ polls = 0
------------------------------------------------------------------------------
(* What STAT0 and STAT1 show. *)

Master == ph \in {"sb", "addr", "ack", "tx", "rx", "hold"}
Busy == ph # "free" \/ held > 0

Flag == [SBSEND  |-> ph = "sb",
         ADDSEND |-> ph = "ack",
         TBE     |-> ph = "tx" /\ tx.queued < 2,
         RBNE    |-> rx.dr # None,
         BTC     |-> \/ ph = "tx" /\ tx.queued = 0 /\ tx.acked > 0
                     \/ rx.dr # None /\ rx.sh # None]
Flags == {"SBSEND", "ADDSEND", "TBE", "RBNE", "BTC"}
------------------------------------------------------------------------------
(* The bus and the peripheral. *)

CanStart ==
  /\ ctl.start /\ held = 0
  /\ \/ ph = "free"
     \/ ph = "tx" /\ tx.queued = 0
CanReceive == ph = "rx" /\ ~rx.nacked /\ rx.sh = None
CanTransmit == ph = "tx" /\ tx.queued > 0
CanStop ==
  /\ ctl.stop /\ (rmw = <<>> \/ StopMidModify)
  /\ \/ ph \in {"sb", "ack", "hold"}
     \/ ph = "tx" /\ tx.queued = 0
     \/ ph = "rx" /\ rx.clocked > 0
Moves == CanStart \/ CanReceive \/ CanTransmit \/ CanStop \/ ph = "addr"

\* A fault counts as late when recovery has cleared the flags already.
Fault == fault' = fault \cup {IF mode = "recover" THEN "late" ELSE "fresh"}

Bus == UNCHANGED <<mode, call, todo, res, rmw, rcv, polls>>

StartSent ==
  /\ CanStart
  /\ ctl' = [ctl EXCEPT !.start = FALSE] /\ ph' = "sb" /\ tx' = NoTx
  /\ UNCHANGED <<err, dir, rx, held, nack, fault>> /\ Bus

AddressAcked ==
  /\ ph = "addr" /\ ph' = "ack"
  /\ UNCHANGED <<regs, dir, rx, tx, held, nack, fault>> /\ Bus

AddressRefused ==
  /\ ph = "addr" /\ ph' = "hold"
  /\ err' = err \cup {"AERR"} /\ nack' = "address" /\ Fault
  /\ UNCHANGED <<ctl, dir, rx, tx, held>> /\ Bus

\* ACKEN governs the byte being received, or with POAP the one after it.
AckNext == ctl.acken \/ (ctl.poap /\ rx.clocked = 0)

\* A full DATA register leaves the byte in the shift register, with SCL held.
ByteReceived ==
  /\ CanReceive
  /\ LET k == rx.clocked + 1 IN
       rx' = [clocked |-> k, nacked |-> ~AckNext,
              dr |-> IF rx.dr = None THEN k ELSE rx.dr,
              sh |-> IF rx.dr = None THEN None ELSE k]
  /\ UNCHANGED <<regs, ph, dir, tx, held, nack, fault>> /\ Bus

ByteAcked ==
  /\ CanTransmit
  /\ tx' = [queued |-> tx.queued - 1, acked |-> tx.acked + 1]
  /\ UNCHANGED <<regs, ph, dir, rx, held, nack, fault>> /\ Bus

ByteRefused ==
  /\ CanTransmit
  /\ tx' = [tx EXCEPT !.queued = 0] /\ ph' = "hold"
  /\ err' = err \cup {"AERR"} /\ nack' = "data" /\ Fault
  /\ UNCHANGED <<ctl, dir, rx, held>> /\ Bus

StopSent ==
  /\ CanStop
  /\ ctl' = [ctl EXCEPT !.stop = FALSE] /\ ph' = "free"
  /\ UNCHANGED <<err, dir, rx, tx, held, nack, fault>> /\ Bus

\* The slave drives the bit after a byte it saw acknowledged: a STOP there may
\* never get on the bus, and the block drops MASTER with the request pending.
Wedge ==
  /\ CanStop /\ ph \in {"ack", "rx"} /\ dir = "r" /\ ~rx.nacked
  /\ ph' = "wedged"
  /\ UNCHANGED <<regs, dir, rx, tx, held, nack, fault>> /\ Bus

BusError(e) ==
  /\ Master /\ e \notin err
  /\ err' = err \cup {e} /\ Fault
  /\ UNCHANGED <<ctl, ph, dir, rx, tx, held, nack>> /\ Bus

Environment ==
  \/ StartSent \/ AddressAcked \/ AddressRefused \/ ByteReceived \/ ByteAcked
  \/ ByteRefused \/ StopSent \/ Wedge
  \/ \E e \in BusErrors : BusError(e)
------------------------------------------------------------------------------
(* The calls: transaction, and write_bytes and read_bytes up to their inner
   sequences. *)

Repeat(s, k) == [i \in 1 .. k * Len(s) |-> s[1 + ((i - 1) % Len(s))]]

WriteInner(n, stop) ==
  <<"ackOn", "start", "SBSEND", "addressW", "ADDSEND", "clear">>
    \o Repeat(<<"TBE", "transmit">>, n)
    \o (IF n > 0 THEN <<"BTC">> ELSE <<>>)
    \o (IF stop THEN <<"stop">> ELSE <<>>)

\* Mutant: the byte before the last two is read before ACKEN is cleared.
ReadInnerAckLate(n) ==
  IF n < 3 THEN <<"ackOn", "start", "SBSEND", "addressR", "ackOff", "ADDSEND", "clear",
                  "stop", "RBNE", "receive", "ackOn">>
  ELSE <<"ackOn", "start", "SBSEND", "addressR", "ADDSEND", "clear">>
         \o Repeat(<<"RBNE", "receive">>, n - 3)
         \o <<"BTC", "receive", "ackOff", "BTC", "stop", "receive",
              "RBNE", "receive", "ackOn">>

ReadInner(n) ==
  CASE n = 1 ->
         <<"ackOn", "start", "SBSEND", "addressR", "ackOff", "ADDSEND", "clear",
           "stop", "RBNE", "receive", "ackOn">>
    [] n = 2 ->
         <<"ackOn", "poapOn", "start", "SBSEND", "addressR", "ackOff", "ADDSEND",
           "clear", "BTC", "stop", "receive", "RBNE", "receive", "poapOff", "ackOn">>
    [] n > 2 ->
         <<"ackOn", "start", "SBSEND", "addressR", "ADDSEND", "clear">>
           \o Repeat(<<"RBNE", "receive">>, n - 3)
           \o <<"BTC", "ackOff", "receive", "BTC", "stop", "receive",
                "RBNE", "receive", "ackOn">>

Inner(op) ==
  IF op.kind = "read" THEN ReadInner(op.n) ELSE WriteInner(op.n, Len(ops) = 1)

\* A transfer starts: its buffer is empty and nothing is refused yet.
Run ==
  /\ mode' = "run" /\ todo' = Inner(Head(ops)) /\ rcv' = <<>> /\ nack' = "none"
  /\ UNCHANGED <<ops, fresh, budget, res, rmw, hw, fault>>

Call(c) ==
  /\ mode = "idle" /\ mode' = "op" /\ ops' = c /\ fresh' = TRUE /\ res' = "Ok"
  /\ UNCHANGED <<todo, left, budget, rmw, hw, hist>>

\* read_bytes answers an empty buffer before anything else.
EmptyRead ==
  /\ mode = "op" /\ ops # <<>> /\ Head(ops) = [kind |-> "read", n |-> 0]
  /\ ops' = Tail(ops) /\ fresh' = TRUE
  /\ UNCHANGED <<mode, todo, left, budget, res, rmw, hw, hist>>

NextOp == mode = "op" /\ ops # <<>> /\ Head(ops) # [kind |-> "read", n |-> 0]

Acquire ==
  /\ NextOp /\ fresh
  /\ mode' = "gate" /\ left' = PollBudget /\ budget' = IdleBudget /\ polls' = 0
  /\ UNCHANGED <<ops, fresh, todo, res, rmw, hw, rcv, nack, fault>>

Continue == NextOp /\ ~fresh /\ Run /\ UNCHANGED <<left, polls>>

OpDone ==
  /\ mode = "run" /\ todo = <<>> /\ mode' = "op"
  /\ fresh' = (Head(ops).kind = "read" \/ Len(ops) = 1)
  /\ ops' = Tail(ops)
  /\ UNCHANGED <<todo, left, budget, res, rmw, hw, hist>>

I2cReturn ==
  /\ mode = "op" /\ ops = <<>> /\ mode' = "idle"
  /\ UNCHANGED <<call, todo, res, rmw, hw, hist>>
------------------------------------------------------------------------------
(* wait_bus_idle. *)

\* A poll that fails while the bus could move is the bus being slow.
Slow == fault' = IF Moves THEN fault \cup {"fresh"} ELSE fault

GateOpen == mode \in {"gate", "recheck"} /\ ~Busy /\ Run /\ UNCHANGED <<left, polls>>

GatePoll ==
  /\ mode = "gate" /\ Busy /\ budget > 1 /\ left > 0
  /\ budget' = budget - 1 /\ left' = left - 1 /\ polls' = polls + 1 /\ Slow
  /\ UNCHANGED <<mode, ops, fresh, todo, res, rmw, hw, rcv, nack>>

RecoverInner ==
  <<"clearErrors", "ifMaster", "stop", "spin", "busyNotMaster", "requestStuck",
    "reset", "poapOff", "ackOn">>

Recover == mode' = "recover" /\ todo' = RecoverInner

GateGiveUp ==
  /\ mode = "gate" /\ Busy /\ (budget = 1 \/ left = 0)
  /\ polls' = polls + 1 /\ Slow /\ Recover
  /\ UNCHANGED <<ops, fresh, left, budget, res, rmw, hw, rcv, nack>>

GateHeld ==
  /\ mode = "recheck" /\ Busy /\ mode' = "idle" /\ res' = "Bus"
  /\ UNCHANGED <<call, todo, rmw, hw, hist>>
------------------------------------------------------------------------------
(* The register operations of a transfer. *)

Steps(o) == mode \in {"run", "recover"} /\ todo # <<>> /\ Head(todo) = o
Do(o) == Steps(o) /\ todo' = Tail(todo) /\ UNCHANGED <<mode, call, res>>

\* start_on_bus, stop_on_bus, set_ack and set_poap: each modifies one CTL0 bit.
Modifies ==
  [start |-> <<"start", TRUE>>, stop |-> <<"stop", TRUE>>,
   ackOn |-> <<"acken", TRUE>>, ackOff |-> <<"acken", FALSE>>,
   poapOn |-> <<"poap", TRUE>>, poapOff |-> <<"poap", FALSE>>]

ModifyRead(o) ==
  /\ Steps(o) /\ rmw = <<>> /\ rmw' = <<ctl>>
  /\ UNCHANGED <<mode, call, todo, res, hw, hist>>

ModifyWrite(o) ==
  /\ rmw # <<>> /\ Do(o) /\ rmw' = <<>>
  /\ ctl' = [rmw[1] EXCEPT ![Modifies[o][1]] = Modifies[o][2]]
  /\ UNCHANGED <<err, bus, hist>>

\* The write to DATA that puts the address out also empties the receiver.
SendAddress(o, d) ==
  /\ Do(o)
  /\ IF ph = "sb" THEN ph' = "addr" /\ dir' = d /\ rx' = NoRx
     ELSE UNCHANGED <<ph, dir, rx>>
  /\ UNCHANGED <<regs, tx, held, rmw, hist>>

ClearAddsend ==
  /\ Do("clear")
  /\ ph' = IF ph # "ack" THEN ph ELSE IF dir = "r" THEN "rx" ELSE "tx"
  /\ UNCHANGED <<regs, dir, rx, tx, held, rmw, hist>>

Transmit ==
  /\ Do("transmit")
  /\ tx' = IF ph = "tx" THEN [tx EXCEPT !.queued = @ + 1] ELSE tx
  /\ UNCHANGED <<regs, ph, dir, rx, held, rmw, hist>>

\* Reading DATA moves the byte held in the shift register up.
Receive ==
  /\ Do("receive")
  /\ rcv' = Append(rcv, rx.dr) /\ rx' = [rx EXCEPT !.dr = rx.sh, !.sh = None]
  /\ UNCHANGED <<regs, ph, dir, tx, held, rmw, nack, fault, polls>>
------------------------------------------------------------------------------
(* wait_flag and spend. *)

ErrorOf(f) ==
  IF "BERR" \in err THEN "Bus"
  ELSE IF "LOSTARB" \in err THEN "ArbitrationLoss"
  ELSE IF "AERR" \notin err THEN "Overrun"
  ELSE IF f \in {"SBSEND", "ADDSEND"} THEN "NackAddress" ELSE "NackData"

WaitMet(f) == Do(f) /\ Flag[f] /\ UNCHANGED <<rmw, hw, hist>>

WaitError(f) ==
  /\ Steps(f) /\ ~Flag[f] /\ err # {} /\ res' = ErrorOf(f) /\ Recover
  /\ UNCHANGED <<call, rmw, hw, hist>>

WaitPoll(f) ==
  /\ Steps(f) /\ ~Flag[f] /\ err = {} /\ left > 0
  /\ left' = left - 1 /\ polls' = polls + 1 /\ Slow
  /\ UNCHANGED <<mode, ops, fresh, budget, todo, res, rmw, hw, rcv, nack>>

WaitTimeout(f) ==
  /\ Steps(f) /\ ~Flag[f] /\ err = {} /\ left = 0 /\ res' = "Timeout" /\ Recover
  /\ UNCHANGED <<call, rmw, hw, hist>>
------------------------------------------------------------------------------
(* recover and soft_reset_reinit. *)

\* Mutant: recover leaves the sticky flags.
ClearErrorsKept ==
  Do("clearErrors") /\ fault' = {} /\ UNCHANGED <<hw, rmw, rcv, nack, polls>>

ClearErrors ==
  /\ Do("clearErrors") /\ err' = {} /\ fault' = {}
  /\ UNCHANGED <<ctl, bus, rmw, rcv, nack, polls>>

Jump(o, test, there) ==
  /\ Steps(o) /\ todo' = IF test THEN there ELSE Tail(todo)
  /\ UNCHANGED <<mode, ops, fresh, left, res, rmw, hw, rcv, nack, fault>>

IfMaster ==
  /\ Jump("ifMaster", ~Master, SubSeq(todo, 4, Len(todo)))
  /\ budget' = IdleBudget /\ UNCHANGED polls

\* Mutant: recover waits for its STOP without a budget.
SpinUnbounded == Jump("spin", ctl.stop, todo) /\ UNCHANGED <<budget, polls>>

Spin ==
  /\ Jump("spin", ctl.stop /\ budget > 1, todo)
  /\ IF ctl.stop THEN budget' = budget - 1 /\ polls' = polls + 1
     ELSE UNCHANGED <<budget, polls>>

BusyNotMaster ==
  Jump("busyNotMaster", Busy /\ ~Master, Tail(Tail(todo))) /\ UNCHANGED <<budget, polls>>

RequestStuck ==
  Jump("requestStuck", ~(ctl.start \/ ctl.stop), Tail(Tail(todo)))
    /\ UNCHANGED <<budget, polls>>

\* A slave cut off in the middle of a byte may go on driving SDA.
SoftReset ==
  /\ ctl' = Posture /\ err' = {} /\ rx' = NoRx /\ tx' = NoTx /\ fault' = {}
  /\ ph' = "free"
  /\ UNCHANGED <<dir, rmw, rcv, nack, polls>>

Reset ==
  /\ Do("reset") /\ SoftReset
  /\ \/ held' = held
     \/ ph \in {"addr", "ack", "tx", "rx", "wedged"} /\ held' \in 1 .. MaxPulses + 1

RecoverDone ==
  /\ mode = "recover" /\ todo = <<>>
  /\ mode' = IF res = "Ok" THEN "recheck" ELSE "idle"
  /\ UNCHANGED <<call, todo, res, rmw, hw, hist>>

\* bus_clear_seq: up to MaxPulses pulses on SCL, as many as the slave needs. One
\* that needs more holds SDA for good.
Clocked == IF held > MaxPulses THEN held ELSE 0

\* bus_clear: the pins are clocked as GPIOs, then the block is reset.
BusClear ==
  /\ mode = "idle"
  /\ held' = Clocked /\ res' = IF Clocked = 0 THEN "Ok" ELSE "BusHeld"
  /\ SoftReset
  /\ UNCHANGED <<mode, call, todo>>

Driver ==
  \/ EmptyRead \/ Acquire \/ Continue \/ OpDone \/ I2cReturn
  \/ GateOpen \/ GatePoll \/ GateGiveUp \/ GateHeld
  \/ \E o \in DOMAIN Modifies : ModifyRead(o) \/ ModifyWrite(o)
  \/ SendAddress("addressR", "r") \/ SendAddress("addressW", "w")
  \/ ClearAddsend \/ Transmit \/ Receive
  \/ \E f \in Flags : WaitMet(f) \/ WaitError(f) \/ WaitPoll(f) \/ WaitTimeout(f)
  \/ ClearErrors \/ IfMaster \/ Spin \/ BusyNotMaster \/ RequestStuck
  \/ Reset \/ RecoverDone

I2cNext == (\E c \in Calls : Call(c)) \/ BusClear \/ Driver \/ Environment

I2cSpec == I2cInit /\ [][I2cNext]_i2cVars

\* The core runs the call; nothing makes the bus move.
I2cFairSpec == I2cSpec /\ WF_i2cVars(Driver)
------------------------------------------------------------------------------
\* The driver's state and the block's registers have their types, and the
\* budgets are never overdrawn.
I2cTypeOK ==
  /\ mode \in {"idle", "op", "gate", "run", "recover", "recheck"}
  /\ ops \in Seq(Operation) /\ fresh \in BOOLEAN
  /\ left \in 0 .. PollBudget /\ budget \in 0 .. IdleBudget
  /\ res \in {"Ok", "Bus", "ArbitrationLoss", "NackAddress", "NackData", "Overrun",
              "Timeout", "BusHeld"}
  /\ ctl \in [start : BOOLEAN, stop : BOOLEAN, acken : BOOLEAN, poap : BOOLEAN]
  /\ err \subseteq {"BERR", "LOSTARB", "AERR", "OUERR"}
  /\ ph \in {"free", "sb", "addr", "ack", "tx", "rx", "hold", "wedged"}
  /\ held \in 0 .. MaxPulses + 1

\* A transfer whose sequence ends without an error.
Completed == mode = "run" /\ todo = <<>>

\* A read that returns Ok stored its bytes in order, clocked exactly as many as
\* it asked for and refused the last, however late the code is at any step: the
\* receive sequences of read_inner place ACKEN and POAP right for every length.
ReadExact ==
  Completed /\ Head(ops).kind = "read" =>
    /\ rcv = [i \in 1 .. Head(ops).n |-> i]
    /\ rx.clocked = Head(ops).n /\ rx.nacked

\* A write that returns Ok had every byte acknowledged: nothing is still queued
\* when write_inner issues its STOP or hands the bus to a repeated START.
WriteExact ==
  Completed /\ Head(ops).kind = "write" => tx = [queued |-> 0, acked |-> Head(ops).n]

\* The deadlock seen on silicon, MASTER dropped with a STOP pending under an
\* acknowledged byte, never comes from a transfer: only the STOP of recover can
\* fall there, and recover resets the block before it returns.
NoWedge == ph = "wedged" => mode = "recover"

\* A transfer that acquires the bus finds it free, with nothing requested: no
\* START is issued into a transfer, or a STOP, that is still going on.
FreshStart ==
  [][(mode \in {"gate", "recheck"} /\ mode' = "run") =>
       (ph = "free" /\ held = 0 /\ ~ctl.start /\ ~ctl.stop)]_i2cVars

\* One failure never latches the block dead: each call that fails met a fault of
\* its own, since the recovery of the failure before it cleared the flags.
NoLatch ==
  [][res' \notin {res, "Ok", "BusHeld"} => fault # {} \/ held > 0]_i2cVars

\* A refusal is reported as what the slave refused: the address, or a byte. (A
\* flag raised while recover runs is reported by the next call.)
NackHonest ==
  [][/\ res' # res /\ "late" \notin fault
     /\ res' \in {"NackAddress", "NackData"}
     => res' = (IF nack = "address" THEN "NackAddress" ELSE "NackData") /\ nack # "none"]_i2cVars

\* Between two acquisitions a call polls no more than the transfer's budget and
\* two recoveries allow, repeated STARTs included.
PollsBounded == polls <= PollBudget + 2 * IdleBudget + 1

\* With the bus stalled for ever at any point, the call still returns.
CallReturns == (mode # "idle") ~> (mode = "idle")

\* What a call of the I2C master promises of its bytes, of the bus and of its
\* own length: read and write are exact when they return Ok, the bus is never
\* wedged by the driver, and the polls stay within the budgets.
I2cSafe ==
  /\ I2cTypeOK
  /\ ReadExact
  /\ WriteExact
  /\ NoWedge
  /\ PollsBounded

\* What no step of a call does: start on a bus with a STOP pending, leave an
\* error latched for the next call, or report a refusal that was not its own.
I2cSteps ==
  /\ FreshStart
  /\ NoLatch
  /\ NackHonest
==============================================================================
