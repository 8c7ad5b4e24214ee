---------------------------- MODULE PolledSerial ----------------------------
(***************************************************************************)
(* The polled serial port: serial.rs's PolledSerial over the status and    *)
(* data registers usart.rs reads.  Characters arrive between any two       *)
(* register accesses of the caller, who makes one call after another.      *)
(*                                                                         *)
(* A character is its position in the stream.  The receive register holds  *)
(* one of them; FERR stands for the framing and parity flags, which the    *)
(* code treats alike.  On F10x an error flag is cleared by a read of STAT  *)
(* that saw it followed by a read of DATA (psSaw); on F1x0 by a write to   *)
(* INTC, which leaves DATA alone.                                          *)
(***************************************************************************)
EXTENDS Naturals, Sequences, FiniteSets

CONSTANTS
  PsFamilies,   \* the families a port may belong to, within {"F10x", "F1x0"}
  PsChars,      \* characters the wire brings (bound)
  PsBytes,      \* bytes the caller has to send (bound)
  PsBufs,       \* lengths of the buffers read and write are given
  PsBudget,     \* polls of one write or flush
  PsCounterMax  \* ceiling of the saturating diagnostics

ASSUME PsAssumption ==
  /\ PsFamilies \subseteq {"F10x", "F1x0"}
  /\ PsChars \in Nat /\ PsBytes \in Nat /\ PsBudget \in Nat
  /\ PsCounterMax \in Nat \ {0} /\ PsBufs \subseteq Nat

VARIABLES
  psFam,      \* family of this port
  psReg,      \* the receive side: DATA, RBNE and the error flags
  psSaw,      \* F10x: error flags the latest STAT reads have seen
  psWire,     \* the wire's history: characters sent, bad ones, ORE raised
  psTx,       \* the transmit side: TDATA, shifter and what left it (0 = empty)
  psCall,     \* the call in progress and its locals
  psCnt,      \* the port's three diagnostics
  psHist,     \* delivered characters; bytes stored, reported and dropped
  psLast      \* what the latest call answered

psVars == <<psFam, psReg, psSaw, psWire, psTx, psCall, psCnt, psHist, psLast>>

PsIdle == [pc |-> "idle"]
NoAnswer == [op |-> "none"]
ErrorFlags == {"ore", "ferr"}

PsInit ==
  /\ psFam \in PsFamilies
  /\ psReg = [data |-> 0, rbne |-> FALSE, flags |-> {}]
  /\ psSaw = {}
  /\ psWire = [sent |-> 0, bad |-> {}, lost |-> {}, raised |-> 0]
  /\ psTx = [hold |-> 0, shift |-> 0, out |-> <<>>]
  /\ psCall = PsIdle
  /\ psCnt = [line_errors |-> 0, rx_overruns |-> 0, tx_timeouts |-> 0]
  /\ psHist = [got |-> <<>>, stored |-> 0, reported |-> 0, dropped |-> 0]
  /\ psLast = NoAnswer

PsTick(name) == [psCnt EXCEPT ![name] = IF @ = PsCounterMax THEN @ ELSE @ + 1]

---------------------------------------------------------------------------
(* The wire and the shifter.                                               *)

\* A character completes: it is taken into DATA, or lost with ORE raised.
PsArrive ==
  /\ psWire.sent < PsChars
  /\ LET c == psWire.sent + 1 IN
     \E bad \in BOOLEAN :
       IF psReg.rbne
       THEN /\ psReg' = [psReg EXCEPT !.flags = @ \cup {"ore"}]
            /\ psWire' = [sent |-> c, bad |-> psWire.bad,
                          lost |-> psWire.lost \cup {c},
                          raised |-> IF "ore" \in psReg.flags
                                     THEN psWire.raised ELSE psWire.raised + 1]
       ELSE /\ psReg' = [data |-> c, rbne |-> TRUE,
                         flags |-> psReg.flags \cup (IF bad THEN {"ferr"} ELSE {})]
            /\ psWire' = [psWire EXCEPT !.sent = c,
                                        !.bad = IF bad THEN @ \cup {c} ELSE @]
  /\ UNCHANGED <<psFam, psSaw, psTx, psCall, psCnt, psHist, psLast>>

\* The shifter finishes a byte, or takes the one in TDATA.
Shift ==
  /\ psTx.shift # 0 \/ psTx.hold # 0
  /\ psTx' = IF psTx.shift # 0
             THEN [psTx EXCEPT !.shift = 0, !.out = Append(@, psTx.shift)]
             ELSE [psTx EXCEPT !.shift = psTx.hold, !.hold = 0]
  /\ UNCHANGED <<psFam, psReg, psSaw, psWire, psCall, psCnt, psHist, psLast>>

---------------------------------------------------------------------------
(* Receive: read, and the readiness test before it.                        *)

\* A read of STAT arms the F10x flags it shows; a read of DATA drops them.
PsReadStat == psSaw' = IF psFam = "F10x" THEN psSaw \cup psReg.flags ELSE {}
ReadDr ==
  /\ psReg' = [psReg EXCEPT !.rbne = FALSE, !.flags = @ \ psSaw]
  /\ psSaw' = {}

ReadReady ==
  /\ psCall = PsIdle /\ psLast.op # "ready"
  /\ PsReadStat
  /\ psLast' = [op |-> "ready", yes |-> psReg.rbne \/ "ore" \in psReg.flags]
  /\ UNCHANGED <<psFam, psReg, psWire, psTx, psCall, psCnt, psHist>>

ReadCall ==
  /\ psCall = PsIdle
  /\ \E len \in PsBufs :
       psCall' = [pc |-> "pre", len |-> len, n |-> 0, st |-> {}, ticked |-> FALSE,
                  ready |-> psLast.op = "ready" /\ psLast.yes]
  /\ psLast' = NoAnswer
  /\ UNCHANGED <<psFam, psReg, psSaw, psWire, psTx, psCnt, psHist>>

At(pc) == psCall.pc = pc

ReadReturn(ticked) ==
  /\ psCall' = PsIdle
  /\ psLast' = [op |-> "read", len |-> psCall.len, n |-> psCall.n,
                ticked |-> ticked, ready |-> psCall.ready]

\* The loop's own look at ORE, the only place an overrun is counted.
Pre ==
  /\ At("pre")
  /\ \/ /\ psCall.n < psCall.len
        /\ PsReadStat
        /\ LET over == "ore" \in psReg.flags IN
           /\ psCnt' = IF over THEN PsTick("rx_overruns") ELSE psCnt
           /\ psCall' = [psCall EXCEPT !.pc = "status", !.ticked = @ \/ over]
        /\ UNCHANGED psLast
     \/ /\ psCall.n = psCall.len
        /\ ReadReturn(psCall.ticked)
        /\ UNCHANGED <<psSaw, psCnt>>
  /\ UNCHANGED <<psFam, psReg, psWire, psTx, psHist>>

\* try_read_byte's status read decides: recover, take the byte, or stop.
ReadByteStatus ==
  /\ At("status")
  /\ PsReadStat
  /\ IF psReg.flags # {}
     THEN psCall' = [psCall EXCEPT !.pc = "clear", !.st = psReg.flags] /\ UNCHANGED psLast
     ELSE IF psReg.rbne
     THEN psCall' = [psCall EXCEPT !.pc = "data"] /\ UNCHANGED psLast
     ELSE ReadReturn(psCall.ticked)
  /\ UNCHANGED <<psFam, psReg, psWire, psTx, psCnt, psHist>>

\* Mutant: on F1x0 the clear register is not written.
PsClearErrorsForgets ==
  /\ At("clear")
  /\ IF psFam = "F1x0" THEN UNCHANGED <<psReg, psSaw>> ELSE ReadDr
  /\ IF "ore" \in psCall.st
     THEN psCall' = [psCall EXCEPT !.pc = "after"] /\ UNCHANGED <<psCnt, psLast>>
     ELSE psCnt' = PsTick("line_errors") /\ ReadReturn(TRUE)
  /\ UNCHANGED <<psFam, psWire, psTx, psHist>>

\* clear_line_errors; a framing or parity error without an overrun is an Err.
PsClearErrors ==
  /\ At("clear")
  /\ IF psFam = "F1x0"
     THEN psReg' = [psReg EXCEPT !.flags = @ \ psCall.st] /\ UNCHANGED psSaw
     ELSE ReadDr
  /\ IF "ore" \in psCall.st
     THEN psCall' = [psCall EXCEPT !.pc = "after"] /\ UNCHANGED <<psCnt, psLast>>
     ELSE psCnt' = PsTick("line_errors") /\ ReadReturn(TRUE)
  /\ UNCHANGED <<psFam, psWire, psTx, psHist>>

\* Mutant: an overrun ends the read, the intact byte left behind, and is not counted.
AfterOverrunReturns ==
  /\ At("after")
  /\ PsReadStat
  /\ psCall' = PsIdle
  /\ psLast' = [op |-> "read", len |-> psCall.len, n |-> psCall.n,
                ticked |-> FALSE, ready |-> psCall.ready]
  /\ UNCHANGED <<psFam, psReg, psWire, psTx, psCnt, psHist>>

AfterOverrun ==
  /\ At("after")
  /\ PsReadStat
  /\ IF psReg.rbne
     THEN psCall' = [psCall EXCEPT !.pc = "data"] /\ UNCHANGED psLast
     ELSE ReadReturn(psCall.ticked)
  /\ UNCHANGED <<psFam, psReg, psWire, psTx, psCnt, psHist>>

TakeByte ==
  /\ At("data")
  /\ ReadDr
  /\ psHist' = [psHist EXCEPT !.got = Append(@, psReg.data)]
  /\ psCall' = [psCall EXCEPT !.pc = "pre", !.n = @ + 1]
  /\ UNCHANGED <<psFam, psWire, psTx, psCnt, psLast>>

---------------------------------------------------------------------------
(* Transmit: write, flush.  try_write_byte's test and store are one step:  *)
(* only this caller fills TDATA, so TBE cannot fall between them.          *)

WriteCall ==
  /\ psCall = PsIdle
  /\ \E len \in PsBufs :
       /\ psHist.stored + psHist.dropped + len <= PsBytes
       /\ psCall' = [pc |-> IF len = 0 THEN "rest" ELSE "first",
                     len |-> len, n |-> 0, left |-> PsBudget]
  /\ psLast' = NoAnswer
  /\ UNCHANGED <<psFam, psReg, psSaw, psWire, psTx, psCnt, psHist>>

TryWrite ==
  /\ psTx.hold = 0
  /\ psTx' = [psTx EXCEPT !.hold = psHist.stored + 1]
  /\ psHist' = [psHist EXCEPT !.stored = @ + 1]
  /\ psCall' = [psCall EXCEPT !.pc = "rest", !.n = @ + 1]
  /\ UNCHANGED <<psCnt, psLast>>

\* wait_bounded on the first byte: a spent budget takes the whole buffer.
WriteFirst ==
  /\ At("first")
  /\ \/ TryWrite
     \/ /\ psTx.hold # 0 /\ psCall.left > 0
        /\ psCall' = [psCall EXCEPT !.left = @ - 1]
        /\ UNCHANGED <<psTx, psCnt, psHist, psLast>>
     \/ /\ psTx.hold # 0 /\ psCall.left = 0
        /\ psCnt' = PsTick("tx_timeouts")
        /\ psCall' = PsIdle
        /\ psLast' = [op |-> "write", len |-> psCall.len, n |-> psCall.len]
        /\ psHist' = [psHist EXCEPT !.reported = @ + psCall.len, !.dropped = @ + psCall.len]
        /\ UNCHANGED psTx
  /\ UNCHANGED <<psFam, psReg, psSaw, psWire>>

WriteRest ==
  /\ At("rest")
  /\ \/ psCall.n < psCall.len /\ TryWrite
     \/ /\ psCall.n = psCall.len \/ psTx.hold # 0
        /\ psCall' = PsIdle
        /\ psLast' = [op |-> "write", len |-> psCall.len, n |-> psCall.n]
        /\ psHist' = [psHist EXCEPT !.reported = @ + psCall.n]
        /\ UNCHANGED <<psTx, psCnt>>
  /\ UNCHANGED <<psFam, psReg, psSaw, psWire>>

\* TC as write_byte and flush read it: nothing held and nothing shifting.
TxComplete == psTx.hold = 0 /\ psTx.shift = 0

FlushCall ==
  /\ psCall = PsIdle /\ psLast.op # "flush"
  /\ psCall' = [pc |-> "flush", left |-> PsBudget]
  /\ psLast' = NoAnswer
  /\ UNCHANGED <<psFam, psReg, psSaw, psWire, psTx, psCnt, psHist>>

Flush ==
  /\ At("flush")
  /\ \/ /\ ~TxComplete /\ psCall.left > 0
        /\ psCall' = [psCall EXCEPT !.left = @ - 1]
        /\ UNCHANGED <<psCnt, psLast>>
     \/ /\ TxComplete \/ psCall.left = 0
        /\ psCnt' = IF TxComplete THEN psCnt ELSE PsTick("tx_timeouts")
        /\ psCall' = PsIdle
        /\ psLast' = [op |-> "flush", gaveUp |-> ~TxComplete]
  /\ UNCHANGED <<psFam, psReg, psSaw, psWire, psTx, psHist>>

---------------------------------------------------------------------------
ReadStep == Pre \/ ReadByteStatus \/ PsClearErrors \/ AfterOverrun \/ TakeByte
WriteStep == WriteFirst \/ WriteRest \/ Flush

PsNext ==
  \/ PsArrive \/ Shift
  \/ ReadReady \/ ReadCall \/ ReadStep
  \/ WriteCall \/ FlushCall \/ WriteStep

PsSpec == PsInit /\ [][PsNext]_psVars

\* The caller's code runs, and it comes back to read as often as it likes
\* to do anything else.  Nothing is assumed of the shifter.
PsFairSpec == PsSpec /\ WF_psVars(ReadStep \/ WriteStep) /\ SF_psVars(ReadCall)

---------------------------------------------------------------------------
(* Properties.                                                             *)

\* Types.
PsTypeOK ==
  /\ psFam \in PsFamilies
  /\ psReg \in [data : 0..PsChars, rbne : BOOLEAN, flags : SUBSET ErrorFlags]
  /\ psSaw \subseteq psReg.flags
  /\ psWire.sent \in 0..PsChars
  /\ psWire.bad \subseteq 1..PsChars /\ psWire.lost \subseteq 1..PsChars
  /\ psTx.hold \in 0..PsBytes /\ psTx.shift \in 0..PsBytes
  /\ psCnt \in [{"line_errors", "rx_overruns", "tx_timeouts"} -> 0..PsCounterMax]
  /\ psLast.op \in {"none", "ready", "read", "write", "flush"}

\* read hands over characters in the order they came, none twice and none
\* the receiver had refused, whatever arrives between its register accesses.
PsInOrder ==
  /\ \A i \in 2..Len(psHist.got) : psHist.got[i - 1] < psHist.got[i]
  /\ \A i \in 1..Len(psHist.got) : psHist.got[i] \notin psWire.lost

\* read_ready's promise on F1x0: after it said yes, a read into a non-empty
\* buffer returns bytes or ticks a diagnostic, whatever arrives meanwhile.
PsReadyMeansProgress ==
  (psFam = "F1x0" /\ psLast.op = "read" /\ psLast.ready /\ psLast.len > 0)
    => psLast.n > 0 \/ psLast.ticked

\* rx_overruns counts conditions, not looks: it never exceeds the number of
\* times ORE was raised, though each is looked at twice and cleared later.
PsNeverOvercounts == psCnt.rx_overruns <= psWire.raised

\* On F10x a character received with a framing or parity error is dropped,
\* as long as no overrun happened: the overrun recovery looks at no other
\* flag and may hand one over.
PsSuspectDroppedF10x ==
  (psFam = "F10x" /\ psWire.raised = 0) =>
    \A i \in 1..Len(psHist.got) : psHist.got[i] \notin psWire.bad

\* Every byte a write reported is on its way exactly once and in order, or
\* belongs to a buffer dropped under a tick of tx_timeouts; TDATA is never
\* overwritten, and a non-empty write never reports zero.
PsEveryByteAccounted ==
  /\ psCall = PsIdle => psHist.reported = psHist.stored + psHist.dropped
  /\ psHist.dropped > 0 => psCnt.tx_timeouts > 0
  /\ LET Held(b) == IF b = 0 THEN <<>> ELSE <<b>>
     IN psTx.out \o Held(psTx.shift) \o Held(psTx.hold) = [i \in 1..psHist.stored |-> i]
  /\ (psLast.op = "write" /\ psLast.len > 0) => psLast.n > 0

\* RX never strands: whatever errors pile up, a caller who keeps reading
\* empties the register and its error flags.
PsNeverStrands == (psReg.rbne \/ psReg.flags # {}) ~> (~psReg.rbne /\ psReg.flags = {})

\* What the polled port promises at every moment: characters in order, a
\* readiness that keeps its word, counters that count each condition once, no
\* suspect character on F10x and no byte unaccounted for.
PsSafe ==
  /\ PsTypeOK
  /\ PsInOrder
  /\ PsReadyMeansProgress
  /\ PsNeverOvercounts
  /\ PsSuspectDroppedF10x
  /\ PsEveryByteAccounted
=============================================================================
