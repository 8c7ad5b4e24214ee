----------------------------- MODULE SplitSerial -----------------------------
(***************************************************************************)
(* serial.rs's SplitSerial: an embedded-io port over a receive backend     *)
(* (BufferedRx, "ring", or RingBufferedRx, "dma") and a transmit half      *)
(* (UsartTx, "polled", or DmaTx, "dma").  The backends are their promises: *)
(* RxRing, DmaRxRing and DmaTx model how those are kept.  Interrupts and   *)
(* the wire act between any two steps of the caller.                       *)
(***************************************************************************)
EXTENDS Naturals, Sequences, FiniteSets

CONSTANTS
  SsKinds,      \* the pairings of receive backend and transmit half
  SsChars,      \* characters the wire brings (bound)
  SsFaults,     \* line errors the wire brings (bound)
  SsCap,        \* what the receive backend holds
  SsBytes,      \* bytes the caller has to send (bound)
  SsEvents,     \* characters, line errors and bytes to send together (bound)
  SsBufs,       \* lengths of the buffers read and write are given
  SsDmaBuf,     \* length of DmaTx's staging buffer
  SsBudget      \* polls of one write or flush

ASSUME SsAssumption ==
  /\ SsKinds \subseteq [rx : {"ring", "dma"}, tx : {"polled", "dma"}]
  /\ SsChars \in Nat /\ SsFaults \in Nat /\ SsCap \in Nat \ {0}
  /\ SsBytes \in Nat /\ SsEvents \in Nat /\ SsBufs \subseteq Nat
  /\ SsDmaBuf \in Nat \ {0} /\ SsBudget \in Nat

VARIABLES
  ssKind,   \* [rx, tx]: the two backends
  ssRx,     \* the receive backend: unread characters, condition latches
  ssEnv,    \* what the wire has brought so far, and the conditions raised
  ssTx,     \* the transmit half: bytes waiting, shifter, transfer state
  ssCall,   \* the call in progress and its locals
  ssCnt,    \* diagnostics, unsaturated (bounded by the environment)
  ssGot,    \* characters delivered
  ssOut,    \* bytes stored, reported, dropped, abandoned, and on the wire
  ssLast    \* what the latest call answered

ssVars == <<ssKind, ssRx, ssEnv, ssTx, ssCall, ssCnt, ssGot, ssOut, ssLast>>

SsIdle == [pc |-> "idle"]
Counters == {"line_errors", "lap_overruns", "drops", "gave_up", "abandons"}
LineErrors == {"overrun", "framing"}   \* framing stands for parity and noise

SsInit ==
  /\ ssKind \in SsKinds
  /\ ssRx = [q |-> <<>>, overflow |-> FALSE, line_error |-> "none"]
  /\ ssEnv = [chars |-> 0, faults |-> 0, line_errors |-> 0, lap_overruns |-> 0]
  /\ ssTx = [pend |-> <<>>, shift |-> 0, fly |-> FALSE, late |-> FALSE]
  /\ ssCall = SsIdle
  /\ ssCnt = [c \in Counters |-> 0]
  /\ ssGot = <<>>
  /\ ssOut = [stored |-> 0, reported |-> 0, dropped |-> 0, abandoned |-> 0, wire |-> <<>>]
  /\ ssLast = [op |-> "none"]

SsTick(c) == [ssCnt EXCEPT ![c] = @ + 1]
Room(n) == ssEnv.chars + ssEnv.faults + ssOut.stored + ssOut.dropped + n <= SsEvents

\* The counter a latched code is classified under: the DMA backend answers
\* LineError whatever the code, the ring backend the code itself.
CounterOf(code) ==
  IF ssKind.rx = "ring" /\ code = "overrun" THEN "lap_overruns" ELSE "line_errors"
Lapped == ssKind.rx = "dma" /\ Len(ssRx.q) > SsCap

---------------------------------------------------------------------------
(* The interrupt side.                                                     *)

\* A character: queued, or refused by a full ring with the overflow latched.
\* The DMA writes on; falling more than a buffer behind is the lap.
RxChar ==
  /\ ssEnv.chars < SsChars /\ Room(1)
  /\ LET c == ssEnv.chars + 1
         full == ssKind.rx = "ring" /\ Len(ssRx.q) = SsCap
         laps == ssKind.rx = "dma" /\ Len(ssRx.q) = SsCap
     IN /\ ssRx' = IF full THEN [ssRx EXCEPT !.overflow = TRUE]
                           ELSE [ssRx EXCEPT !.q = Append(@, c)]
        /\ ssEnv' = [ssEnv EXCEPT !.chars = c,
                       !.lap_overruns = IF laps \/ (full /\ ~ssRx.overflow)
                                        THEN @ + 1 ELSE @]
  /\ UNCHANGED <<ssKind, ssTx, ssCall, ssCnt, ssGot, ssOut, ssLast>>

\* record_line_error: the first code latches, later ones fold into it.
RxFault ==
  /\ ssEnv.faults < SsFaults /\ Room(1)
  /\ \E code \in LineErrors :
       LET first == ssRx.line_error = "none" IN
       /\ ssRx' = IF first THEN [ssRx EXCEPT !.line_error = code] ELSE ssRx
       /\ ssEnv' = [ssEnv EXCEPT !.faults = @ + 1,
                      ![CounterOf(code)] = IF first THEN @ + 1 ELSE @]
  /\ UNCHANGED <<ssKind, ssTx, ssCall, ssCnt, ssGot, ssOut, ssLast>>

\* The wire takes a byte, the channel's interrupt ends a transfer, and the
\* deadline of a transfer passes.
TxWire ==
  /\ \/ /\ ssTx.shift # 0
        /\ ssTx' = [ssTx EXCEPT !.shift = 0]
        /\ ssOut' = [ssOut EXCEPT !.wire = Append(@, ssTx.shift)]
     \/ /\ ssTx.shift = 0 /\ ssTx.pend # <<>>
        /\ ssTx' = [ssTx EXCEPT !.shift = Head(ssTx.pend), !.pend = Tail(@)]
        /\ UNCHANGED ssOut
     \/ /\ ssTx.fly /\ ssTx.pend = <<>>
        /\ ssTx' = [ssTx EXCEPT !.fly = FALSE]
        /\ UNCHANGED ssOut
     \/ /\ ssTx.fly /\ ~ssTx.late
        /\ ssTx' = [ssTx EXCEPT !.late = TRUE]
        /\ UNCHANGED ssOut
  /\ UNCHANGED <<ssKind, ssRx, ssEnv, ssCall, ssCnt, ssGot, ssLast>>

---------------------------------------------------------------------------
(* read and read_ready.                                                    *)

SsReadReady ==
  /\ ssCall = SsIdle /\ ssLast.op # "ready"
  /\ ssLast' = [op |-> "ready",
                yes |-> ssRx.q # <<>> \/ ssRx.overflow \/ ssRx.line_error # "none"]
  /\ UNCHANGED <<ssKind, ssRx, ssEnv, ssTx, ssCall, ssCnt, ssGot, ssOut>>

SsReadCall ==
  /\ ssCall = SsIdle
  /\ \E len \in SsBufs :
       ssCall' = [pc |-> "cond", len |-> len, n |-> 0, tries |-> 0,
                  ready |-> ssLast.op = "ready" /\ ssLast.yes]
  /\ ssLast' = [op |-> "none"]
  /\ UNCHANGED <<ssKind, ssRx, ssEnv, ssTx, ssCnt, ssGot, ssOut>>

SsAt(pc) == ssCall.pc = pc

SsReadReturn(tries) ==
  /\ ssCall' = SsIdle
  /\ ssLast' = [op |-> "read", len |-> ssCall.len, n |-> ssCall.n, tries |-> tries,
                ready |-> ssCall.ready, left |-> ssRx.q # <<>>]

\* rx_read answers a condition, cleared as it is returned; SplitSerial counts
\* it and tries again, four times in all.
Surface(counter) ==
  /\ ssCnt' = SsTick(counter)
  /\ IF ssCall.tries = 3
     THEN SsReadReturn(4)
     ELSE ssCall' = [ssCall EXCEPT !.tries = @ + 1, !.pc = "cond"] /\ UNCHANGED ssLast
  /\ UNCHANGED ssGot

\* Mutant: the overflow latch is cleared when the next read starts clean, not as it is returned.
RingOverflowLate ==
  /\ SsAt("cond") /\ ssKind.rx = "ring"
  /\ IF ssRx.overflow
     THEN Surface("lap_overruns") /\ UNCHANGED ssRx
     ELSE ssCall' = [ssCall EXCEPT !.pc = "line"] /\ UNCHANGED <<ssRx, ssCnt, ssGot, ssLast>>
  /\ UNCHANGED <<ssKind, ssEnv, ssTx, ssOut>>

\* BufferedRx::read looks at the overflow latch, then at the error latch.
RingOverflow ==
  /\ SsAt("cond") /\ ssKind.rx = "ring"
  /\ IF ssRx.overflow
     THEN ssRx' = [ssRx EXCEPT !.overflow = FALSE] /\ Surface("lap_overruns")
     ELSE ssCall' = [ssCall EXCEPT !.pc = "line"] /\ UNCHANGED <<ssRx, ssCnt, ssGot, ssLast>>
  /\ UNCHANGED <<ssKind, ssEnv, ssTx, ssOut>>

\* RingBufferedRx::read's first look; its error also drops what is unread.
LineErrorLook ==
  /\ \/ SsAt("line")
     \/ SsAt("cond") /\ ssKind.rx = "dma"
  /\ IF ssRx.line_error # "none"
     THEN /\ ssRx' = [ssRx EXCEPT !.line_error = "none",
                                  !.q = IF ssKind.rx = "dma" THEN <<>> ELSE @]
          /\ Surface(CounterOf(ssRx.line_error))
     ELSE /\ ssCall' = [ssCall EXCEPT !.pc = IF ssKind.rx = "dma" THEN "snap" ELSE "pop"]
          /\ UNCHANGED <<ssRx, ssCnt, ssGot, ssLast>>
  /\ UNCHANGED <<ssKind, ssEnv, ssTx, ssOut>>

\* RingBufferedRx: the snapshot decides between a lap and the bytes.
SnapshotLook ==
  /\ SsAt("snap")
  /\ IF Lapped
     THEN ssRx' = [ssRx EXCEPT !.q = <<>>] /\ Surface("lap_overruns")
     ELSE LET n == IF Len(ssRx.q) < ssCall.len THEN Len(ssRx.q) ELSE ssCall.len IN
          /\ ssGot' = ssGot \o SubSeq(ssRx.q, 1, n)
          /\ ssRx' = [ssRx EXCEPT !.q = SubSeq(@, n + 1, Len(@))]
          /\ ssCall' = SsIdle
          /\ ssLast' = [op |-> "read", len |-> ssCall.len, n |-> n, tries |-> ssCall.tries,
                        ready |-> ssCall.ready, left |-> n < Len(ssRx.q)]
          /\ UNCHANGED ssCnt
  /\ UNCHANGED <<ssKind, ssEnv, ssTx, ssOut>>

\* BufferedRx: pop until the buffer is full or the ring is empty.
PopByte ==
  /\ SsAt("pop")
  /\ IF ssCall.n < ssCall.len /\ ssRx.q # <<>>
     THEN /\ ssGot' = Append(ssGot, Head(ssRx.q))
          /\ ssRx' = [ssRx EXCEPT !.q = Tail(@)]
          /\ ssCall' = [ssCall EXCEPT !.n = @ + 1]
          /\ UNCHANGED ssLast
     ELSE SsReadReturn(ssCall.tries) /\ UNCHANGED <<ssRx, ssGot>>
  /\ UNCHANGED <<ssKind, ssEnv, ssTx, ssCnt, ssOut>>

---------------------------------------------------------------------------
(* write, flush and write_ready, over TxHalf.                              *)

\* TxHalf::ready: TBE, or a channel that is idle or past its deadline.
TxReady == IF ssKind.tx = "polled" THEN ssTx.pend = <<>> ELSE ~ssTx.fly \/ ssTx.late
TxDone == ssTx.pend = <<>> /\ ssTx.shift = 0 /\ ~ssTx.fly

SsWriteReady ==
  /\ ssCall = SsIdle /\ ssLast.op # "wready"
  /\ ssLast' = [op |-> "wready", yes |-> TxReady]
  /\ UNCHANGED <<ssKind, ssRx, ssEnv, ssTx, ssCall, ssCnt, ssGot, ssOut>>

SsWriteCall ==
  /\ ssCall = SsIdle
  /\ \E len \in SsBufs \ {0} :
       /\ ssOut.stored + ssOut.dropped + len <= SsBytes /\ Room(len)
       /\ ssCall' = [pc |-> "first", len |-> len, n |-> 0, left |-> SsBudget,
                     ready |-> ssLast.op = "wready" /\ ssLast.yes]
  /\ ssLast' = [op |-> "none"]
  /\ UNCHANGED <<ssKind, ssRx, ssEnv, ssTx, ssCnt, ssGot, ssOut>>

WriteReturn(n, timedOut) ==
  /\ ssCall' = SsIdle
  /\ ssLast' = [op |-> "write", len |-> ssCall.len, n |-> n, timedOut |-> timedOut,
                ready |-> ssCall.ready]

\* try_write_byte.
StoreByte ==
  /\ ssTx.pend = <<>>
  /\ ssTx' = [ssTx EXCEPT !.pend = <<ssOut.stored + 1>>]
  /\ ssOut' = [ssOut EXCEPT !.stored = @ + 1]
  /\ ssCall' = [ssCall EXCEPT !.pc = "rest", !.n = @ + 1]
  /\ UNCHANGED <<ssCnt, ssLast>>

\* try_send: an expired transfer is abandoned with the bytes it still held,
\* then the frame is staged (truncated to the buffer) and the channel armed.
TrySend ==
  /\ ~ssTx.fly \/ ssTx.late
  /\ LET n == IF ssCall.len < SsDmaBuf THEN ssCall.len ELSE SsDmaBuf IN
     /\ ssTx' = [ssTx EXCEPT !.pend = [i \in 1..n |-> ssOut.stored + i],
                             !.fly = TRUE, !.late = FALSE]
     /\ ssOut' = [ssOut EXCEPT !.stored = @ + n, !.reported = @ + n,
                               !.abandoned = @ + IF ssTx.fly THEN Len(ssTx.pend) ELSE 0]
     /\ ssCnt' = IF ssTx.fly THEN SsTick("abandons") ELSE ssCnt
     /\ WriteReturn(n, FALSE)

\* wait_bounded on the first byte or the transfer; a spent budget reports
\* the whole buffer and drops it.
SsWriteFirst ==
  /\ SsAt("first")
  /\ \/ ssKind.tx = "polled" /\ StoreByte
     \/ ssKind.tx = "dma" /\ TrySend
     \/ /\ ~TxReady /\ ssCall.left > 0
        /\ ssCall' = [ssCall EXCEPT !.left = @ - 1]
        /\ UNCHANGED <<ssTx, ssOut, ssCnt, ssLast>>
     \/ /\ ~TxReady /\ ssCall.left = 0
        /\ ssCnt' = SsTick("drops")
        /\ ssOut' = [ssOut EXCEPT !.reported = @ + ssCall.len, !.dropped = @ + ssCall.len]
        /\ WriteReturn(ssCall.len, TRUE)
        /\ UNCHANGED ssTx
  /\ UNCHANGED <<ssKind, ssRx, ssEnv, ssGot>>

SsWriteRest ==
  /\ SsAt("rest")
  /\ \/ ssCall.n < ssCall.len /\ StoreByte
     \/ /\ ssCall.n = ssCall.len \/ ssTx.pend # <<>>
        /\ ssOut' = [ssOut EXCEPT !.reported = @ + ssCall.n]
        /\ WriteReturn(ssCall.n, FALSE)
        /\ UNCHANGED <<ssTx, ssCnt>>
  /\ UNCHANGED <<ssKind, ssRx, ssEnv, ssGot>>

SsFlushCall ==
  /\ ssCall = SsIdle /\ ssLast.op # "flush" /\ ssCnt["gave_up"] < 1
  /\ ssCall' = [pc |-> "flush", left |-> SsBudget]
  /\ ssLast' = [op |-> "none"]
  /\ UNCHANGED <<ssKind, ssRx, ssEnv, ssTx, ssCnt, ssGot, ssOut>>

SsFlush ==
  /\ SsAt("flush")
  /\ \/ /\ ~TxDone /\ ssCall.left > 0
        /\ ssCall' = [ssCall EXCEPT !.left = @ - 1]
        /\ UNCHANGED <<ssCnt, ssLast>>
     \/ /\ TxDone \/ ssCall.left = 0
        /\ ssCnt' = IF TxDone THEN ssCnt ELSE SsTick("gave_up")
        /\ ssCall' = SsIdle
        /\ ssLast' = [op |-> "flush", timedOut |-> ~TxDone]
  /\ UNCHANGED <<ssKind, ssRx, ssEnv, ssTx, ssGot, ssOut>>

\* SplitSerial::tx_timeouts: the adapter's own count plus the backend's.
TxTimeouts == ssCnt["drops"] + ssCnt["gave_up"] + ssCnt["abandons"]

---------------------------------------------------------------------------
SsReadStep == RingOverflow \/ LineErrorLook \/ SnapshotLook \/ PopByte
SsNext ==
  \/ RxChar \/ RxFault \/ TxWire
  \/ SsReadReady \/ SsReadCall \/ SsReadStep
  \/ SsWriteReady \/ SsWriteCall \/ SsWriteFirst \/ SsWriteRest
  \/ SsFlushCall \/ SsFlush

SsSpec == SsInit /\ [][SsNext]_ssVars

---------------------------------------------------------------------------
(* Properties.                                                             *)

\* Types.
SsTypeOK ==
  /\ Len(ssRx.q) <= SsChars /\ ssRx.overflow \in BOOLEAN
  /\ ssRx.line_error \in LineErrors \cup {"none"}
  /\ ssKind.rx = "ring" => Len(ssRx.q) <= SsCap
  /\ Len(ssTx.pend) <= (IF ssKind.tx = "polled" THEN 1 ELSE SsDmaBuf)
  /\ ssTx.shift \in 0..SsBytes /\ ssTx.fly \in BOOLEAN /\ ssTx.late \in BOOLEAN
  /\ ssCnt \in [Counters -> Nat]

\* Every condition the receive side raised is counted once, under the
\* counter its kind belongs to, or is still latched: a condition raised
\* while read consumes another is neither lost nor counted twice.
SsCountedOnce ==
  LET latched(c) ==
        (IF ssRx.line_error # "none" /\ CounterOf(ssRx.line_error) = c THEN 1 ELSE 0)
      + (IF c = "lap_overruns" /\ (ssRx.overflow \/ Lapped) THEN 1 ELSE 0)
  IN /\ ssCnt["line_errors"] + latched("line_errors") = ssEnv.line_errors
     /\ ssKind.rx = "ring" =>
          ssCnt["lap_overruns"] + latched("lap_overruns") = ssEnv.lap_overruns
     /\ ssKind.rx = "dma" =>
          ssCnt["lap_overruns"] + latched("lap_overruns") <= ssEnv.lap_overruns

\* An empty answer is never an end of stream: into a non-empty buffer it
\* means no character was waiting, or that this call counted four conditions.
SsEmptyMeansEmpty ==
  (ssLast.op = "read" /\ ssLast.len > 0 /\ ssLast.n = 0)
    => ~ssLast.left \/ ssLast.tries = 4

\* read_ready's yes is kept by the next read: bytes, or a condition counted.
SsReadyHonest ==
  (ssLast.op = "read" /\ ssLast.ready /\ ssLast.len > 0) => ssLast.n > 0 \/ ssLast.tries > 0

\* Delivered characters keep the order of the wire, none twice.
SsInOrder == \A i \in 2..Len(ssGot) : ssGot[i - 1] < ssGot[i]

\* A non-empty write never answers zero; a drop is answered as consumed, and
\* write_ready's yes is kept: the next write does not spend its budget.
SsWriteHonest ==
  ssLast.op = "write" =>
    /\ ssLast.n \in 1..ssLast.len
    /\ ssLast.timedOut => ssLast.n = ssLast.len /\ ~ssLast.ready

\* Bytes reported are on the wire in order, on their way, or lost; and every
\* loss (a dropped buffer, an abandoned transfer) shows in tx_timeouts.
SsTxAccounted ==
  LET moving == Len(ssTx.pend) + (IF ssTx.shift # 0 THEN 1 ELSE 0) IN
  /\ \A i \in 2..Len(ssOut.wire) : ssOut.wire[i - 1] < ssOut.wire[i]
  /\ Len(ssOut.wire) + moving + ssOut.abandoned = ssOut.stored
  /\ ssCall = SsIdle => ssOut.reported = ssOut.stored + ssOut.dropped
  /\ ssOut.abandoned + ssOut.dropped > 0 => TxTimeouts > 0

\* What SplitSerial promises its embedded-io callers: each receive condition
\* counted once, an empty read only of an empty line, honest readiness both
\* ways, bytes in order, and every byte written sent, in flight or counted.
SsSafe ==
  /\ SsTypeOK
  /\ SsCountedOnce
  /\ SsEmptyMeansEmpty
  /\ SsReadyHonest
  /\ SsInOrder
  /\ SsWriteHonest
  /\ SsTxAccounted
==============================================================================
