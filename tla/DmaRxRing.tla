------------------------------ MODULE DmaRxRing ------------------------------
(***************************************************************************)
(* The DMA-ring receiver (src/src/usart_rx.rs, RingBufferedRx) over the    *)
(* circular receive channel and its wrap counter (src/src/dma.rs).         *)
(*                                                                         *)
(* Three actors share the channel registers, the buffer and the counter:   *)
(*   - the DMA engine stores a character and counts CHxCNT down; at the    *)
(*     end of a lap it reloads CHxCNT and raises FTFIF;                    *)
(*   - the channel's interrupt (service_dma_rx) counts the lap and clears  *)
(*     FTFIF;                                                              *)
(*   - the main loop calls read and ready, whose snapshot reads the        *)
(*     counter, CHxCNT, FTFIF, CHxCNT and the counter again, and whose     *)
(*     copy loop reads the buffer while the engine goes on writing it.     *)
(* On the single core the main loop takes no step inside an interrupt; the *)
(* engine takes its steps at any time.                                     *)
(*                                                                         *)
(* A character is its position in the stream: 1, 2, 3, ...                 *)
(***************************************************************************)
EXTENDS Integers, Sequences

CONSTANTS
  L,          \* length of the buffer, RingBufferedRx::len
  ReadSizes,  \* lengths of the slices the main loop passes to read
  MaxBytes    \* bound of the model: characters ever received

ASSUME LAssumption == L \in Nat \ {0}
ASSUME ReadSizesAssumption == ReadSizes \subseteq Nat
ASSUME MaxBytesAssumption == MaxBytes \in Nat

VARIABLES
  buf,        \* the 'static buffer
  cnt,        \* CHxCNT
  dma,        \* "idle", or "count" between the store and the countdown
  ftf, htf,   \* FTFIF and HTFIF of the channel in DMA_INTF
  written,    \* history: characters the engine has stored and counted
  wraps,      \* DmaRxCtx::wraps
  isr,        \* where the interrupt is in service_dma_rx
  intf,       \* its copy of the two flags
  lineErr,    \* RxSlot::line_error holds an error
  cursor,     \* RingBufferedRx::cursor
  rd,         \* where the main loop is
  op,         \* the call it is in: "read", "heal" (read after a line error), "ready"
  snap,       \* the locals of snapshot
  seen,       \* write_total, computed from what snapshot returned
  want,       \* length of the slice passed to read
  out,        \* the bytes copied into it so far
  outcome,    \* what the last finished call returned
  startPos,   \* history: written when the call began
  promised    \* history: the last call said ready, and this one can take a byte

dmaVars  == << buf, cnt, dma, written >>
flagVars == << ftf, htf >>
isrVars  == << wraps, isr, intf >>
callVars == << op, want, out, outcome, startPos, promised >>
mainVars == << cursor, rd, seen, snap, callVars >>
vars == << dmaVars, flagVars, isrVars, lineErr, mainVars >>

Min2(a, b) == IF a <= b THEN a ELSE b

\* Locals that hold nothing.
NoFlags == [ftf |-> FALSE, htf |-> FALSE]
NoSnap  == [w1 |-> 0, remA |-> L, ftf |-> FALSE, remB |-> L]

Init ==
  /\ buf = [i \in 0 .. L - 1 |-> 0] /\ cnt = L /\ dma = "idle" /\ written = 0
  /\ ftf = FALSE /\ htf = FALSE
  /\ wraps = 0 /\ isr = "idle" /\ intf = NoFlags
  /\ lineErr = FALSE
  /\ cursor = 0 /\ rd = "idle" /\ seen = 0
  /\ snap = NoSnap
  /\ op = "ready" /\ want = 0 /\ out = << >> /\ outcome = "none"
  /\ startPos = 0 /\ promised = FALSE

------------------------------------------------------------------------------
(* The DMA engine and the USART.                                            *)

DmaStore ==
  /\ dma = "idle" /\ written < MaxBytes
  /\ buf' = [buf EXCEPT ![L - cnt] = written + 1]
  /\ dma' = "count"
  /\ UNCHANGED << cnt, written, flagVars, isrVars, lineErr, mainVars >>

\* The interrupt is served within one lap: no lap ends while the end of the
\* lap before is still to be cleared.
IsrWithinLap == ~ (cnt = 1 /\ ftf)

DmaCount ==
  /\ dma = "count" /\ IsrWithinLap
  /\ cnt' = IF cnt = 1 THEN L ELSE cnt - 1
  /\ ftf' = (ftf \/ cnt = 1)
  /\ htf' = (htf \/ cnt - 1 = L \div 2)
  /\ written' = written + 1
  /\ dma' = "idle"
  /\ UNCHANGED << buf, isrVars, lineErr, mainVars >>

\* The USART interrupt records a line error, the first one winning.
LineError ==
  /\ ~ lineErr
  /\ lineErr' = TRUE
  /\ UNCHANGED << dmaVars, flagVars, isrVars, mainVars >>

------------------------------------------------------------------------------
(* The channel's interrupt, service_dma_rx.                                 *)

IsrEnter ==
  /\ isr = "idle" /\ (ftf \/ htf)
  /\ intf' = [ftf |-> ftf, htf |-> htf]
  /\ isr' = "count"
  /\ UNCHANGED << dmaVars, flagVars, wraps, lineErr, mainVars >>

IsrCount ==
  /\ isr = "count"
  /\ wraps' = IF intf.ftf THEN wraps + 1 ELSE wraps
  /\ isr' = "clear"
  /\ UNCHANGED << dmaVars, flagVars, intf, lineErr, mainVars >>

IsrClear ==
  /\ isr = "clear"
  /\ ftf' = (ftf /\ ~ intf.ftf)
  /\ htf' = (htf /\ ~ intf.htf)
  /\ isr' = "idle" /\ intf' = NoFlags
  /\ UNCHANGED << dmaVars, wraps, lineErr, mainVars >>

Isr == IsrEnter \/ IsrCount \/ IsrClear

------------------------------------------------------------------------------
(* The main loop.                                                           *)

MainAt(p) == isr = "idle" /\ rd = p

BeginCall(o, k) ==
  /\ op' = o /\ want' = k /\ out' = << >> /\ outcome' = "none"
  /\ startPos' = written /\ promised' = (outcome = "ready" /\ k > 0)

\* read begins by taking the recorded line error, if there is one.
ReadCall(k) ==
  /\ MainAt("idle")
  /\ BeginCall(IF lineErr THEN "heal" ELSE "read", k)
  /\ lineErr' = FALSE
  /\ rd' = "w1"
  /\ UNCHANGED << dmaVars, flagVars, isrVars, cursor, seen, snap >>

ReadyCall ==
  /\ MainAt("idle") /\ ~ lineErr
  /\ BeginCall("ready", 0)
  /\ rd' = "w1"
  /\ UNCHANGED << dmaVars, flagVars, isrVars, lineErr, cursor, seen, snap >>

\* ready with a line error recorded is true without a snapshot.
ReadyAtOnce ==
  /\ MainAt("idle") /\ lineErr
  /\ outcome' = "ready" /\ op' = "ready" /\ startPos' = written /\ promised' = FALSE
  /\ UNCHANGED << dmaVars, flagVars, isrVars, lineErr, cursor, rd, seen, snap, want, out >>

Loc == << dmaVars, flagVars, isrVars, lineErr, cursor, callVars >>

SnapWraps1 ==
  /\ MainAt("w1")
  /\ snap' = [snap EXCEPT !.w1 = wraps] /\ rd' = "remA"
  /\ UNCHANGED << Loc, seen >>

SnapRemA ==
  /\ MainAt("remA")
  /\ snap' = [snap EXCEPT !.remA = cnt] /\ rd' = "ftf"
  /\ UNCHANGED << Loc, seen >>

SnapFtf ==
  /\ MainAt("ftf")
  /\ snap' = [snap EXCEPT !.ftf = ftf] /\ rd' = "remB"
  /\ UNCHANGED << Loc, seen >>

SnapRemB ==
  /\ MainAt("remB")
  /\ snap' = [snap EXCEPT !.remB = cnt] /\ rd' = "w2"
  /\ UNCHANGED << Loc, seen >>

\* The position of a channel that has made w laps and has rem to go.
Position(w, rem) == w * L + (L - rem)

\* What snapshot makes of its five loads.
Consistent == wraps = snap.w1 /\ (snap.ftf \/ snap.remB <= snap.remA)
\* Mutant: a lap whose interrupt is still to come is not counted.
LapCounted == snap.w1

LapSeen == IF snap.ftf THEN snap.w1 + 1 ELSE snap.w1

SnapDone ==
  /\ MainAt("w2") /\ Consistent
  /\ seen' = Position(LapSeen, snap.remB)
  /\ rd' = "decide" /\ snap' = NoSnap
  /\ UNCHANGED Loc

SnapRetry ==
  /\ MainAt("w2") /\ ~ Consistent
  /\ rd' = "w1" /\ snap' = NoSnap
  /\ UNCHANGED << Loc, seen >>

Return(o) ==
  /\ outcome' = o /\ rd' = "idle"
  /\ seen' = 0 /\ out' = << >> /\ want' = 0
  /\ UNCHANGED << dmaVars, flagVars, isrVars, lineErr, snap, op, startPos, promised >>

Heal ==
  /\ MainAt("decide") /\ op = "heal"
  /\ cursor' = seen
  /\ Return("LineError")

\* Mutant: a full buffer is taken for an overwritten one.
LappedWhenFull == seen - cursor >= L \/ seen < cursor

\* available > len, or the subtraction underflowed.
Lapped == seen - cursor > L \/ seen < cursor

\* Mutant: the cursor is not resynchronised with the overrun.
OverrunUnhealed ==
  /\ MainAt("decide") /\ op = "read" /\ Lapped
  /\ UNCHANGED cursor
  /\ Return("RingOverrun")

Overrun ==
  /\ MainAt("decide") /\ op = "read" /\ Lapped
  /\ cursor' = seen
  /\ Return("RingOverrun")

CopyBegin ==
  /\ MainAt("decide") /\ op = "read" /\ ~ Lapped
  /\ rd' = "copy"
  /\ UNCHANGED << Loc, seen, snap >>

ToCopy == Min2(seen - cursor, want)

CopyByte ==
  /\ MainAt("copy") /\ Len(out) < ToCopy
  /\ out' = Append(out, buf[(cursor + Len(out)) % L])
  /\ UNCHANGED << dmaVars, flagVars, isrVars, lineErr, cursor, rd, seen, snap,
                  op, want, outcome, startPos, promised >>

CopyEnd ==
  /\ MainAt("copy") /\ Len(out) = ToCopy
  /\ cursor' = cursor + Len(out)
  /\ Return(IF out = << >> THEN "Empty" ELSE "Ok")

ReadyReturn ==
  /\ MainAt("decide") /\ op = "ready"
  /\ UNCHANGED cursor
  /\ Return(IF seen > cursor THEN "ready" ELSE "notReady")

Snapshot == SnapWraps1 \/ SnapRemA \/ SnapFtf \/ SnapRemB \/ SnapDone \/ SnapRetry
Read == Heal \/ Overrun \/ CopyBegin \/ CopyByte \/ CopyEnd
InCall == Snapshot \/ Read \/ ReadyReturn

Next ==
  \/ DmaStore \/ DmaCount \/ LineError \/ Isr
  \/ InCall \/ ReadyCall \/ ReadyAtOnce \/ \E k \in ReadSizes : ReadCall(k)

Spec == Init /\ [][Next]_vars

\* The interrupt is eventually taken, and a main loop that polls with read
\* keeps polling.  Nothing makes a character arrive.
Fairness ==
  /\ WF_vars(Isr)
  /\ WF_vars(InCall)
  /\ SF_vars(\E k \in ReadSizes \ {0} : ReadCall(k))

FairSpec == Spec /\ Fairness
------------------------------------------------------------------------------
\* The receiver's state has the types of RingBufferedRx, DmaRxCtx and the
\* channel registers; cnt is a length still to go, never 0.
TypeOK ==
  /\ buf \in [0 .. L - 1 -> Nat] /\ cnt \in 1 .. L /\ dma \in {"idle", "count"}
  /\ written \in Nat /\ ftf \in BOOLEAN /\ htf \in BOOLEAN
  /\ wraps \in Nat /\ isr \in {"idle", "count", "clear"}
  /\ intf \in [ftf : BOOLEAN, htf : BOOLEAN]
  /\ lineErr \in BOOLEAN /\ cursor \in Nat /\ seen \in Nat
  /\ rd \in {"idle", "w1", "remA", "ftf", "remB", "w2", "decide", "copy"}
  /\ snap \in [w1 : Nat, remA : 1 .. L, ftf : BOOLEAN, remB : 1 .. L]
  /\ op \in {"read", "heal", "ready"} /\ want \in Nat /\ out \in Seq(Nat)
  /\ outcome \in {"none", "Ok", "Empty", "LineError", "RingOverrun", "ready", "notReady"}
  /\ startPos \in Nat /\ promised \in BOOLEAN

\* RingBufferedRx::snapshot: however the engine and the interrupt interleave
\* with its five loads, it reports a position the channel had during the call:
\* not one from before the call, and not one still to come.
SnapshotExact == rd = "decide" => startPos <= seen /\ seen <= written

\* RingBufferedRx::read, `write_total - self.cursor`: the cursor is never
\* ahead of what a snapshot reports, so the subtraction never underflows.
CursorBehind == cursor <= written /\ (rd \in {"decide", "copy"} => cursor <= seen)

\* RingBufferedRx::read, "NOT a SPURIOUS overrun": RingOverrun is returned
\* only when unread bytes were really overwritten, and always when they
\* already were as the call began.
OverrunExact ==
  [][rd = "decide" /\ op = "read" /\ rd' # rd =>
       /\ rd' = "idle" => written - cursor > L
       /\ startPos - cursor > L => rd' = "idle"]_vars

\* The copy loop of RingBufferedRx::read: a byte it copies is the byte of the
\* stream the caller is owed, unless the engine came a full lap further than
\* that byte before the loop reached it.
IntactUnlessLapped ==
  rd = "copy" => \A i \in 1 .. Len(out) :
                    out[i] = cursor + i \/ written + 1 >= cursor + i + L

\* RingBufferedRx::ready: false only if nothing was waiting when it was called
\* ("the pending-wrap case never reads false-negative"), and the read after a
\* true one does not come back empty-handed ("will make progress").
ReadyHonest ==
  /\ outcome = "notReady" => cursor = startPos
  /\ promised => outcome # "Empty"

\* Every character that arrives is in the end delivered or reported lost: the
\* snapshot does not retry for ever and the reader catches up.
EveryByteAccounted == \A k \in 1 .. MaxBytes : (written >= k) ~> (cursor >= k)

\* The SAFETY comment in the copy loop of RingBufferedRx::read: "the byte is
\* strictly behind the live DMA write index, so it is fully written and not
\* being overwritten now".
DeliveredIntact ==
  rd = "copy" => \A i \in 1 .. Len(out) : out[i] = cursor + i

\* What RingBufferedRx promises at every moment: an exact snapshot, a cursor
\* behind the engine, bytes that are intact unless they were lapped, and an
\* honest ready.
DmaRxSafe ==
  /\ TypeOK
  /\ SnapshotExact
  /\ CursorBehind
  /\ IntactUnlessLapped
  /\ ReadyHonest
==============================================================================
