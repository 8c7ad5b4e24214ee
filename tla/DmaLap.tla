-------------------------------- MODULE DmaLap --------------------------------
(***************************************************************************)
(* The life of a DMA-ring receiver (usart_rx.rs, RingBufferedRx): armed,   *)
(* read, released and armed again over the channel and the static          *)
(* wrap-count context of dma.rs, which outlives it.  The interrupt may be  *)
(* held off for any time, so laps fold into one flag; it may fire at any   *)
(* step of new, because a first arming left it unmasked; and the wrap      *)
(* count is a machine word.  Calls are atomic here (DmaRxRing takes them   *)
(* apart).                                                                 *)
(***************************************************************************)
EXTENDS Naturals

CONSTANTS
  LapLen,    \* length of the DMA buffer
  LapWords,  \* values of the wrap counter (2^32 in the code)
  LapSlices, \* lengths of the slices passed to read
  LapBytes   \* characters on the wire (bound)

ASSUME LapLenAssumption == LapLen \in 1..65535
ASSUME LapWordsAssumption == LapWords \in Nat \ {0}
ASSUME LapSlicesAssumption == LapSlices \subseteq Nat
ASSUME LapBytesAssumption == LapBytes \in Nat

VARIABLES
  lapChan,  \* the channel: CHEN, CHxCNT, its flags; DENR of the USART
  lapCtx,   \* DmaRxCtx: installed, wraps; the NVIC's enable
  lapApp,   \* the receiver: where new is, the cursor, the latest outcome
  lapErr,   \* RxSlot::line_error
  lapHist   \* history: position, laps ended, and what the premises of exactness say

lapVars == <<lapChan, lapCtx, lapApp, lapErr, lapHist>>

LapInit ==
  /\ lapChan = [chen |-> FALSE, cnt |-> 0, ftf |-> FALSE, htf |-> FALSE, denr |-> FALSE]
  /\ lapCtx = [installed |-> FALSE, wraps |-> 0, unmasked |-> FALSE]
  /\ lapApp = [pc |-> "none", cursor |-> 0, res |-> "none"]
  /\ lapErr = FALSE
  /\ lapHist = [pos |-> 0, laps |-> 0, bytes |-> 0, folded |-> FALSE, stale |-> FALSE, over |-> FALSE]

LapAt(pc) == lapApp.pc = pc
LapGoto(pc) == lapApp' = [lapApp EXCEPT !.pc = pc]

---------------------------------------------------------------------------
(* The channel and its interrupt.                                          *)

\* A character: the engine stores it and counts down; at the end of a lap
\* the count reloads and FTFIF rises, or stays up when the last lap's still is.
Char ==
  /\ lapChan.chen /\ lapChan.denr /\ lapHist.bytes < LapBytes
  /\ LET lap == lapChan.cnt = 1 IN
     /\ lapChan' = [lapChan EXCEPT !.cnt = IF lap THEN LapLen ELSE @ - 1,
                                   !.ftf = @ \/ lap,
                                   !.htf = @ \/ lapChan.cnt - 1 = LapLen \div 2]
     /\ lapHist' = [lapHist EXCEPT !.pos = @ + 1, !.bytes = @ + 1,
                                   !.laps = IF lap THEN @ + 1 ELSE @,
                                   !.folded = @ \/ (lap /\ lapChan.ftf)]
  /\ UNCHANGED <<lapCtx, lapApp, lapErr>>

\* service_dma_rx: count the lap once, clear what was seen.
ServiceDmaRx ==
  /\ lapCtx.unmasked /\ (lapChan.ftf \/ lapChan.htf)
  /\ lapCtx.installed
  /\ lapCtx' = [lapCtx EXCEPT !.wraps = IF lapChan.ftf THEN (@ + 1) % LapWords ELSE @]
  /\ lapChan' = [lapChan EXCEPT !.ftf = FALSE, !.htf = FALSE]
  /\ lapHist' = [lapHist EXCEPT !.over = @ \/ (lapChan.ftf /\ lapCtx.wraps + 1 = LapWords)]
  /\ UNCHANGED <<lapApp, lapErr>>

\* The USART's interrupt records a line error.
RaiseLineError ==
  /\ LapAt("live") /\ ~lapErr /\ lapErr' = TRUE
  /\ UNCHANGED <<lapChan, lapCtx, lapApp, lapHist>>

---------------------------------------------------------------------------
(* new and release.                                                        *)

\* The channel is stopped and probed; one that does not answer arms nothing.
NewProbe ==
  /\ LapAt("none")
  /\ lapChan' = [lapChan EXCEPT !.chen = FALSE]
  /\ \E pc \in {"configure", "none"} : LapGoto(pc)
  /\ UNCHANGED <<lapCtx, lapErr, lapHist>>

\* configure_circular: the count is written and CHEN set; the flags stay.
NewConfigure ==
  /\ LapAt("configure")
  /\ lapChan' = [lapChan EXCEPT !.chen = TRUE, !.cnt = LapLen]
  /\ lapHist' = [lapHist EXCEPT !.pos = 0, !.laps = 0, !.folded = FALSE]
  /\ LapGoto("route")
  /\ UNCHANGED <<lapCtx, lapErr>>

\* enable_dma_rx: from here characters reach the buffer.
NewRoute ==
  /\ LapAt("route")
  /\ lapChan' = [lapChan EXCEPT !.denr = TRUE]
  /\ LapGoto("install")
  /\ UNCHANGED <<lapCtx, lapErr, lapHist>>

\* Mutant: the wrap count of the arming before is kept.
NewInstallKept ==
  /\ LapAt("install")
  /\ lapCtx' = [lapCtx EXCEPT !.installed = TRUE]
  /\ lapErr' = FALSE
  /\ LapGoto("unmask")
  /\ UNCHANGED <<lapChan, lapHist>>

\* install_usart_ctx and dma::install: a clean slot and a wrap count of zero.
\* History: whether laps ended before it, and whether the flag that is up
\* is of this arming.
NewInstall ==
  /\ LapAt("install")
  /\ lapCtx' = [lapCtx EXCEPT !.installed = TRUE, !.wraps = 0]
  /\ lapErr' = FALSE
  /\ lapHist' = [lapHist EXCEPT
       !.stale = lapChan.ftf /\ lapHist.laps = 0,
       !.folded = lapHist.laps > (IF lapChan.ftf THEN 1 ELSE 0), !.over = FALSE]
  /\ LapGoto("unmask")
  /\ UNCHANGED lapChan

NewUnmask ==
  /\ LapAt("unmask")
  /\ lapCtx' = [lapCtx EXCEPT !.unmasked = TRUE]
  /\ lapApp' = [pc |-> "live", cursor |-> 0, res |-> "none"]
  /\ UNCHANGED <<lapChan, lapErr, lapHist>>

\* release: the channel and its request are off; flags, context and NVIC stay.
LapRelease ==
  /\ LapAt("live")
  /\ lapChan' = [lapChan EXCEPT !.chen = FALSE, !.denr = FALSE]
  /\ LapGoto("none")
  /\ UNCHANGED <<lapCtx, lapErr, lapHist>>

---------------------------------------------------------------------------
(* read and ready.                                                         *)

\* write_total over a snapshot: the counted laps, the one still pending, and
\* the progress in this lap.
WriteTotal ==
  LET laps == IF lapChan.ftf THEN (lapCtx.wraps + 1) % LapWords ELSE lapCtx.wraps
  IN laps * LapLen + (LapLen - lapChan.cnt)

\* The subtraction wraps around, so a total below the cursor looks lapped.
LapWrapped == WriteTotal < lapApp.cursor \/ WriteTotal - lapApp.cursor > LapLen

LapReady == lapErr \/ WriteTotal > lapApp.cursor

\* Mutant: an overrun leaves the cursor where it is.
LapReadUnhealed ==
  /\ LapAt("live")
  /\ LET avail == WriteTotal - lapApp.cursor IN
     \/ lapErr /\ lapApp' = [lapApp EXCEPT !.cursor = WriteTotal, !.res = "LineError"]
     \/ ~lapErr /\ LapWrapped /\ lapApp' = [lapApp EXCEPT !.res = "RingOverrun"]
     \/ /\ ~lapErr /\ ~LapWrapped
        /\ \E k \in LapSlices :
             lapApp' = [lapApp EXCEPT !.cursor = @ + (IF avail <= k THEN avail ELSE k),
                                      !.res = "Ok"]
  /\ lapErr' = FALSE
  /\ UNCHANGED <<lapChan, lapCtx, lapHist>>

LapRead ==
  /\ LapAt("live")
  /\ \/ /\ lapErr \/ LapWrapped
        /\ lapApp' = [lapApp EXCEPT !.cursor = WriteTotal,
                                    !.res = IF lapErr THEN "LineError" ELSE "RingOverrun"]
     \/ /\ ~lapErr /\ ~LapWrapped
        /\ \E k \in LapSlices :
             LET avail == WriteTotal - lapApp.cursor
                 n == IF avail <= k THEN avail ELSE k
             IN lapApp' = [lapApp EXCEPT !.cursor = @ + n, !.res = "Ok"]
  /\ lapErr' = FALSE
  /\ UNCHANGED <<lapChan, lapCtx, lapHist>>

LapNext == Char \/ ServiceDmaRx \/ RaiseLineError \/ NewProbe \/ NewConfigure \/ NewRoute
           \/ NewInstall \/ NewUnmask \/ LapRelease \/ LapRead
LapSpec == LapInit /\ [][LapNext]_lapVars

---------------------------------------------------------------------------
(* Properties.                                                             *)

\* Types.
LapTypeOK ==
  /\ lapChan \in [chen : BOOLEAN, cnt : 0..LapLen, ftf : BOOLEAN, htf : BOOLEAN, denr : BOOLEAN]
  /\ lapCtx \in [installed : BOOLEAN, wraps : 0..LapWords - 1, unmasked : BOOLEAN]
  /\ lapApp \in [pc : {"none", "configure", "route", "install", "unmask", "live"},
                 cursor : Nat, res : {"none", "Ok", "LineError", "RingOverrun"}]
  /\ lapErr \in BOOLEAN
  /\ lapHist \in [pos : Nat, laps : Nat, bytes : 0..LapBytes, folded : BOOLEAN, stale : BOOLEAN,
                  over : BOOLEAN]

\* The total is the true position, provided that no two laps folded into one
\* flag, that no lap ended inside new, that no flag was left over from the
\* arming before, and that the counter has not run out.
ExactUnlessLate ==
  (LapAt("live") /\ ~lapHist.folded /\ ~lapHist.stale /\ ~lapHist.over
     /\ lapHist.pos < LapLen * LapWords) => WriteTotal = lapHist.pos

\* Laps may be missed, but the reader never runs ahead of the DMA: whatever
\* was folded, held off or counted during new, no byte is handed out that has
\* not been stored (a flag left over from an earlier arming, served only
\* after new installed the new count, is the one exception).
NeverAhead == (LapAt("live") /\ ~lapHist.stale) => lapApp.cursor <= lapHist.pos

\* A read catches up in one call from any cursor, the counter's overflow
\* included: afterwards the total is at most a buffer's length ahead.
CatchesUp ==
  [][LapRead => lapApp'.cursor <= WriteTotal /\ WriteTotal - lapApp'.cursor <= LapLen]_lapVars

\* ready and read agree: when ready says no, read has no overrun to report.
\* (Two folded laps take the total back below the cursor, and so does the
\* counter's overflow: read then reports an overrun that ready denies.)
ReadyComplete ==
  (LapAt("live") /\ ~LapReady /\ ~lapHist.folded /\ ~lapHist.stale /\ ~lapHist.over
     /\ lapHist.pos < LapLen * LapWords) => ~LapWrapped

\* What the 64-bit total of the receiver promises across its lives: exact
\* unless an interrupt came more than a lap late, never ahead of the engine,
\* and a ready that is complete when the cursor has caught up.
LapSafe ==
  /\ LapTypeOK
  /\ ExactUnlessLate
  /\ NeverAhead
  /\ ReadyComplete
=============================================================================
