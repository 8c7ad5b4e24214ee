-------------------------------- MODULE Ticks --------------------------------
(***************************************************************************)
(* SysTick and its two users: the periodic Timebase (timebase.rs) with the *)
(* exception body on_systick (irq.rs), and the polled Delay (delay.rs).    *)
(* The counter runs a core cycle at a time between any two statements; the *)
(* exception is taken when the core gets round to it.                      *)
(***************************************************************************)
EXTENDS Integers

CONSTANTS
  TkReloadMax, \* the largest value the reload register holds
  TkHz,        \* core cycles in a unit of time
  TkUnit,      \* the time units a duration is divided by
  TkDurations, \* durations asked of Delay
  TkRates,     \* rates asked of Timebase, in the unit of TkHz
  TkCalls      \* calls of the application (bound)

ASSUME TkAssumption ==
  /\ TkReloadMax \in Nat \ {0} /\ TkHz \in Nat \ {0} /\ TkUnit \in Nat \ {0}
  /\ TkDurations \subseteq Nat /\ TkRates \subseteq Nat /\ TkCalls \in Nat

VARIABLES
  tkOwner, \* who holds SYST: "free", "delay", "timebase", or "lost"
  tkSyst,  \* [reload, cur, on, int, flag]: RVR, CVR, ENABLE, TICKINT, COUNTFLAG
  tkWait,  \* [left, chunk, asked, ran]: of the running delay; chunk 0 between chunks,
           \* ran the cycles spun, counted as far as they were asked for
  tkIrq,   \* [pend, late]: the pended exception; entries since the latest stop, to 2
  tkAsked, \* the rate of the running timebase
  tkCount  \* calls made

tkVars == <<tkOwner, tkSyst, tkWait, tkIrq, tkAsked, tkCount>>

---------------------------------------------------------------------------
Ceil(a, b) == (a + b - 1) \div b
cycles_for_ns(duration) == Ceil(duration * TkHz, TkUnit)
\* The reload for a rate; none for InvalidRate and ReloadTooLarge.
reload_for(rate) ==
  IF rate = 0 \/ rate > TkHz THEN {} ELSE {r \in {TkHz \div rate - 1} : r <= TkReloadMax}
ChunkReload(chunk) == chunk - 1

ChunkOf(left) == IF left > TkReloadMax THEN TkReloadMax ELSE left

NoWait == [left |-> 0, chunk |-> 0, asked |-> 0, ran |-> 0]
TkInit ==
  /\ tkOwner = "free"
  /\ tkSyst = [reload |-> 0, cur |-> 0, on |-> FALSE, int |-> FALSE, flag |-> FALSE]
  /\ tkWait = NoWait
  /\ tkIrq = [pend |-> FALSE, late |-> 0]
  /\ tkAsked = 0 /\ tkCount = 0

TkCalled == tkCount < TkCalls /\ tkWait.left = 0 /\ tkCount' = tkCount + 1
Started(syst) == [syst EXCEPT !.cur = 0, !.flag = FALSE, !.int = TRUE, !.on = TRUE]
\* Mutant: only the counter is stopped.
StoppedCounting(syst) == [syst EXCEPT !.on = FALSE]

Stopped(syst) == [syst EXCEPT !.on = FALSE, !.int = FALSE]

---------------------------------------------------------------------------
(* Timebase.                                                               *)

\* An error drops the SYST that was passed by value.
TimebaseNew(rate) ==
  /\ TkCalled /\ tkOwner = "free"
  /\ IF reload_for(rate) = {} THEN tkOwner' = "lost" /\ UNCHANGED <<tkSyst, tkAsked, tkIrq>>
     ELSE /\ tkOwner' = "timebase" /\ tkAsked' = rate
          /\ tkSyst' = Started([tkSyst EXCEPT !.reload = CHOOSE r \in reload_for(rate) : TRUE])
          /\ tkIrq' = [tkIrq EXCEPT !.late = 0]
  /\ UNCHANGED tkWait
TimebaseStart ==
  /\ TkCalled /\ tkOwner = "timebase"
  /\ tkSyst' = Started(tkSyst) /\ tkIrq' = [tkIrq EXCEPT !.late = 0]
  /\ UNCHANGED <<tkOwner, tkWait, tkAsked>>
TimebaseStop(free) ==
  /\ TkCalled /\ tkOwner = "timebase"
  /\ tkSyst' = Stopped(tkSyst)
  /\ tkOwner' = IF free THEN "free" ELSE "timebase"
  /\ UNCHANGED <<tkWait, tkIrq, tkAsked>>
on_systick ==
  /\ tkIrq.pend
  /\ tkIrq' = [pend |-> FALSE, late |-> IF tkSyst.int /\ tkOwner = "timebase" THEN 0 ELSE IF tkIrq.late = 0 THEN 1 ELSE 2]
  /\ UNCHANGED <<tkOwner, tkSyst, tkWait, tkAsked, tkCount>>

---------------------------------------------------------------------------
(* Delay.                                                                  *)

DelayNew ==
  /\ TkCalled /\ tkOwner = "free" /\ tkOwner' = "delay"
  /\ UNCHANGED <<tkSyst, tkWait, tkIrq, tkAsked>>
DelayFree ==
  /\ TkCalled /\ tkOwner = "delay" /\ tkOwner' = "free"
  /\ UNCHANGED <<tkSyst, tkWait, tkIrq, tkAsked>>
DelayCall(duration) ==
  /\ TkCalled /\ tkOwner = "delay"
  /\ tkWait' = [NoWait EXCEPT !.left = cycles_for_ns(duration), !.asked = duration]
  /\ UNCHANGED <<tkOwner, tkSyst, tkIrq, tkAsked>>
\* wait_cycles: reload, clear, enable; nothing counts until the last of them.
ChunkBegin ==
  /\ tkWait.left > 0 /\ tkWait.chunk = 0
  /\ LET chunk == ChunkOf(tkWait.left) IN
     /\ tkWait' = [tkWait EXCEPT !.chunk = chunk]
     /\ tkSyst' = [tkSyst EXCEPT !.reload = ChunkReload(chunk), !.cur = 0, !.flag = FALSE, !.on = TRUE]
  /\ UNCHANGED <<tkOwner, tkIrq, tkAsked, tkCount>>
\* The flag is cleared by the poll that sees it; then disable, next chunk.
ChunkEnd ==
  /\ tkWait.chunk > 0 /\ tkSyst.flag
  /\ tkSyst' = [tkSyst EXCEPT !.flag = FALSE, !.on = FALSE]
  /\ tkWait' = [tkWait EXCEPT !.left = @ - tkWait.chunk, !.chunk = 0]
  /\ UNCHANGED <<tkOwner, tkIrq, tkAsked, tkCount>>

---------------------------------------------------------------------------
\* SysTick (external): the first count loads the reload, the one from 1 to 0
\* raises the flag and pends the exception.  A reload of zero counts nothing.
Count ==
  /\ tkSyst.on
  /\ tkSyst' = [tkSyst EXCEPT !.cur = IF @ = 0 THEN tkSyst.reload ELSE @ - 1,
                  !.flag = @ \/ tkSyst.cur = 1]
  /\ tkIrq' = [tkIrq EXCEPT !.pend = @ \/ (tkSyst.cur = 1 /\ tkSyst.int)]
  /\ tkWait' = [tkWait EXCEPT !.ran = IF tkWait.chunk > 0 /\ @ < Ceil(tkWait.asked * TkHz, TkUnit) THEN @ + 1 ELSE @]
  /\ UNCHANGED <<tkOwner, tkAsked, tkCount>>

TkNext ==
  \/ \E rate \in TkRates : TimebaseNew(rate)
  \/ TimebaseStart \/ \E free \in BOOLEAN : TimebaseStop(free)
  \/ on_systick \/ DelayNew \/ DelayFree
  \/ \E duration \in TkDurations : DelayCall(duration)
  \/ ChunkBegin \/ ChunkEnd \/ Count
\* The core runs, and so does its timer.
TkSpec == TkInit /\ [][TkNext]_tkVars /\ WF_tkVars(Count) /\ WF_tkVars(ChunkBegin) /\ WF_tkVars(ChunkEnd)

---------------------------------------------------------------------------
(* Properties.                                                             *)

\* Types: what is written to the reload register fits it.
TkTypeOK ==
  /\ tkSyst.reload \in 0..TkReloadMax /\ tkSyst.cur \in 0..TkReloadMax
  /\ tkWait.left \in Nat /\ tkWait.chunk \in 0..TkReloadMax

\* A delay never ends early, over however many chunks it is spun.
DelayNotShort ==
  tkWait.left = 0 => tkWait.ran * TkUnit >= tkWait.asked * TkHz

\* A wait that cannot end is a chunk of a single cycle, and nothing else.
OnlyOneCycleHangs == tkWait.chunk > 0 /\ tkSyst.reload = 0 => tkWait.chunk = 1

\* A running timebase ticks at the rate asked for or faster, by less than one
\* count, and its reload fits; only a rate above half the core clock stays mute.
TickRateKept ==
  tkOwner = "timebase" =>
    /\ (tkSyst.reload + 1) * tkAsked <= TkHz /\ TkHz < (tkSyst.reload + 2) * tkAsked
    /\ tkSyst.reload = 0 => 2 * tkAsked > TkHz

\* Once the timebase is stopped or freed at most the one tick that was already
\* pending comes, whatever SYST is used for afterwards.
StopsTicking == tkIrq.late <= 1

\* Every delay returns.
DelayReturns == tkWait.left > 0 ~> tkWait.left = 0

\* What the two users of SysTick promise: a delay that is not short, a hang
\* only where the last chunk is one cycle, a tick at the rate asked for, and no
\* tick after the time base was dropped but the one that was pending.
TkSafe ==
  /\ TkTypeOK
  /\ DelayNotShort
  /\ OnlyOneCycleHangs
  /\ TickRateKept
  /\ StopsTicking
=============================================================================
