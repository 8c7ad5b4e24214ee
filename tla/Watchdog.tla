------------------------------- MODULE Watchdog -------------------------------
(***************************************************************************)
(* The free watchdog (watchdog.rs) under the program that uses it          *)
(* (examples/src/bin/watchdog.rs): boot, report of the last reset, start,  *)
(* a main loop that feeds and may hang; resets by pin, by power and by the *)
(* watchdog itself, and a debugger that halts the core.                    *)
(***************************************************************************)
EXTENDS Integers, Sequences

CONSTANTS
  WdRequests,  \* periods asked for, in milliseconds
  WdStep,      \* milliseconds in which a loop that is alive passes once (assumption)
  WdPolls,     \* polls of the oscillator and of the update flags before an error
  WdResets     \* resets of any kind (bound)

ASSUME WdAssumption ==
  /\ \A ms \in WdRequests : ms \in Nat /\ ms <= 50000
  /\ WdResets \in Nat
  /\ WdStep \in Nat \ {0} /\ WdPolls \in Nat \ {0}

VARIABLES
  wdReq,     \* the period this program asks for
  wdCode,    \* the operations main has left before its loop; <<"loop">>, <<"halt">>
  wdPolls,   \* polls left
  wdRcu,     \* [lsi, stable, fwdgt]: the oscillator, and FWDGTRSTF
  wdReg,     \* [open, psc, rld, busy, running, hold] of the watchdog
  wdElapsed, \* milliseconds the counter has run since it was reloaded
  wdLoop,    \* [due, hung]: a pass is due; the loop has stopped feeding
  wdHalted,  \* a debugger holds the core
  wdHist     \* [resets, unreported, healthy, halted]; history

wdVars == <<wdReq, wdCode, wdPolls, wdRcu, wdReg, wdElapsed, wdLoop, wdHalted, wdHist>>

---------------------------------------------------------------------------
Divisors == <<4, 8, 16, 32, 64, 128, 256>>
ReloadMax == 4095
CeilDiv(a, b) == (a + b - 1) \div b
Ticks(ms) == CeilDiv(40000 * ms, 1000)
Fits(ms, i) == CeilDiv(Ticks(ms), Divisors[i]) - 1 <= ReloadMax
\* WdgTimeout::resolve and psc_code: the first divisor whose reload fits.
resolve(ms) ==
  IF Ticks(ms) = 0 THEN [psc |-> 0, rld |-> 0]
  ELSE IF \E i \in 1..7 : Fits(ms, i)
  THEN LET i == CHOOSE i \in 1..7 : Fits(ms, i) /\ \A j \in 1..(i - 1) : ~Fits(ms, j)
       IN [psc |-> i - 1, rld |-> CeilDiv(Ticks(ms), Divisors[i]) - 1]
  ELSE [psc |-> 6, rld |-> ReloadMax]

PeriodTicks(reg) == Divisors[reg.psc + 1] * (reg.rld + 1)
\* The watchdog's registers out of reset (external).
WdResetReg == [open |-> FALSE, psc |-> 0, rld |-> ReloadMax, busy |-> FALSE, running |-> FALSE, hold |-> FALSE]

start == <<"lsiOn", "lsiWait", "unlock", "psc", "rld", "updateWait", "reload", "start">>
\* Mutant: the flag is cleared before it is read.
BootClearsFirst == <<"clear", "cause", "hold">> \o start \o <<"loop">>

Boot == <<"cause", "hold">> \o start \o <<"loop">>

WdInit ==
  /\ wdReq \in WdRequests
  /\ wdCode = Boot /\ wdPolls = WdPolls
  /\ wdRcu = [lsi |-> FALSE, stable |-> FALSE, fwdgt |-> FALSE]
  /\ wdReg = WdResetReg
  /\ wdElapsed = 0 /\ wdLoop = [due |-> FALSE, hung |-> FALSE] /\ wdHalted = FALSE
  /\ wdHist = [resets |-> 0, unreported |-> 0, healthy |-> FALSE, halted |-> FALSE]

At(op) == ~wdHalted /\ wdCode[1] = op
Then(code) == wdCode' = code \o Tail(wdCode)

---------------------------------------------------------------------------
(* main.                                                                   *)

\* was_watchdog_reset, the blinks, clear_reset_cause.
ReadCause ==
  /\ At("cause") /\ Then(IF wdRcu.fwdgt THEN <<"report", "clear">> ELSE << >>)
  /\ UNCHANGED <<wdReq, wdPolls, wdRcu, wdReg, wdElapsed, wdLoop, wdHalted, wdHist>>
Signal ==
  /\ At("report") /\ Then(<< >>)
  /\ wdHist' = [wdHist EXCEPT !.unreported = 0]
  /\ UNCHANGED <<wdReq, wdPolls, wdRcu, wdReg, wdElapsed, wdLoop, wdHalted>>
clear_reset_cause ==
  /\ At("clear") /\ Then(<< >>)
  /\ wdRcu' = [wdRcu EXCEPT !.fwdgt = FALSE]
  /\ UNCHANGED <<wdReq, wdPolls, wdReg, wdElapsed, wdLoop, wdHalted, wdHist>>
freeze_on_debug_halt ==
  /\ At("hold") /\ Then(<< >>)
  /\ wdReg' = [wdReg EXCEPT !.hold = TRUE]
  /\ UNCHANGED <<wdReq, wdPolls, wdRcu, wdElapsed, wdLoop, wdHalted, wdHist>>

LsiOn ==
  /\ At("lsiOn") /\ Then(<< >>)
  /\ wdRcu' = [wdRcu EXCEPT !.lsi = TRUE]
  /\ UNCHANGED <<wdReq, wdPolls, wdReg, wdElapsed, wdLoop, wdHalted, wdHist>>
\* enable_lsi and wait_update: the budget is drawn on, then tested; an error
\* is the end of main.
WdPoll(op, open) ==
  /\ At(op)
  /\ IF open THEN Then(<< >>) /\ wdPolls' = WdPolls
     ELSE /\ wdPolls' = wdPolls - 1
          /\ IF wdPolls' = 0 THEN wdCode' = <<"halt">> ELSE UNCHANGED wdCode
  /\ UNCHANGED <<wdReq, wdRcu, wdReg, wdElapsed, wdLoop, wdHalted, wdHist>>

\* program: PSC and RLD take a write only while the key has opened them.
WdProgram ==
  /\ \/ At("unlock") /\ wdReg' = [wdReg EXCEPT !.open = TRUE]
     \/ At("psc") /\ wdReg' = IF wdReg.open THEN [wdReg EXCEPT !.psc = resolve(wdReq).psc, !.busy = TRUE] ELSE wdReg
     \/ At("rld") /\ wdReg' = IF wdReg.open THEN [wdReg EXCEPT !.rld = resolve(wdReq).rld, !.busy = TRUE] ELSE wdReg
     \/ At("start") /\ wdReg' = [wdReg EXCEPT !.running = TRUE, !.open = FALSE]
     \/ At("reload") /\ wdReg' = [wdReg EXCEPT !.open = FALSE]
  /\ Then(<< >>)
  /\ wdElapsed' = 0
  /\ UNCHANGED <<wdReq, wdPolls, wdRcu, wdLoop, wdHalted, wdHist>>

\* One pass of the loop: the button may stop the feeding for good.
LoopPass ==
  /\ At("loop") /\ wdLoop.due
  /\ \E pressed \in BOOLEAN :
       /\ wdLoop' = [due |-> FALSE, hung |-> wdLoop.hung \/ pressed]
       /\ wdElapsed' = IF wdLoop.hung \/ pressed THEN wdElapsed ELSE 0
  /\ UNCHANGED <<wdReq, wdCode, wdPolls, wdRcu, wdReg, wdHalted, wdHist>>

---------------------------------------------------------------------------
(* The silicon, the debugger and the board (external).                     *)

Stabilise ==
  /\ wdRcu.lsi /\ ~wdRcu.stable
  /\ wdRcu' = [wdRcu EXCEPT !.stable = TRUE]
  /\ UNCHANGED <<wdReq, wdCode, wdPolls, wdReg, wdElapsed, wdLoop, wdHalted, wdHist>>
Updated ==
  /\ wdReg.busy /\ wdRcu.stable
  /\ wdReg' = [wdReg EXCEPT !.busy = FALSE]
  /\ UNCHANGED <<wdReq, wdCode, wdPolls, wdRcu, wdElapsed, wdLoop, wdHalted, wdHist>>
Halt ==
  /\ wdHalted' = ~wdHalted
  /\ UNCHANGED <<wdReq, wdCode, wdPolls, wdRcu, wdReg, wdElapsed, wdLoop, wdHist>>

Counting == wdReg.running /\ ~(wdHalted /\ wdReg.hold)
Expired == Counting /\ wdElapsed * 40 >= PeriodTicks(wdReg)
\* Time: a live loop passes in every step.
Tick ==
  /\ Counting /\ ~Expired /\ (wdCode = <<"loop">> => wdHalted \/ ~wdLoop.due)
  /\ wdElapsed' = wdElapsed + WdStep
  /\ wdLoop' = [wdLoop EXCEPT !.due = ~wdHalted]
  /\ UNCHANGED <<wdReq, wdCode, wdPolls, wdRcu, wdReg, wdHalted, wdHist>>

\* A reset starts main over; only the cause survives it.  Expiry is the
\* watchdog's; the others are the pin's and the power's.
Reset(byWatchdog) ==
  /\ byWatchdog => Expired
  /\ wdHist.resets < WdResets
  /\ wdCode' = Boot /\ wdPolls' = WdPolls /\ wdReg' = WdResetReg /\ wdElapsed' = 0
  /\ wdLoop' = [due |-> FALSE, hung |-> FALSE] /\ wdHalted' = FALSE
  /\ wdRcu' = [lsi |-> FALSE, stable |-> FALSE, fwdgt |-> wdRcu.fwdgt \/ byWatchdog]
  /\ wdHist' = [wdHist EXCEPT !.resets = @ + 1,
       !.unreported = IF byWatchdog THEN @ + 1 ELSE @,
       !.healthy = @ \/ (byWatchdog /\ ~wdLoop.hung /\ ~wdHalted /\ wdReq >= 2 * WdStep),
       !.halted = @ \/ (byWatchdog /\ wdHalted)]
  /\ UNCHANGED wdReq

WdNext ==
  \/ ReadCause \/ Signal \/ clear_reset_cause \/ freeze_on_debug_halt \/ LsiOn \/ WdProgram \/ LoopPass
  \/ WdPoll("lsiWait", wdRcu.stable) \/ WdPoll("updateWait", ~wdReg.busy)
  \/ Stabilise \/ Updated \/ Halt \/ Tick \/ \E byWatchdog \in BOOLEAN : Reset(byWatchdog)
WdSpec == WdInit /\ [][WdNext]_wdVars

---------------------------------------------------------------------------
(* Properties.                                                             *)

\* Types: no poll is made on an exhausted budget.
WdTypeOK ==
  /\ wdPolls \in 0..WdPolls /\ wdElapsed \in Nat /\ wdHist.resets \in 0..WdResets
  /\ wdReg.psc \in 0..6 /\ wdReg.rld \in 0..ReloadMax

\* The pair a running watchdog was given is never shorter than the request, or is
\* the longest there is; and no other pair comes closer.
ResolveHonest ==
  wdReg.running =>
  LET got == PeriodTicks(resolve(wdReq)) IN
    /\ got >= Ticks(wdReq) \/ got = 256 * 4096
    /\ \A i \in 1..7 : Fits(wdReq, i) /\ wdReq > 0 => got <= Divisors[i] * CeilDiv(Ticks(wdReq), Divisors[i])

\* A running watchdog has its clock, and the settings asked for have reached
\* it: never the reset period, never one half-updated.
RunsAsAsked ==
  wdReg.running => /\ wdRcu.stable /\ ~wdReg.busy
                   /\ [psc |-> wdReg.psc, rld |-> wdReg.rld] = resolve(wdReq)

\* A loop that feeds is never reset, and one that has stopped is reset within
\* a pass of the time asked for, and less than one count of the slowest
\* prescaler (256 ticks at 40 kHz, 6.4 ms) later.
HealthyNotReset == ~wdHist.healthy
HungInTime == wdReg.running => wdElapsed <= wdReq + WdStep + 6

\* A debugger that holds the core never loses it to the watchdog.
HaltSafe == ~wdHist.halted

\* A watchdog reset is reported before the watchdog can strike again, however
\* the boots in between ended.
NoResetUnreported == wdReg.running => wdHist.unreported = 0

\* What the watchdog promises: the time-out asked for, no reset of a program
\* that feeds it in time and one of a program that hangs, none while halted,
\* and a boot that reports the reset that caused it.
WdSafe ==
  /\ WdTypeOK
  /\ ResolveHonest
  /\ RunsAsAsked
  /\ HealthyNotReset
  /\ HungInTime
  /\ HaltSafe
  /\ NoResetUnreported
=============================================================================
