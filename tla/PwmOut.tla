-------------------------------- MODULE PwmOut --------------------------------
(***************************************************************************)
(* The single-channel PWM output (pwm.rs) at its register writes, against  *)
(* a counter that runs between any two of them and takes the period and    *)
(* the compare value over from their shadows at the end of a period.       *)
(***************************************************************************)
EXTENDS Integers, Sequences

CONSTANTS
  PwMaxCar,  \* the largest period the counter holds
  PwClock,   \* the timer's clock
  PwFreqs,   \* frequencies asked for
  PwDuties,  \* duties set
  PwCalls    \* calls of new and set_duty_cycle (bound)

ASSUME PwAssumption ==
  /\ PwMaxCar \in Nat \ {0} /\ PwClock \in Nat /\ PwFreqs \subseteq Nat /\ PwDuties \subseteq Nat
  /\ PwCalls \in Nat

VARIABLES
  pwCode,   \* the register writes the running call has left
  pwReg,    \* [car, cmp, arse, comsen, en, cen] as the bus sees them
  pwLive,   \* [car, cmp, cnt]: what the counter works with
  pwSelf,   \* [freq, period]: the handle, and what it was asked for; period 0: none
  pwPeriod, \* [high, want]: counts driven high in this period, and the duty
            \* that stood at its start; history
  pwDone,   \* the latest finished period: [high, of, want]; history
  pwCount   \* calls made

pwVars == <<pwCode, pwReg, pwLive, pwSelf, pwPeriod, pwDone, pwCount>>

---------------------------------------------------------------------------
\* The reload for a frequency, clamped to the counter; none for a degenerate one.
period_for(freq) ==
  IF freq = 0 \/ PwClock = 0 THEN {}
  ELSE LET ticks == (PwClock + freq \div 2) \div freq
       IN IF ticks < 2 THEN {} ELSE {IF ticks - 1 > PwMaxCar THEN PwMaxCar ELSE ticks - 1}

To(reg, value) == [reg |-> reg, value |-> value]
\* Mutant: the compare value is written through.
ConfigureUnshadowed(period) ==
  <<To("car", period), To("arse", TRUE), To("cmp", 0), To("en", TRUE), To("cen", TRUE)>>

PwConfigure(period) ==
  <<To("car", period), To("arse", TRUE), To("comsen", TRUE), To("cmp", 0), To("en", TRUE), To("cen", TRUE)>>

PwInit ==
  /\ pwCode = << >>
  /\ pwReg = [car |-> PwMaxCar, cmp |-> 0, arse |-> FALSE, comsen |-> FALSE, en |-> FALSE, cen |-> FALSE]
  /\ pwLive = [car |-> PwMaxCar, cmp |-> 0, cnt |-> 0]
  /\ pwSelf = [freq |-> 0, period |-> 0]
  /\ pwPeriod = [high |-> 0, want |-> 0]
  /\ pwDone = [high |-> 0, of |-> 1, want |-> 0]
  /\ pwCount = 0

PwCalled == pwCode = << >> /\ pwCount < PwCalls /\ pwCount' = pwCount + 1

\* new on a general timer or another, with a pin of the descriptor or not: a
\* refusal, a degenerate frequency among them, writes no register of the timer.
PwNew(freq, general, known) ==
  /\ PwCalled
  /\ IF ~general \/ period_for(freq) = {} \/ ~known THEN UNCHANGED <<pwCode, pwSelf>>
     ELSE LET period == CHOOSE p \in period_for(freq) : TRUE IN
          /\ pwCode' = PwConfigure(period)
          /\ pwSelf' = [freq |-> freq, period |-> period]
  /\ UNCHANGED <<pwReg, pwLive, pwPeriod, pwDone>>

set_duty_cycle(duty) ==
  /\ PwCalled /\ pwSelf.period > 0
  /\ pwCode' = <<To("cmp", IF duty > pwSelf.period THEN pwSelf.period ELSE duty)>>
  /\ UNCHANGED <<pwReg, pwLive, pwSelf, pwPeriod, pwDone>>

PwWrite ==
  /\ pwCode # << >> /\ pwCode' = Tail(pwCode)
  /\ LET w == pwCode[1] IN
     /\ pwReg' = [pwReg EXCEPT ![w.reg] = w.value]
     /\ pwLive' = CASE w.reg = "car" /\ ~pwReg.arse -> [pwLive EXCEPT !.car = w.value]
                    [] w.reg = "cmp" /\ ~pwReg.comsen -> [pwLive EXCEPT !.cmp = w.value]
                    [] OTHER -> pwLive
  /\ UNCHANGED <<pwSelf, pwPeriod, pwDone, pwCount>>

PwHigh == pwReg.en /\ pwLive.cnt < pwLive.cmp
\* A count (external): at the reload value the period ends and the shadows are taken.
PwCount ==
  /\ pwReg.cen
  /\ LET high == pwPeriod.high + (IF PwHigh THEN 1 ELSE 0) IN
     IF pwLive.cnt < pwLive.car
     THEN /\ pwLive' = [pwLive EXCEPT !.cnt = @ + 1]
          /\ pwPeriod' = [pwPeriod EXCEPT !.high = high]
          /\ UNCHANGED pwDone
     ELSE /\ pwLive' = [car |-> pwReg.car, cmp |-> pwReg.cmp, cnt |-> 0]
          /\ pwDone' = [high |-> high, of |-> pwLive.cnt + 1, want |-> pwPeriod.want]
          /\ pwPeriod' = [high |-> 0, want |-> pwReg.cmp]
  /\ UNCHANGED <<pwCode, pwReg, pwSelf, pwCount>>

PwNext ==
  \/ \E freq \in PwFreqs, general, known \in BOOLEAN : PwNew(freq, general, known)
  \/ \E duty \in PwDuties : set_duty_cycle(duty)
  \/ PwWrite \/ PwCount
PwSpec == PwInit /\ [][PwNext]_pwVars

---------------------------------------------------------------------------
(* Properties.                                                             *)

\* Types: every value written fits its register, the compare value the period.
PwTypeOK ==
  /\ pwLive.car \in 1..PwMaxCar /\ pwReg.car \in 1..PwMaxCar /\ pwLive.cnt \in 0..PwMaxCar
  /\ (pwCode = << >> => pwReg.cmp <= pwReg.car)

\* Every finished period is driven for exactly the duty that stood when it
\* began, never a mixture of that and a later one; only a period shorter than
\* the duty, after a change of frequency, cuts it off.
DutyWhole ==
  pwDone.high = IF pwDone.want > pwDone.of THEN pwDone.of ELSE pwDone.want

\* The handle's period is the frequency asked for, to half a count, or the
\* slowest there is.
FrequencyKept ==
  pwSelf.period > 0 =>
    LET counts == (pwSelf.period + 1) * pwSelf.freq
        off == IF counts > PwClock THEN counts - PwClock ELSE PwClock - counts
    IN 2 * off <= pwSelf.freq \/ (pwSelf.period = PwMaxCar /\ counts < PwClock)

\* What the single-channel PWM promises: an output that shows a duty that was
\* set, whole periods of it, and the frequency asked for.
PwSafe ==
  /\ PwTypeOK
  /\ DutyWhole
  /\ FrequencyKept
=============================================================================
