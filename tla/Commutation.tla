----------------------------- MODULE Commutation -----------------------------
(***************************************************************************)
(* A motor's complementary bridge: the advanced timer's registers          *)
(* (timer.rs), the hall group (gpio.rs), and the six-step layer above them *)
(* (examples/crates/control) as the commutation examples run it.  The      *)
(* rotor turns and the timer's update event, which loads the shadowed      *)
(* compares, falls between any two register accesses of the loop.          *)
(***************************************************************************)
EXTENDS Naturals, Sequences, FiniteSets

CONSTANTS
  CmDirections, \* within {"Forward", "Reverse"}
  CmOffsets,    \* alignment offsets a bench may set
  CmDuties,     \* duties the loop is asked for; those above CmPeriod are refused
  CmPeriod,     \* the auto-reload value
  CmMoves       \* sectors the rotor moves between two applied steps (bound)

ASSUME CmAssumption ==
  /\ CmDirections \subseteq {"Forward", "Reverse"}
  /\ CmOffsets \subseteq Nat /\ CmDuties \subseteq Nat
  /\ CmPeriod \in Nat \ {0} /\ CmMoves \in Nat

Phases == 1..3

VARIABLES
  cmReg,    \* the timer: clock gate, CCHP, CHCTL2 enables, compares, CEN
  cmBoot,   \* bring_up_motor's next step and its channel or gate, or Up
  cmStep,   \* the decoder: direction and offset
  cmRotor,  \* the sector the rotor is in, FALSE for a disconnected sensor
  cmCall,   \* the loop's position and locals
  cmLast    \* the latest completed step: pattern applied, update seen since

cmVars == <<cmReg, cmBoot, cmStep, cmRotor, cmCall, cmLast>>

---------------------------------------------------------------------------
(* The decode.                                                             *)

States == <<
  <<"Pwm", "Sink", "Float">>, <<"Pwm", "Float", "Sink">>, <<"Float", "Pwm", "Sink">>,
  <<"Sink", "Pwm", "Float">>, <<"Sink", "Float", "Pwm">>, <<"Float", "Sink", "Pwm">> >>

HallToSector == [c \in 1..6 |-> <<0, 2, 1, 4, 5, 3>>[c]]
\* A hall code as its set of high lines; the two fault codes have no sector.
CodeOf(lines) == (IF 1 \in lines THEN 1 ELSE 0) + (IF 2 \in lines THEN 2 ELSE 0)
                   + (IF 3 \in lines THEN 4 ELSE 0)
Valid(code) == code \in DOMAIN HallToSector
Pattern(step, code) ==
  LET half == IF step.direction = "Reverse" THEN 3 ELSE 0
  IN States[1 + ((HallToSector[code] + step.offset + half) % 6)]

\* The sensor: the lines that are high in a sector (external).
HallLines(sector) == CHOOSE s \in SUBSET Phases : Valid(CodeOf(s))
                                              /\ HallToSector[CodeOf(s)] = sector

---------------------------------------------------------------------------
Up == <<"up", 0>>
CmNoCall == [pc |-> "loop"]
NoStep == [pattern |-> << >>, drove |-> << >>, settled |-> FALSE, calm |-> TRUE]

CmInit ==
  /\ cmReg = [clocked |-> FALSE, car |-> 0, arse |-> FALSE, dead |-> 0, moe |-> FALSE,
              cen |-> FALSE, routed |-> {},
              en |-> [i \in Phases |-> FALSE], polarity |-> [i \in Phases |-> FALSE],
              idle |-> [i \in Phases |-> FALSE], pwm0 |-> [i \in Phases |-> FALSE],
              preload |-> [i \in Phases |-> FALSE],
              shadow |-> [i \in Phases |-> 0], cv |-> [i \in Phases |-> 0]]
  /\ cmBoot = <<"clock", 0>>
  /\ cmStep \in [direction : CmDirections, offset : {o % 6 : o \in CmOffsets}]
  /\ cmRotor = [sector |-> 0, ok |-> TRUE, moved |-> 0]
  /\ cmCall = CmNoCall
  /\ cmLast = NoStep

\* The bridge the contract asks for: low sides inverted, both sides idling
\* high, the dead time of the board.
pwm_config == [period |-> CmPeriod, polarity |-> TRUE, idle |-> TRUE, dead |-> 25, arse |-> TRUE]

\* An unclocked timer ignores what is written to it.
Written(r) == IF cmReg.clocked THEN r ELSE cmReg
CmBootStep(from, to, r) ==
  /\ cmBoot = from /\ cmBoot' = to /\ cmReg' = r
  /\ UNCHANGED <<cmStep, cmRotor, cmCall, cmLast>>
\* The time base; the generated update loads the shadows.
timer_init == Written([cmReg EXCEPT !.car = pwm_config.period, !.cv = cmReg.shadow])
channel_output_config(n) ==
  Written([cmReg EXCEPT !.en[n] = TRUE, !.polarity[n] = pwm_config.polarity,
                        !.idle[n] = pwm_config.idle])
channel_output_mode_pwm0(n) == Written([cmReg EXCEPT !.pwm0[n] = TRUE])
\* Mutant: the shadow enable of a channel is written to the next one's field.
ShadowEnableNext(n) == Written([cmReg EXCEPT !.preload[IF n = 3 THEN 3 ELSE n + 1] = TRUE])

channel_output_shadow_enable(n) == Written([cmReg EXCEPT !.preload[n] = TRUE])
channel_compare(n) ==
  Written([cmReg EXCEPT !.shadow[n] = 0, !.cv[n] = IF cmReg.preload[n] THEN @ ELSE 0])
\* The whole CCHP word, MOE clear.
break_config == Written([cmReg EXCEPT !.dead = pwm_config.dead, !.moe = FALSE])
route_advanced_pwm_pin(g) == [cmReg EXCEPT !.routed = @ \cup {g}]
enable_counter == Written([cmReg EXCEPT !.cen = TRUE])

\* PwmTimer::configure, channel by channel; MOE stays off.
PwmTimerConfigure ==
  \/ CmBootStep(<<"base", 0>>, <<"config", 1>>, timer_init)
  \/ \E n \in Phases :
       \/ CmBootStep(<<"config", n>>, <<"mode", n>>, channel_output_config(n))
       \/ CmBootStep(<<"mode", n>>, <<"shadow", n>>, channel_output_mode_pwm0(n))
       \/ CmBootStep(<<"shadow", n>>, <<"compare", n>>, channel_output_shadow_enable(n))
       \/ CmBootStep(<<"compare", n>>, IF n < 3 THEN <<"config", n + 1>> ELSE <<"arse", 0>>,
               channel_compare(n))
  \/ CmBootStep(<<"arse", 0>>, <<"cchp", 0>>, Written([cmReg EXCEPT !.arse = pwm_config.arse]))
  \/ CmBootStep(<<"cchp", 0>>, <<"route", 1>>, break_config)

\* bring_up_motor: the timer's clock, its configuration, the six gate pins, the
\* counter.
BringUp ==
  \/ CmBootStep(<<"clock", 0>>, <<"base", 0>>, [cmReg EXCEPT !.clocked = TRUE])
  \/ PwmTimerConfigure
  \/ \E g \in 1..6 :
       CmBootStep(<<"route", g>>, IF g < 6 THEN <<"route", g + 1>> ELSE <<"counter", 0>>,
            route_advanced_pwm_pin(g))
  \/ CmBootStep(<<"counter", 0>>, Up, enable_counter)

At3(pc) == cmBoot = Up /\ cmCall.pc = pc

\* ArmGate: the only writer of MOE, called by the application between steps.
Arm ==
  /\ At3("loop") /\ ~cmReg.moe
  /\ cmReg' = [cmReg EXCEPT !.moe = TRUE]
  /\ UNCHANGED <<cmBoot, cmStep, cmRotor, cmCall, cmLast>>
Disarm ==
  /\ At3("loop") /\ cmReg.moe
  /\ cmReg' = [cmReg EXCEPT !.moe = FALSE]
  /\ UNCHANGED <<cmBoot, cmStep, cmRotor, cmCall, cmLast>>

\* The bench sweep: set_offset rebuilds the decoder.
SetOffset ==
  /\ At3("loop")
  /\ \E o \in CmOffsets : o % 6 # cmStep.offset /\ cmStep' = [cmStep EXCEPT !.offset = o % 6]
  /\ UNCHANGED <<cmReg, cmBoot, cmRotor, cmCall, cmLast>>

---------------------------------------------------------------------------
(* The machine.                                                            *)

\* The rotor moves to a neighbouring sector, or the sensor comes and goes.
Turn ==
  /\ cmBoot = Up /\ cmRotor.moved < CmMoves
  /\ \/ \E s \in {(cmRotor.sector + 1) % 6, (cmRotor.sector + 5) % 6} :
          cmRotor' = [cmRotor EXCEPT !.sector = s, !.moved = @ + 1]
     \/ cmRotor' = [cmRotor EXCEPT !.ok = ~@, !.moved = @ + 1]
  /\ UNCHANGED <<cmReg, cmBoot, cmStep, cmCall, cmLast>>

\* The update event loads the compares from their shadows.
Update ==
  /\ cmReg.cen
  /\ cmReg.cv # cmReg.shadow \/ ~cmLast.settled
  /\ cmReg' = [cmReg EXCEPT !.cv = cmReg.shadow]
  /\ cmLast' = [cmLast EXCEPT !.settled = cmCall.pc \in {"loop", "read"}]
  /\ UNCHANGED <<cmBoot, cmStep, cmRotor, cmCall>>

---------------------------------------------------------------------------
(* The loop: InputGroup::read, then Commutator::apply.                     *)

StartRead ==
  /\ At3("loop")
  /\ cmCall' = [pc |-> "read", line |-> 1, high |-> {},
                from |-> cmRotor.sector, steady |-> cmRotor.ok]
  /\ cmRotor' = [cmRotor EXCEPT !.moved = 0]
  /\ UNCHANGED <<cmReg, cmBoot, cmStep, cmLast>>

\* One register read per line; a disconnected sensor reads all low.
ReadLine ==
  /\ At3("read") /\ cmCall.line <= 3
  /\ LET high == cmRotor.ok /\ cmCall.line \in HallLines(cmRotor.sector) IN
     cmCall' = [cmCall EXCEPT !.line = @ + 1,
                              !.high = IF high THEN @ \cup {cmCall.line} ELSE @,
                              !.steady = @ /\ cmRotor.ok]
  /\ UNCHANGED <<cmReg, cmBoot, cmStep, cmRotor, cmLast>>

\* A phase's duty and enable in a pattern.
DutyOf(pattern, i, duty) == IF pattern[i] = "Pwm" THEN duty ELSE 0
Enables(pattern) == [i \in Phases |-> pattern[i] # "Float"]
Coast == <<"Float", "Float", "Float">>

\* The states of the cycle that are at most one step apart.
IndexOf(pattern) == CHOOSE i \in 1..6 : States[i] = pattern
Neighbours(p, q) == p = << >> \/ (6 + IndexOf(q) - IndexOf(p)) % 6 \in {0, 1, 5}

\* apply on a valid code: the duties are range-checked before any write.
ApplyStart ==
  /\ At3("read") /\ cmCall.line = 4
  /\ LET code == CodeOf(cmCall.high) IN
     \/ \E duty \in CmDuties :
          /\ Valid(code) /\ duty <= CmPeriod
          /\ cmCall' = [pc |-> "duty", i |-> 1, pattern |-> Pattern(cmStep, code),
                        duty |-> duty, sector |-> HallToSector[code]]
          /\ cmLast' = [cmLast EXCEPT !.calm =
                          @ /\ \/ cmLast.drove = << >>
                               \/ cmLast.settled /\ Neighbours(cmLast.drove, Pattern(cmStep, code))]
          /\ UNCHANGED cmReg
     \/ /\ Valid(code) /\ \E duty \in CmDuties : duty > CmPeriod
        /\ cmCall' = CmNoCall
        /\ UNCHANGED <<cmReg, cmLast>>
     \/ /\ ~Valid(code)
        /\ cmReg' = [cmReg EXCEPT !.en = Enables(Coast)]
        /\ cmLast' = [cmLast EXCEPT !.pattern = Coast, !.settled = FALSE]
        /\ cmCall' = CmNoCall
  /\ UNCHANGED <<cmBoot, cmStep, cmRotor>>

\* set_duties: three compare writes.
WriteDuty ==
  /\ At3("duty") /\ cmCall.i <= 3
  /\ LET d == DutyOf(cmCall.pattern, cmCall.i, cmCall.duty) IN
     cmReg' = [cmReg EXCEPT !.shadow[cmCall.i] = d,
                            !.cv[cmCall.i] = IF cmReg.preload[cmCall.i] THEN @ ELSE d]
  /\ cmCall' = [cmCall EXCEPT !.i = @ + 1]
  /\ UNCHANGED <<cmBoot, cmStep, cmRotor, cmLast>>

\* set_channel_outputs: one read-modify-write of the six enable bits.
WriteOutputs ==
  /\ At3("duty") /\ cmCall.i = 4
  /\ cmReg' = [cmReg EXCEPT !.en = Enables(cmCall.pattern)]
  /\ cmLast' = [cmLast EXCEPT !.pattern = cmCall.pattern, !.drove = cmCall.pattern,
                              !.settled = FALSE]
  /\ cmCall' = CmNoCall
  /\ UNCHANGED <<cmBoot, cmStep, cmRotor>>

Loop == StartRead \/ ReadLine \/ ApplyStart \/ WriteDuty \/ WriteOutputs
CmNext == BringUp \/ Arm \/ Disarm \/ SetOffset \/ Turn \/ Update \/ Loop
CmSpec == CmInit /\ [][CmNext]_cmVars

---------------------------------------------------------------------------
(* Properties.                                                             *)

\* What a phase's pair of gates does.
Drive(i) == IF ~cmReg.moe THEN "Off" ELSE IF ~cmReg.en[i] THEN "Float"
            ELSE IF cmReg.cv[i] > 0 THEN "Pwm" ELSE "Sink"

\* Types.
CmTypeOK ==
  /\ cmReg.shadow \in [Phases -> 0..CmPeriod] /\ cmReg.cv \in [Phases -> 0..CmPeriod]
  /\ cmReg.en \in [Phases -> BOOLEAN] /\ cmReg.moe \in BOOLEAN
  /\ cmRotor.sector \in 0..5 /\ cmRotor.moved \in 0..CmMoves
  /\ cmStep.offset \in 0..5

\* The bridge is energised only once it is safe: every one of bring_up_motor's
\* writes has reached the timer, the dead time and the polarities among them,
\* and no compare is beyond the period.
EnergisedWhenSafe ==
  cmReg.moe => /\ cmReg.dead = pwm_config.dead /\ cmReg.car = CmPeriod
               /\ cmReg.cen /\ cmReg.arse /\ cmReg.routed = 1..6
               /\ \A i \in Phases : /\ cmReg.polarity[i] /\ cmReg.idle[i] /\ cmReg.pwm0[i]
                                    /\ cmReg.preload[i] /\ cmReg.cv[i] <= cmReg.car

\* As long as each step applied is the same as or next to the one before, and
\* an update has passed between the two, two phases never source at once, though
\* the three compares are written one by one, an update may load half of them,
\* and the outputs are switched before the new compares are loaded.  (A jump of
\* two sectors, or two steps within one PWM period, does make two phases source
\* until the next update.)
OneSource == cmLast.calm => Cardinality({i \in Phases : Drive(i) = "Pwm"}) <= 1

\* Once an update has passed after a step, every phase does what the decoder
\* asked: source at the duty, sink, or float.
StepTakesEffect ==
  (cmReg.moe /\ cmLast.settled /\ cmCall.pc = "loop" /\ cmLast.pattern \notin {<< >>, Coast}) =>
    \A i \in Phases : cmLast.pattern[i] # "Pwm" => Drive(i) = cmLast.pattern[i]

\* A sensor fault coasts: from its return until the next step's outputs are
\* switched no phase conducts, whatever compares are written meanwhile.
FaultCoasts ==
  (cmLast.pattern = Coast /\ cmReg.moe) =>
    \A i \in Phases : Drive(i) = "Float"

\* The three lines are read one after the other, yet a rotor that moves at
\* most one sector meanwhile is seen in the sector it was in or is in.
HallReadHonest ==
  (At3("read") /\ cmCall.line = 4 /\ cmCall.steady /\ cmRotor.ok /\ cmRotor.moved <= 1) =>
    /\ Valid(CodeOf(cmCall.high))
    /\ HallToSector[CodeOf(cmCall.high)] \in {cmCall.from, cmRotor.sector}

\* What six-step commutation promises: a bridge energised only once it is safe,
\* never from two sources at once, a step that takes effect at the next update,
\* a fault that coasts, and a sector the rotor really was in.
CmSafe ==
  /\ CmTypeOK
  /\ EnergisedWhenSafe
  /\ OneSource
  /\ StepTakesEffect
  /\ FaultCoasts
  /\ HallReadHonest
=============================================================================
