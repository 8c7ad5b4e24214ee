------------------------------- MODULE ClockTree -------------------------------
(***************************************************************************)
(* Clock bring-up (clock.rs) register write by register write against      *)
(* oscillators, a PLL and a switch that take their time or never answer,   *)
(* and the USART that is programmed from the tree it left (usart.rs).      *)
(* An application has one target; it may call again after an error.        *)
(***************************************************************************)
EXTENDS Descriptor, Integers, Sequences

CONSTANTS
  CkProfiles,  \* targets: [sysclk, source, mul, ahb, apb1, apb2]
  CkBudget,    \* spins per gate of configure_tree_timeout
  CkCalls,     \* calls of configure_tree and of its bounded variant (bound)
  CkBauds,     \* baud rates asked of the USART
  CkPrograms   \* times the USART is programmed or its rate changed (bound)

ASSUME CkAssumption ==
  /\ CkProfiles \subseteq [sysclk : Nat, source : {"Irc8m", "Hxtal"}, mul : 0..255,
                           ahb : Nat, apb1 : Nat, apb2 : Nat]
  /\ CkBauds \subseteq Nat \ {0}
  /\ CkBudget \in Nat /\ CkCalls \in Nat /\ CkPrograms \in Nat

VARIABLES
  ckTarget,  \* the family, and the application's ClockConfig
  ckRcu,     \* WSCNT, the enables, the prescaler, PLLSEL, PLLMF and SCS fields
  ckStat,    \* the flags that have come up: "Irc8m", "Hxtal", "pll", "switch"
  ckCode,    \* the register operations the running call has left
  ckLeft,    \* the spins left at the current gate: {n}, or {} for no limit
  ckResult,  \* of the latest configure_tree; "none" before the first
  ckUsart,   \* [uen, regs, want, label]: enabled, programmed, asked for
  ckCount    \* [calls, programs]

ckVars == <<ckTarget, ckRcu, ckStat, ckCode, ckLeft, ckResult, ckUsart, ckCount>>

---------------------------------------------------------------------------
(* The checks and the encodings.                                           *)

is_legal_ahb_psc(div) == div \in {1, 2, 4, 8, 16, 64, 128, 256, 512}
is_legal_apb_psc(div) == div \in {1, 2, 4, 8, 16}
validate_for(path, p) ==
  CASE p.mul < 2 \/ p.mul > 32 -> "InvalidPll"
    [] p.mul \in 2..32 /\ ~(is_legal_ahb_psc(p.ahb) /\ is_legal_apb_psc(p.apb1) /\ is_legal_apb_psc(p.apb2))
         -> "InvalidPrescaler"
    [] OTHER -> IF p.sysclk > (IF path = "F10x" THEN 108000000 ELSE 72000000)
                THEN "InvalidWaitStates" ELSE "Ok"

wait_states_for(path, sysclk) == IF sysclk <= 8000000 THEN 0 ELSE IF path = "F10x" THEN 2 ELSE 1

ahb_psc_bits(div) == CHOOSE code \in {0} \cup 8..15 :
  div = CASE code = 0 -> 1 [] code \in 8..11 -> 2^(code - 7) [] OTHER -> 2^(code - 6)
apb_psc_code(div) == CHOOSE code \in {0} \cup 4..7 : div = IF code = 0 THEN 1 ELSE 2^(code - 3)
pll_mul_bits(mul) == IF mul \in 2..16 THEN mul - 2 ELSE 16 + (mul - 17)

\* What the fields mean to the silicon (external): divisors and the multiplier.
AhbDiv(code) == IF code < 8 THEN 1 ELSE <<2, 4, 8, 16, 64, 128, 256, 512>>[code - 7]
ApbDiv(code) == IF code < 4 THEN 1 ELSE 2^(code - 3)
PllMul(bits) == CASE bits <= 14 -> bits + 2 [] bits = 15 -> 16 [] OTHER -> bits + 1

Irc8m == 8000000
SysHz == IF "switch" \in ckStat
         THEN (IF ckRcu.sel = "Hxtal" THEN 8000000 ELSE Irc8m \div 2) * PllMul(ckRcu.mf)
         ELSE Irc8m
AhbHz == SysHz \div AhbDiv(ckRcu.ahb)
BusHz(bus) == AhbHz \div ApbDiv(IF bus = "Apb2" THEN ckRcu.apb2 ELSE ckRcu.apb1)

---------------------------------------------------------------------------
(* The bring-up sequence.                                                  *)

GateError(gate) ==
  CASE gate = "source" -> "SourceNotStable" [] gate = "pll" -> "PllNotLocked"
    [] gate = "switch" -> "SwitchNotConfirmed"
Set(field, value) == [op |-> "rcu", field |-> field, value |-> value]
CkWait(gate) == [op |-> "wait", gate |-> gate]

Prescalers(p) ==
  <<Set("ahb", ahb_psc_bits(p.ahb)), Set("apb2", apb_psc_code(p.apb2)), Set("apb1", apb_psc_code(p.apb1))>>
\* Mutant: the wait states are written last.
TreeWaitStatesLast(path, p) ==
  <<Set("en", {p.source}), CkWait("source")>> \o Prescalers(p)
    \o <<Set("sel", p.source), Set("mf", pll_mul_bits(p.mul)), Set("en", {"pll"}), CkWait("pll"),
         Set("scs", "pll"), CkWait("switch"), Set("ws", wait_states_for(path, p.sysclk))>>
configure_tree_inner(path, p) ==
  <<Set("ws", wait_states_for(path, p.sysclk)), Set("en", {p.source}), CkWait("source")>>
    \o Prescalers(p)
    \o <<Set("sel", p.source), Set("mf", pll_mul_bits(p.mul)), Set("en", {"pll"}), CkWait("pll"),
         Set("scs", "pll"), CkWait("switch")>>

CkIdle == [uen |-> FALSE, regs |-> [brr |-> 0, frame |-> "none", on |-> {}],
           want |-> [baud |-> 0, frame |-> "none"], label |-> "Usart0"]
CkInit ==
  /\ ckTarget \in [path : Families, profile : CkProfiles]
  /\ ckRcu = [ws |-> 0, en |-> {"Irc8m"}, ahb |-> 0, apb1 |-> 0, apb2 |-> 0,
              sel |-> "Irc8m", mf |-> 0, scs |-> "Irc8m"]
  /\ ckStat = {"Irc8m"} /\ ckCode = << >> /\ ckLeft = {} /\ ckResult = "none"
  /\ ckUsart = CkIdle /\ ckCount = [calls |-> 0, programs |-> 0]

\* configure_tree and configure_tree_timeout: validate, then the sequence.
ConfigureTree(budget) ==
  /\ ckCode = << >> /\ ckResult # "Ok" /\ ckCount.calls < CkCalls /\ ckCount.programs = 0
  /\ ckCount' = [ckCount EXCEPT !.calls = @ + 1]
  /\ LET answer == validate_for(ckTarget.path, ckTarget.profile) IN
     IF answer = "Ok"
     THEN /\ ckCode' = configure_tree_inner(ckTarget.path, ckTarget.profile)
          /\ ckResult' = "running" /\ ckLeft' = budget
     ELSE ckResult' = answer /\ UNCHANGED <<ckCode, ckLeft>>
  /\ UNCHANGED <<ckTarget, ckRcu, ckStat, ckUsart>>

Doing(op) == ckCode # << >> /\ ckCode[1].op = op
Advance == ckCode' = Tail(ckCode)
\* PLLSEL and PLLMF are locked while the PLL is enabled (external).
Locked(field) == field \in {"sel", "mf"} /\ "pll" \in ckRcu.en

WriteRcu ==
  /\ Doing("rcu") /\ Advance
  /\ LET w == ckCode[1] IN
     ckRcu' = CASE w.field = "en" -> [ckRcu EXCEPT !.en = @ \cup w.value]
                [] Locked(w.field) -> ckRcu
                [] OTHER -> [ckRcu EXCEPT ![w.field] = w.value]
  /\ UNCHANGED <<ckTarget, ckStat, ckLeft, ckResult, ckUsart, ckCount>>

Flag(gate) == IF gate = "source" THEN ckTarget.profile.source ELSE gate
\* spin_until: a gate that is not open costs a spin, or ends the call.
Spin ==
  /\ Doing("wait") /\ Flag(ckCode[1].gate) \notin ckStat /\ ckLeft # {}
  /\ IF ckLeft = {0}
     THEN ckCode' = << >> /\ ckResult' = GateError(ckCode[1].gate) /\ UNCHANGED ckLeft
     ELSE ckLeft' = {n - 1 : n \in ckLeft} /\ UNCHANGED <<ckCode, ckResult>>
  /\ UNCHANGED <<ckTarget, ckRcu, ckStat, ckUsart, ckCount>>
CkPass ==
  /\ Doing("wait") /\ Flag(ckCode[1].gate) \in ckStat /\ Advance
  /\ ckLeft' = {CkBudget : n \in ckLeft}
  /\ ckResult' = IF Len(ckCode) = 1 THEN "Ok" ELSE ckResult
  /\ UNCHANGED <<ckTarget, ckRcu, ckStat, ckUsart, ckCount>>

\* The silicon answers, in its own time.
CkAnswer(flag) ==
  /\ flag \notin ckStat
  /\ CASE flag = "switch" -> ckRcu.scs = "pll" /\ "pll" \in ckStat
       [] flag = "pll" -> "pll" \in ckRcu.en /\ ckRcu.sel \in ckStat
       [] OTHER -> flag \in ckRcu.en
  /\ ckStat' = ckStat \cup {flag}
  /\ UNCHANGED <<ckTarget, ckRcu, ckCode, ckLeft, ckResult, ckUsart, ckCount>>

---------------------------------------------------------------------------
(* The USART, from the tree the application believes in.                   *)

UsartBus(label) == IF label = "Usart0" THEN "Apb2" ELSE "Apb1"
usart_input_clock(clock, bus) ==
  (clock.sysclk \div clock.ahb) \div (IF bus = "Apb2" THEN clock.apb2 ELSE clock.apb1)
compute_brr(uclk, baud) == ((uclk + baud \div 2) \div baud) % 65536

RESET_8M == [sysclk |-> 8000000, source |-> "Irc8m", mul |-> 2, ahb |-> 1, apb1 |-> 1, apb2 |-> 1]
\* The tree the caller passes: its own once it is up, else the reset tree.  An
\* error past the source gate leaves prescalers, or a switch still to come,
\* that no tree of the caller's names.
Clock == IF ckResult = "Ok" THEN ckTarget.profile ELSE RESET_8M
ClockKnown == \/ ckResult \in {"none", "Ok", "InvalidPll", "InvalidPrescaler", "InvalidWaitStates"}
              \/ ckResult = "SourceNotStable" /\ ckCount.calls = 1

U(field, value) == [op |-> "usart", field |-> field, value |-> value]
Frame(frame) == <<U("frame", frame), U("on", {"REN"}), U("on", {"TEN"})>>
Brr(label, baud) == U("brr", compute_brr(usart_input_clock(Clock, UsartBus(label)), baud))

program(label, baud, frame) ==
  <<U("uen", FALSE), Brr(label, baud)>> \o Frame(frame) \o <<U("uen", TRUE)>>
set_baud(label, baud) == <<U("uen", FALSE), Brr(label, baud), U("uen", TRUE)>>

Asked(code, label, baud, frame) ==
  /\ ckCode = << >> /\ ClockKnown /\ ckCount.programs < CkPrograms
  /\ ckCode' = code
  /\ ckCount' = [ckCount EXCEPT !.programs = @ + 1]
  /\ ckUsart' = [ckUsart EXCEPT !.want = [baud |-> baud, frame |-> frame], !.label = label]
  /\ UNCHANGED <<ckTarget, ckRcu, ckStat, ckLeft, ckResult>>
UsartBringUp(label, baud, frame) ==
  /\ ckCount.programs > 0 => label = ckUsart.label
  /\ Asked(program(label, baud, frame), label, baud, frame)
SetBaud(baud) ==
  /\ ckCount.programs > 0
  /\ Asked(set_baud(ckUsart.label, baud), ckUsart.label, baud, ckUsart.want.frame)

WriteUsart ==
  /\ Doing("usart") /\ Advance
  /\ LET w == ckCode[1] IN
     ckUsart' = CASE w.field = "uen" -> [ckUsart EXCEPT !.uen = w.value]
                  [] w.field = "on" -> [ckUsart EXCEPT !.regs.on = @ \cup w.value]
                  [] OTHER -> [ckUsart EXCEPT !.regs[w.field] = w.value]
  /\ UNCHANGED <<ckTarget, ckRcu, ckStat, ckLeft, ckResult, ckCount>>

CkNext ==
  \/ \E budget \in {{}, {CkBudget}} : ConfigureTree(budget)
  \/ WriteRcu \/ Spin \/ CkPass
  \/ \E flag \in {"Irc8m", "Hxtal", "pll", "switch"} : CkAnswer(flag)
  \/ \E label \in {"Usart0", "Usart1"}, baud \in CkBauds, frame \in {"8N1", "9E2"} :
       UsartBringUp(label, baud, frame)
  \/ \E baud \in CkBauds : SetBaud(baud)
  \/ WriteUsart
CkSpec == CkInit /\ [][CkNext]_ckVars

---------------------------------------------------------------------------
(* The peripheral clock enables.                                           *)

AdcEnable(label) == <<"APB2EN", CASE label = "Adc0" -> 9 [] label = "Adc1" -> 10 [] label = "Adc2" -> 15>>
TimerEnable(label) ==
  IF label = "Timer1" THEN <<"APB1EN", 0>> ELSE <<"APB2EN", IF label = "Timer0" THEN 11 ELSE 13>>
UsartEnable(label) ==
  CASE label = "Usart0" -> <<"APB2EN", 14>> [] label = "Usart1" -> <<"APB1EN", 17>>
    [] label = "Usart2" -> <<"APB1EN", 18>>
I2cEnable(label) == <<"APB1EN", IF label = "I2c0" THEN 21 ELSE 22>>
SpiEnable == <<"APB2EN", 12>>
GpioEnable(path, label) ==
  IF path = "F10x" THEN <<"APB2EN", 2 + PortIndex(label)>> ELSE <<"AHBEN", 17 + PortIndex(label)>>
\* EnableBit: the register and bit of a peripheral; none where a part has none.
EnableBit(path, label) ==
  IF path = "F1x0" /\ label \in {"Usart2", "Timer7"} THEN {}
  ELSE CASE label \in Ports -> {GpioEnable(path, label)}
         [] label \in {"Usart0", "Usart1", "Usart2"} -> {UsartEnable(label)}
         [] label \in {"I2c0", "I2c1"} -> {I2cEnable(label)}
         [] label = "Spi0" -> {SpiEnable}
         [] label \in {"Adc0", "Adc1", "Adc2"} -> {AdcEnable(label)}
         [] label \in {"Timer0", "Timer1", "Timer7"} -> {TimerEnable(label)}
         [] OTHER -> {}
\* The bits the probe clocks its candidates with.
ProbeBit ==
  [unit \in {"Timer0", "Timer7", "Adc0", "Adc1", "Adc2"} |->
     CASE unit = "Timer0" -> 11 [] unit = "Timer7" -> 13 [] unit = "Adc0" -> 9
       [] unit = "Adc1" -> 10 [] unit = "Adc2" -> 15]

---------------------------------------------------------------------------
(* Properties.                                                             *)

\* Types: a gate's budget is never overdrawn.
CkTypeOK ==
  /\ ckStat \subseteq {"Irc8m", "Hxtal", "pll", "switch"}
  /\ ckLeft \in {{}} \cup {{n} : n \in 0..CkBudget}
  /\ ckResult \in {"none", "running", "Ok", "InvalidPll", "InvalidPrescaler", "InvalidWaitStates",
                   "SourceNotStable", "PllNotLocked", "SwitchNotConfirmed"}
  /\ ckRcu.ws \in 0..7 /\ ckRcu.ahb \in {0} \cup 8..15 /\ ckRcu.mf \in 0..31

\* The flash is never read faster than its wait states allow: not on the way,
\* not after an error, not when a switch that was given up on comes late.
FlashKeepsUp == SysHz > 8000000 => ckRcu.ws >= (IF ckTarget.path = "F10x" THEN 2 ELSE 1)

\* No bus ever runs above what the target names for it (or the reset clock).
Ceiling(div) ==
  IF div > 0 /\ ckTarget.profile.sysclk \div div > 8000000 THEN ckTarget.profile.sysclk \div div ELSE 8000000
BusInBounds ==
  /\ BusHz("Apb1") <= Ceiling(ckTarget.profile.ahb * ckTarget.profile.apb1)
  /\ BusHz("Apb2") <= Ceiling(ckTarget.profile.ahb * ckTarget.profile.apb2)

\* The core is only ever asked onto a PLL that has locked.
SwitchOnlyLocked == ckRcu.scs = "pll" => "pll" \in ckStat

\* Ok means the tree that was asked for, exactly, also when an earlier call
\* gave up half-way; a refused target leaves every register as it was.
OkMeansTarget ==
  /\ ckResult = "Ok" =>
       /\ SysHz = ckTarget.profile.sysclk
       /\ AhbHz = SysHz \div ckTarget.profile.ahb
       /\ BusHz("Apb1") = AhbHz \div ckTarget.profile.apb1
       /\ BusHz("Apb2") = AhbHz \div ckTarget.profile.apb2
  /\ ckResult \in {"InvalidPll", "InvalidPrescaler", "InvalidWaitStates"} =>
       SysHz = Irc8m /\ ckRcu.en = {"Irc8m"} /\ ckRcu.ws = 0

\* An enabled USART runs at the rate that was asked for, to half a step of
\* its divider, from the clock that really feeds it.
BaudTrue ==
  ckUsart.uen /\ ckCode = << >> =>
    LET uclk == BusHz(UsartBus(ckUsart.label))
        baud == ckUsart.want.baud
        got == ckUsart.regs.brr * baud
    IN uclk \div baud < 65535 => 2 * (IF got > uclk THEN got - uclk ELSE uclk - got) <= baud

\* It is never enabled between two settings: rate, frame and both directions
\* are those of the latest request.
UsartWhole ==
  ckUsart.uen =>
    \/ Doing("usart") /\ ckCode[1].field = "uen"
    \/ ckCode = << >> /\ ckUsart.regs.frame = ckUsart.want.frame /\ ckUsart.regs.on = {"REN", "TEN"}

\* On a tree that is up every peripheral has an enable bit of its own, and detection clocks a
\* candidate by the bit its driver uses.
EnablesDistinct ==
  ckResult = "Ok" =>
  /\ \A l, m \in Labels : l # m =>
       EnableBit(ckTarget.path, l) \cap EnableBit(ckTarget.path, m) = {}
  /\ \A unit \in DOMAIN ProbeBit : EnableBit(ckTarget.path, unit) \subseteq {<<"APB2EN", ProbeBit[unit]>>}

\* What configure_tree and the USART bring-up promise: flash and buses never
\* driven beyond what they bear, a switch only to a locked source, an Ok that
\* means the frequency asked for, and a baud rate of the clock that runs.
CkSafe ==
  /\ CkTypeOK
  /\ FlashKeepsUp
  /\ BusInBounds
  /\ SwitchOnlyLocked
  /\ OkMeansTarget
  /\ BaudTrue
  /\ UsartWhole
  /\ EnablesDistinct
=============================================================================
