--------------------------------- MODULE Pins ---------------------------------
(***************************************************************************)
(* Who may configure which pin: the routing entry points of chip.rs,       *)
(* usart.rs and i2c.rs over the pin tables and the ownership backstop of   *)
(* pincap.rs, the pin registers of gpio.rs, and the F10x's AFIO (afio.rs). *)
(* A pin is its packed byte (port << 4 | pin).  Handles are copies: what   *)
(* was handed out once can be used at any time.                            *)
(***************************************************************************)
EXTENDS Naturals, FiniteSets

CONSTANTS
  PnPins,   \* packed pins the application names
  PnParts,  \* parts: [crl : the F10x's register model, timers : advanced timers]
  PnCalls   \* calls made (bound)

ASSUME PnAssumption ==
  /\ PnPins \subseteq 0..95 /\ PnCalls \in Nat
  /\ PnParts \subseteq [crl : BOOLEAN, timers : {1, 2}]

PortOf(p) == p \div 16

---------------------------------------------------------------------------
(* The pin tables (pincap.rs).                                             *)

SwdPins == {13, 14}
Timer0Gates == {8, 9, 10} \cup {29, 30, 31}
Timer7Gates == {38, 39, 40} \cup {7, 16, 17}

GateCapable(part, p) == p \in Timer0Gates \/ (part.timers = 2 /\ p \in Timer7Gates)

UsartPins == {
  [pin |->  2, usart |-> "Usart1", dir |-> "Tx", af |-> 1, f1x0 |-> TRUE,  remap |-> FALSE],
  [pin |->  3, usart |-> "Usart1", dir |-> "Rx", af |-> 1, f1x0 |-> TRUE,  remap |-> FALSE],
  [pin |-> 22, usart |-> "Usart0", dir |-> "Tx", af |-> 0, f1x0 |-> TRUE,  remap |-> TRUE],
  [pin |-> 23, usart |-> "Usart0", dir |-> "Rx", af |-> 0, f1x0 |-> TRUE,  remap |-> TRUE],
  [pin |-> 26, usart |-> "Usart2", dir |-> "Tx", af |-> 1, f1x0 |-> FALSE, remap |-> FALSE],
  [pin |-> 27, usart |-> "Usart2", dir |-> "Rx", af |-> 1, f1x0 |-> FALSE, remap |-> FALSE] }

\* usart_pins: the rows a pair of pins resolves to; the F1x0 needs both to
\* be bonded there, the F10x both on one remap.
UsartPairs(part, tx, rx) ==
  {pair \in UsartPins \X UsartPins :
     /\ pair[1].pin = tx /\ pair[1].dir = "Tx" /\ pair[2].pin = rx /\ pair[2].dir = "Rx"
     /\ pair[1].usart = pair[2].usart
     /\ IF part.crl THEN pair[1].remap = pair[2].remap ELSE pair[1].f1x0 /\ pair[2].f1x0}

\* check_pin_ownership.
Owned(part, p, claim) == p \notin SwdPins /\ (GateCapable(part, p) <=> claim = "Gate")

---------------------------------------------------------------------------
(* A pin's registers (gpio.rs).                                            *)

\* PinRole::config and the GPIO modes: drive, pull, alternate function.
Roles == {"Out", "Float", "PullUp", "PullDown", "Analog", "Tx", "Rx", "I2c", "SpiOut", "SpiIn",
          "GenPwm", "Gate"}
AfRoles == {"Tx", "Rx", "I2c", "SpiOut", "SpiIn", "GenPwm", "Gate"}
AfOf(p, role) ==
  IF role \in {"Tx", "Rx"} THEN (CHOOSE r \in UsartPins : r.pin = p).af
  ELSE IF role = "I2c" THEN 1 ELSE IF role \in {"SpiOut", "SpiIn"} THEN 0 ELSE 2
AfInput(role) == role \in {"Rx", "SpiIn"}

ResetReg == [nib |-> "Float", ctl |-> "In", od |-> FALSE, pud |-> "None", afsel |-> 0,
             latch |-> FALSE]

\* The F10x packs the mode in one nibble and takes the pull from the latch.
NibbleOf(role) ==
  CASE role = "Out" -> "Out" [] role = "OutOd" -> "OutOd" [] role = "Analog" -> "Analog"
    [] role \in {"PullUp", "PullDown"} -> "Pull"
    [] role = "Float" \/ AfInput(role) -> "Float"
    [] role = "I2c" -> "AfOd" [] OTHER -> "Af"
configure_f10x(r, role) == [r EXCEPT !.nib = NibbleOf(role)]
configure_input_f10x(r, pull) ==
  [r EXCEPT !.nib = NibbleOf(pull),
            !.latch = CASE pull = "PullUp" -> TRUE [] pull = "PullDown" -> FALSE [] OTHER -> @]

\* The F1x0 has a field each, and a mode writes those it needs: an input role
\* leaves the output options alone.
configure_f1x0(p, r, role) ==
  [r EXCEPT !.ctl = "Af", !.pud = IF role = "I2c" THEN "Up" ELSE "None", !.afsel = AfOf(p, role),
            !.od = IF AfInput(role) THEN @ ELSE role = "I2c"]
configure_input_f1x0(r, pull) ==
  [r EXCEPT !.ctl = "In",
            !.pud = CASE pull = "Float" -> "None" [] pull = "PullUp" -> "Up" [] OTHER -> "Down"]

configure_output(part, r) ==
  IF part.crl THEN [r EXCEPT !.nib = "Out"] ELSE [r EXCEPT !.ctl = "Out", !.od = FALSE]
configure_output_od(part, r) ==
  IF part.crl THEN [r EXCEPT !.nib = "OutOd"] ELSE [r EXCEPT !.ctl = "Out", !.od = TRUE, !.pud = "Up"]
configure_analog(part, r) ==
  IF part.crl THEN [r EXCEPT !.nib = "Analog"] ELSE [r EXCEPT !.ctl = "Analog", !.pud = "None"]
configure_input(part, r, pull) ==
  IF part.crl THEN configure_input_f10x(r, pull) ELSE configure_input_f1x0(r, pull)
configure_af(part, p, r, role) ==
  IF part.crl THEN configure_f10x(r, role) ELSE configure_f1x0(p, r, role)

ConfigurePin(part, p, r, role) ==
  CASE role = "Out" -> configure_output(part, r)
    [] role = "Analog" -> configure_analog(part, r)
    [] role \in {"Float", "PullUp", "PullDown"} -> configure_input(part, r, role)
    [] role \in AfRoles -> configure_af(part, p, r, role)

---------------------------------------------------------------------------
VARIABLES
  pnPart,    \* the detected part
  pnReg,     \* each pin's registers
  pnRcu,     \* what is clocked: the ports, and the units (USARTs, I2C, AFIO)
  pnAfio,    \* AFIO_PCF0: SWJ_CFG, the TIMER1 and USART0 remaps
  pnPin,     \* pins with a typed handle, and those typed as outputs
  pnOut,     \* per pin the GpioOutput's remembered level, "none" without one
  pnUsart,   \* per brought-up instance its pins (BROUGHT_UP is the domain)
  pnLast,    \* history: each pin's latest role
  pnCalls

pnVars == <<pnPart, pnReg, pnRcu, pnAfio, pnPin, pnOut, pnUsart, pnLast, pnCalls>>

PnInit ==
  /\ pnPart \in PnParts
  /\ pnReg = [p \in PnPins |-> ResetReg]
  /\ pnRcu = [ports |-> {}, units |-> {}]
  /\ pnAfio = [swj |-> "Full", timer1 |-> FALSE, usart0 |-> FALSE]
  /\ pnPin = [held |-> {}, out |-> {}]
  /\ pnOut = [p \in PnPins |-> "none"]
  /\ pnUsart = << >>
  /\ pnLast = [p \in PnPins |-> "Reset"]
  /\ pnCalls = 0

Calling == pnCalls < PnCalls /\ pnCalls' = pnCalls + 1

ClockOn(ports, units) == [ports |-> pnRcu.ports \cup ports, units |-> pnRcu.units \cup units]
AfioIf(cond) == IF cond THEN {"Afio"} ELSE {}

\* A register write reaches the pin when its port is clocked.
WritePins(clocked, role) ==
  /\ pnReg' = [p \in PnPins |-> IF p \in DOMAIN role /\ PortOf(p) \in clocked.ports
                                THEN ConfigurePin(pnPart, p, pnReg[p], role[p]) ELSE pnReg[p]]
  /\ pnLast' = [p \in PnPins |-> IF p \in DOMAIN role THEN role[p] ELSE pnLast[p]]

---------------------------------------------------------------------------
(* Typed pins.                                                             *)

\* Chip::pin and a port getter's split: the port is clocked, the pins are
\* handed out as they are; neither hands out the SWD pins.
TakePins(port, pins) ==
  /\ Calling
  /\ pnRcu' = ClockOn({port}, {})
  /\ pnPin' = [pnPin EXCEPT !.held = @ \cup (pins \ SwdPins)]
  /\ UNCHANGED <<pnPart, pnReg, pnAfio, pnOut, pnUsart, pnLast>>
TakePin(p) == p \notin SwdPins /\ TakePins(PortOf(p), {p})
Split(port) == TakePins(port, {p \in PnPins : PortOf(p) = port})

\* into_push_pull_output and the three inputs ask nobody.
Into(p, role) ==
  /\ Calling /\ p \in pnPin.held
  /\ WritePins(pnRcu, [q \in {p} |-> role])
  /\ pnPin' = IF role = "Out" THEN [pnPin EXCEPT !.out = @ \cup {p}] ELSE pnPin
  /\ UNCHANGED <<pnPart, pnRcu, pnAfio, pnOut, pnUsart>>

\* An output is driven through the typed pin or through the plain handle,
\* which also remembers the level.
DrivePin(p, level) ==
  /\ Calling
  /\ pnReg' = [pnReg EXCEPT ![p].latch = level]
  /\ \/ p \in pnPin.out /\ UNCHANGED pnOut
     \/ pnOut[p] # "none" /\ pnOut' = [pnOut EXCEPT ![p] = IF level THEN "high" ELSE "low"]
  /\ UNCHANGED <<pnPart, pnRcu, pnAfio, pnPin, pnUsart, pnLast>>

---------------------------------------------------------------------------
(* Configuring by packed byte: ask, clock the port, write.                 *)

\* Mutant: the timer remap writes PCF0 whole.
RemapWritesAfio(afio) == [swj |-> afio.swj, timer1 |-> TRUE, usart0 |-> FALSE]

\* Read-modify-writes of PCF0.
set_swj_sw_only(afio) == [afio EXCEPT !.swj = "SwOnly"]
set_usart0_remap(afio) == [afio EXCEPT !.usart0 = TRUE]
remap_timer1_partial0(afio) == [afio EXCEPT !.timer1 = TRUE]

Route(p, claim, role, afioUsed, afio) ==
  /\ Calling /\ Owned(pnPart, p, claim)
  /\ LET rcu == ClockOn({PortOf(p)}, AfioIf(afioUsed)) IN
     pnRcu' = rcu /\ WritePins(rcu, [q \in {p} |-> role])
  /\ pnAfio' = IF afioUsed THEN afio ELSE pnAfio
  /\ pnOut' = IF role = "Out" THEN [pnOut EXCEPT ![p] = "low"] ELSE pnOut
  /\ UNCHANGED <<pnPart, pnPin, pnUsart>>
output_pin(p) == Route(p, "NonGate", "Out", FALSE, pnAfio)
analog_pin(p) == Route(p, "NonGate", "Analog", FALSE, pnAfio)
route_usart_pin(p, role) ==
  (\E r \in UsartPins : r.pin = p) /\ Route(p, "NonGate", role, FALSE, pnAfio)
route_spi_pin(p, role) == Route(p, "NonGate", role, FALSE, pnAfio)
route_advanced(p) == Route(p, "Gate", "Gate", FALSE, pnAfio)
\* The F10x's general PWM also frees the JTAG pins and remaps the timer.
route_general_pwm_pin(p) ==
  Route(p, "NonGate", "GenPwm", pnPart.crl, remap_timer1_partial0(set_swj_sw_only(pnAfio)))

FreeJtag ==
  /\ Calling /\ pnPart.crl
  /\ pnRcu' = ClockOn({}, {"Afio"})
  /\ pnAfio' = set_swj_sw_only(pnAfio)
  /\ UNCHANGED <<pnPart, pnReg, pnPin, pnOut, pnUsart, pnLast>>

---------------------------------------------------------------------------
(* Peripherals that route their own pins.                                  *)

\* Usart::new: ownership, the mapping, the instance it names, the claim;
\* then the clock, the remap, and both pins.
UsartNew(tx, rx, instance) ==
  /\ Calling /\ {tx, rx} \subseteq pnPin.held
  /\ Owned(pnPart, tx, "NonGate") /\ Owned(pnPart, rx, "NonGate")
  /\ \E pair \in UsartPairs(pnPart, tx, rx) :
       /\ pair[1].usart = instance /\ instance \notin DOMAIN pnUsart
       /\ LET afio == pnPart.crl /\ pair[1].remap
              rcu == ClockOn({}, {instance} \cup AfioIf(afio))
          IN /\ pnRcu' = rcu
             /\ pnAfio' = IF afio THEN set_usart0_remap(pnAfio) ELSE pnAfio
             /\ WritePins(rcu, [q \in {tx, rx} |-> IF q = tx THEN "Tx" ELSE "Rx"])
  /\ pnUsart' = [i \in DOMAIN pnUsart \cup {instance} |->
                   IF i = instance THEN <<tx, rx>> ELSE pnUsart[i]]
  /\ UNCHANGED <<pnPart, pnPin, pnOut>>

\* I2c::new takes any two non-gate pins; its bus clear leaves both latches
\* high and its claim turns both into open-drain AF.
I2cNew(scl, sda) ==
  /\ Calling /\ scl # sda /\ {scl, sda} \subseteq pnPin.held
  /\ Owned(pnPart, scl, "NonGate") /\ Owned(pnPart, sda, "NonGate")
  /\ pnRcu' = ClockOn({}, {"I2c"})
  /\ pnReg' = [p \in PnPins |-> IF p \in {scl, sda}
                 THEN configure_af(pnPart, p,
                        configure_output_od(pnPart, [pnReg[p] EXCEPT !.latch = TRUE]), "I2c")
                 ELSE pnReg[p]]
  /\ pnLast' = [p \in PnPins |-> IF p \in {scl, sda} THEN "I2c" ELSE pnLast[p]]
  /\ UNCHANGED <<pnPart, pnAfio, pnPin, pnOut, pnUsart>>

PnNext ==
  \/ \E p \in PnPins : \/ TakePin(p)
                       \/ \E role \in {"Out", "Float", "PullUp", "PullDown"} : Into(p, role)
                       \/ \E level \in BOOLEAN : DrivePin(p, level)
                       \/ \E role \in {"Tx", "Rx"} : route_usart_pin(p, role)
                       \/ \E role \in {"SpiOut", "SpiIn"} : route_spi_pin(p, role)
                       \/ output_pin(p) \/ analog_pin(p)
                       \/ route_general_pwm_pin(p) \/ route_advanced(p)
  \/ \E p \in PnPins : Split(PortOf(p))
  \/ FreeJtag
  \/ \E p, q \in PnPins : \/ \E i \in {"Usart0", "Usart1", "Usart2"} : UsartNew(p, q, i)
                          \/ I2cNew(p, q)
PnSpec == PnInit /\ [][PnNext]_pnVars

---------------------------------------------------------------------------
(* Properties.                                                             *)

\* Types.
PnTypeOK ==
  /\ pnPin.out \subseteq pnPin.held /\ pnPin.held \subseteq PnPins
  /\ pnOut \in [PnPins -> {"none", "low", "high"}]
  /\ pnLast \in [PnPins -> Roles \cup {"Reset"}]
  /\ DOMAIN pnUsart \subseteq pnRcu.units

\* What the registers make of a pin, whatever they held before.
Shows(p, role) ==
  LET r == pnReg[p] IN
  IF pnPart.crl
  THEN r.nib = NibbleOf(role)
  ELSE /\ r.ctl = (IF role \in AfRoles THEN "Af" ELSE IF role = "Out" THEN "Out"
                   ELSE IF role = "Analog" THEN "Analog" ELSE "In")
       /\ role \in AfRoles => r.afsel = AfOf(p, role)
       /\ role \in AfRoles \ {"Rx", "SpiIn"} => (r.od <=> role = "I2c")
       /\ role = "Out" => ~r.od
       /\ role \in {"Float", "Analog"} \cup (AfRoles \ {"I2c"}) => r.pud = "None"
       /\ role \in {"PullUp", "I2c"} => r.pud = "Up"
       /\ role = "PullDown" => r.pud = "Down"

\* After any sequence of configure calls a pin is in the role of the latest
\* one: its port was clocked by then, and no field of an earlier role
\* (open drain, a pull, an alternate function) changes what it does.
RoleHolds == \A p \in PnPins : pnLast[p] # "Reset" => Shows(p, pnLast[p])

\* The debug port survives every sequence: its pins are never touched and
\* SWJ_CFG never turns SW off.
SwdKept == /\ \A p \in PnPins \cap SwdPins : pnReg[p] = ResetReg
           /\ pnAfio.swj \in {"Full", "SwOnly"}

\* A gate pin stays with the advanced timer unless a typed handle of it,
\* which asks nobody, is turned.
GateKept ==
  \A p \in PnPins : GateCapable(pnPart, p) =>
    pnLast[p] \in {"Reset", "Gate"} \/ p \in pnPin.held

\* A brought-up USART stays connected: its clock, and on the F10x its remap,
\* survive every later AFIO write; no two instances share a pin, and each
\* has its own pair.
UsartConnected ==
  /\ \A i \in DOMAIN pnUsart :
       /\ i \in pnRcu.units
       /\ \E pair \in UsartPairs(pnPart, pnUsart[i][1], pnUsart[i][2]) :
            /\ pair[1].usart = i
            /\ (pnPart.crl /\ pair[1].remap) => (pnAfio.usart0 /\ "Afio" \in pnRcu.units)
  /\ \A i, j \in DOMAIN pnUsart :
       i # j => {pnUsart[i][1], pnUsart[i][2]} \cap {pnUsart[j][1], pnUsart[j][2]} = {}

\* A general-timer PWM pin on the F10x reaches its timer for good: JTAG off
\* and the timer's remap kept, whatever is routed later.
PwmConnected ==
  \A p \in PnPins : (pnPart.crl /\ pnLast[p] = "GenPwm") =>
    pnAfio.swj = "SwOnly" /\ pnAfio.timer1 /\ "Afio" \in pnRcu.units

\* What the pin functions promise over any sequence of calls: a pin keeps the
\* role it was last given, the debug port and the gate pins stay out of reach,
\* and a routed signal really reaches its pin.
PnSafe ==
  /\ PnTypeOK
  /\ RoleHolds
  /\ SwdKept
  /\ GateKept
  /\ UsartConnected
  /\ PwmConnected
=============================================================================
