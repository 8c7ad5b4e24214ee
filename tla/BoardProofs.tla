---------------------------- MODULE BoardProofs ----------------------------
(***************************************************************************)
(* The board's pins and its clocks.                                        *)
(*                                                                         *)
(* The pins (Pins): PnSafe, for every set of pins, both register models    *)
(* and any order of calls. The invariant says that what has a handle is    *)
(* clocked and is no debug pin (PnHandInv), that a pin's registers are     *)
(* those of its role (RoleHolds), and what the routing serves (PnServed).  *)
(*                                                                         *)
(* The clock tree (ClockTree): CkSafe, for every set of targets that name  *)
(* the frequency their source and factor make (CkCoherent), every budget,  *)
(* number of calls and rate. The invariant says which register operations  *)
(* a call has left (CkTreeAt, CkProgramAt, CkBaudAt), that the silicon's   *)
(* answers come in the order the registers asked for them (CkSilicon), and *)
(* what is known of the tree from the answers so far (CkTreeInv).          *)
(***************************************************************************)
EXTENDS Pins, ClockTree, SequenceTheorems, TLAPS

---------------------------------------------------------------------------
(* The pins (Pins).                                                       *)

\* The shapes of the state.
PnNibbles == {"Out", "OutOd", "Analog", "Pull", "Float", "AfOd", "Af"}
PnRegSet ==
  [nib : PnNibbles, ctl : {"In", "Out", "Analog", "Af"}, od : BOOLEAN, pud : {"None", "Up", "Down"},
   afsel : 0 .. 2, latch : BOOLEAN]
PnInstances == {"Usart0", "Usart1", "Usart2"}
PnTypes ==
  /\ pnPart \in PnParts
  /\ pnReg \in [PnPins -> PnRegSet]
  /\ pnLast \in [PnPins -> Roles \cup {"Reset"}]
  /\ pnOut \in [PnPins -> {"none", "low", "high"}]
  /\ pnAfio \in [swj : {"Full", "SwOnly"}, timer1 : BOOLEAN, usart0 : BOOLEAN]
  /\ pnRcu \in [ports : SUBSET Nat, units : SUBSET (PnInstances \cup {"I2c", "Afio"})]
  /\ pnPin \in [held : SUBSET PnPins, out : SUBSET PnPins]
  /\ DOMAIN pnUsart \subseteq PnInstances

\* Who has a typed handle of a pin, and that it was clocked when it was handed
\* out; the debug port's pins have neither handle nor level.
PnHandInv ==
  /\ pnPin.out \subseteq pnPin.held
  /\ \A p \in pnPin.held : p \notin SwdPins /\ PortOf(p) \in pnRcu.ports
  /\ \A p \in PnPins \cap SwdPins : pnOut[p] = "none" /\ pnReg[p] = ResetReg

\* The pins of an instance that is up are a pair the table gives it.
PnServed(i) ==
  /\ i \in pnRcu.units
  /\ \E pair \in UsartPairs(pnPart, pnUsart[i][1], pnUsart[i][2]) :
       /\ pair[1].usart = i
       /\ (pnPart.crl /\ pair[1].remap) => (pnAfio.usart0 /\ "Afio" \in pnRcu.units)
PnUsartInv == \A i \in DOMAIN pnUsart : PnServed(i)

PnIInv == PnTypes /\ PnHandInv /\ RoleHolds /\ GateKept /\ PnUsartInv /\ PwmConnected

---------------------------------------------------------------------------
(* The tables and the registers. *)

\* The rows of the table are typed.
LEMMA PnRows ==
  \A r \in UsartPins : r.usart \in PnInstances /\ r.af \in 0 .. 2
<1>1. SUFFICES ASSUME NEW r \in UsartPins PROVE r.usart \in PnInstances /\ r.af \in 0 .. 2
  OBVIOUS
<1>2. r.usart \in PnInstances
  BY DEF UsartPins, PnInstances
<1>3. r.af = 0 \/ r.af = 1
  BY DEF UsartPins
<1> QED BY <1>2, <1>3

\* A pin of the table belongs to one instance.
LEMMA PnOneInstance ==
  \A r, s \in UsartPins : r.pin = s.pin => r.usart = s.usart
  BY DEF UsartPins

\* The pins a pair is made of, and their instance.
LEMMA PnPairPins ==
  ASSUME NEW part, NEW tx, NEW rx, NEW pair \in UsartPairs(part, tx, rx)
  PROVE  /\ pair[1] \in UsartPins /\ pair[2] \in UsartPins
         /\ pair[1].pin = tx /\ pair[2].pin = rx /\ pair[1].usart = pair[2].usart
  BY DEF UsartPairs

\* Two pairs with a pin in common belong to one instance.
LEMMA PnPairsApart ==
  ASSUME NEW part, NEW t1, NEW r1, NEW t2, NEW r2,
         NEW a \in UsartPairs(part, t1, r1), NEW b \in UsartPairs(part, t2, r2),
         {t1, r1} \cap {t2, r2} # {}
  PROVE  a[1].usart = b[1].usart
  BY PnPairPins, PnOneInstance

\* What a pin's registers r make of it, in a role.
PnShown(part, p, r, role) ==
  IF part.crl
  THEN r.nib = NibbleOf(role)
  ELSE /\ r.ctl = (IF role \in AfRoles THEN "Af" ELSE IF role = "Out" THEN "Out"
                   ELSE IF role = "Analog" THEN "Analog" ELSE "In")
       /\ role \in AfRoles => r.afsel = AfOf(p, role)
       /\ role \in AfRoles \ {"Rx", "SpiIn"} => (r.od <=> role = "I2c")
       /\ role = "Out" => ~r.od
       /\ role \in {"Float", "Analog"} \cup (AfRoles \ {"I2c"}) => r.pud = "None"
       /\ role \in {"PullUp", "I2c"} => r.pud = "Up"
       /\ role = "PullDown" => r.pud = "Down"

LEMMA PnShows == \A p \in PnPins, role \in Roles : Shows(p, role) <=> PnShown(pnPart, p, pnReg[p], role)
  BY DEF Shows, PnShown

\* Only a pin of the table is asked for a USART's role.
PnAsked(p, role) == role \in Roles /\ (role \in {"Tx", "Rx"} => \E r \in UsartPins : r.pin = p)

LEMMA PnAfType ==
  ASSUME NEW p, NEW role, PnAsked(p, role)
  PROVE  AfOf(p, role) \in 0 .. 2
<1>1. CASE role \in {"Tx", "Rx"}
  <2>1. (CHOOSE r \in UsartPins : r.pin = p) \in UsartPins
    BY <1>1 DEF PnAsked
  <2> QED BY <1>1, <2>1, PnRows DEF AfOf
<1>2. CASE role \notin {"Tx", "Rx"}
  BY <1>2 DEF AfOf
<1> QED BY <1>1, <1>2

\* Whatever the registers held, configuring a pin shows it in its role.
LEMMA PnConfigured ==
  ASSUME NEW part, NEW p, NEW r \in PnRegSet, NEW role, PnAsked(p, role)
  PROVE  /\ ConfigurePin(part, p, r, role) \in PnRegSet
         /\ PnShown(part, p, ConfigurePin(part, p, r, role), role)
<1>1. role \in Roles /\ AfOf(p, role) \in 0 .. 2
  BY PnAfType DEF PnAsked
<1>2. CASE role = "Out"
  <2>1. ConfigurePin(part, p, r, role) = configure_output(part, r)
    BY <1>2 DEF ConfigurePin, AfRoles
  <2>2. [r EXCEPT !.nib = "Out"] \in PnRegSet /\ [r EXCEPT !.nib = "Out"].nib = NibbleOf(role)
    BY <1>2 DEF PnRegSet, PnNibbles, NibbleOf, AfInput
  <2>3. /\ [r EXCEPT !.ctl = "Out", !.od = FALSE] \in PnRegSet
        /\ [r EXCEPT !.ctl = "Out", !.od = FALSE].ctl = "Out" /\ ~[r EXCEPT !.ctl = "Out", !.od = FALSE].od
    BY DEF PnRegSet
  <2>4. PnShown(part, p, configure_output(part, r), role)
    BY <1>2, <2>2, <2>3 DEF configure_output, PnShown, AfRoles
  <2> QED BY <2>1, <2>2, <2>3, <2>4 DEF configure_output
<1>3. CASE role = "Analog"
  <2>1. ConfigurePin(part, p, r, role) = configure_analog(part, r)
    BY <1>3 DEF ConfigurePin, AfRoles
  <2>2. [r EXCEPT !.nib = "Analog"] \in PnRegSet /\ [r EXCEPT !.nib = "Analog"].nib = NibbleOf(role)
    BY <1>3 DEF PnRegSet, PnNibbles, NibbleOf, AfInput
  <2>3. /\ [r EXCEPT !.ctl = "Analog", !.pud = "None"] \in PnRegSet
        /\ [r EXCEPT !.ctl = "Analog", !.pud = "None"].ctl = "Analog"
        /\ [r EXCEPT !.ctl = "Analog", !.pud = "None"].pud = "None"
    BY DEF PnRegSet
  <2>4. PnShown(part, p, configure_analog(part, r), role)
    BY <1>3, <2>2, <2>3 DEF configure_analog, PnShown, AfRoles
  <2>5. configure_analog(part, r) \in PnRegSet
    BY <2>2, <2>3 DEF configure_analog
  <2> QED BY <2>1, <2>4, <2>5
<1>4. CASE role \in {"Float", "PullUp", "PullDown"}
  <2>1. ConfigurePin(part, p, r, role) = configure_input(part, r, role)
    BY <1>4 DEF ConfigurePin, AfRoles
  <2>2. configure_input_f10x(r, role) \in PnRegSet /\ configure_input_f10x(r, role).nib = NibbleOf(role)
    BY <1>4 DEF configure_input_f10x, PnRegSet, PnNibbles, NibbleOf, AfInput
  <2>3. /\ configure_input_f1x0(r, role) \in PnRegSet /\ configure_input_f1x0(r, role).ctl = "In"
        /\ configure_input_f1x0(r, role).pud =
             (CASE role = "Float" -> "None" [] role = "PullUp" -> "Up" [] OTHER -> "Down")
    BY <1>4 DEF configure_input_f1x0, PnRegSet, PnNibbles
  <2> QED BY <1>4, <2>1, <2>2, <2>3 DEF configure_input, PnShown, AfRoles
<1>5. CASE role \in AfRoles
  <2>1. ConfigurePin(part, p, r, role) = configure_af(part, p, r, role)
    BY <1>5 DEF ConfigurePin, AfRoles
  <2>2. configure_f10x(r, role) \in PnRegSet /\ configure_f10x(r, role).nib = NibbleOf(role)
    BY <1>5 DEF configure_f10x, PnRegSet, PnNibbles, NibbleOf, AfInput, AfRoles
  <2>3. /\ configure_f1x0(p, r, role) \in PnRegSet /\ configure_f1x0(p, r, role).ctl = "Af"
        /\ configure_f1x0(p, r, role).pud = (IF role = "I2c" THEN "Up" ELSE "None")
        /\ configure_f1x0(p, r, role).afsel = AfOf(p, role)
        /\ role \notin {"Rx", "SpiIn"} => (configure_f1x0(p, r, role).od <=> role = "I2c")
    BY <1>1, <1>5 DEF configure_f1x0, PnRegSet, PnNibbles, AfInput, AfRoles
  <2> QED BY <1>5, <2>1, <2>2, <2>3 DEF configure_af, PnShown, AfRoles
<1> QED BY <1>1, <1>2, <1>3, <1>4, <1>5 DEF Roles, AfRoles

\* Driving the latch of a pin changes nothing it shows.
LEMMA PnLatched ==
  ASSUME NEW part, NEW p, NEW r \in PnRegSet, NEW role, NEW level \in BOOLEAN
  PROVE  /\ [r EXCEPT !.latch = level] \in PnRegSet
         /\ PnShown(part, p, r, role) => PnShown(part, p, [r EXCEPT !.latch = level], role)
<1> DEFINE s == [r EXCEPT !.latch = level]
<1>1. s \in PnRegSet /\ s.nib = r.nib /\ s.ctl = r.ctl /\ s.od = r.od /\ s.pud = r.pud /\ s.afsel = r.afsel
  BY DEF PnRegSet
<1> HIDE DEF s
<1>2. PnShown(part, p, r, role) => PnShown(part, p, s, role)
  BY <1>1 DEF PnShown
<1> QED BY <1>1, <1>2 DEF s

---------------------------------------------------------------------------
(* A step that turns the pins of S to their roles. *)

PnTurned(S, role) ==
  /\ pnReg' \in [PnPins -> PnRegSet] /\ pnLast' \in [PnPins -> Roles \cup {"Reset"}]
  /\ \A p \in PnPins \ S : pnReg'[p] = pnReg[p] /\ pnLast'[p] = pnLast[p]
  /\ \A p \in PnPins \cap S : pnLast'[p] = role[p] /\ PnShown(pnPart, p, pnReg'[p], role[p])

\* WritePins turns the pins it is given, when their ports are clocked.
LEMMA PnWritten ==
  ASSUME PnTypes, NEW role, NEW rcu, WritePins(rcu, role),
         \A p \in DOMAIN role : PnAsked(p, role[p]) /\ PortOf(p) \in rcu.ports
  PROVE  PnTurned(DOMAIN role, role)
<1>1. \A p \in PnPins \cap DOMAIN role :
        /\ ConfigurePin(pnPart, p, pnReg[p], role[p]) \in PnRegSet
        /\ PnShown(pnPart, p, ConfigurePin(pnPart, p, pnReg[p], role[p]), role[p])
  BY PnConfigured DEF PnTypes
<1>2. \A p \in PnPins \cap DOMAIN role : role[p] \in Roles
  BY DEF PnAsked
<1>3. \A p \in PnPins : pnReg'[p] = IF p \in DOMAIN role THEN ConfigurePin(pnPart, p, pnReg[p], role[p])
                                    ELSE pnReg[p]
  BY DEF WritePins
<1>4. \A p \in PnPins : pnLast'[p] = IF p \in DOMAIN role THEN role[p] ELSE pnLast[p]
  BY DEF WritePins
<1>5. pnReg' \in [PnPins -> PnRegSet]
  <2>1. \A p \in PnPins : (IF p \in DOMAIN role /\ PortOf(p) \in rcu.ports
           THEN ConfigurePin(pnPart, p, pnReg[p], role[p]) ELSE pnReg[p]) \in PnRegSet
    BY <1>1 DEF PnTypes
  <2> QED BY <2>1 DEF WritePins
<1>6. pnLast' \in [PnPins -> Roles \cup {"Reset"}]
  BY <1>2 DEF WritePins, PnTypes
<1> QED BY <1>1, <1>3, <1>4, <1>5, <1>6 DEF PnTurned

\* Turning pins that are not the debug port's keeps every pin in its role.
LEMMA PnTurnedRoles ==
  ASSUME PnTypes, RoleHolds, NEW S, NEW role, PnTurned(S, role), pnPart' = pnPart
  PROVE  RoleHolds'
<1>1. SUFFICES ASSUME NEW p \in PnPins, pnLast'[p] # "Reset" PROVE Shows(p, pnLast[p])'
  BY DEF RoleHolds
<1>2. PnShown(pnPart, p, pnReg'[p], pnLast'[p])
  <2>1. CASE p \in S
    BY <2>1 DEF PnTurned
  <2>2. CASE p \notin S
    <3>1. pnReg'[p] = pnReg[p] /\ pnLast'[p] = pnLast[p] /\ pnLast[p] \in Roles
      BY <1>1, <2>2 DEF PnTurned, PnTypes
    <3> QED BY <1>1, <3>1, PnShows DEF RoleHolds
  <2> QED BY <2>1, <2>2
<1> QED BY <1>2 DEF Shows, PnShown

\* What is clocked stays clocked, and no remap is undone.
PnOnward ==
  /\ pnPart' = pnPart
  /\ pnRcu' \in [ports : SUBSET Nat, units : SUBSET (PnInstances \cup {"I2c", "Afio"})]
  /\ pnRcu.ports \subseteq pnRcu'.ports /\ pnRcu.units \subseteq pnRcu'.units
  /\ pnAfio' \in [swj : {"Full", "SwOnly"}, timer1 : BOOLEAN, usart0 : BOOLEAN]
  /\ pnAfio.swj = "SwOnly" => pnAfio'.swj = "SwOnly"
  /\ pnAfio.timer1 => pnAfio'.timer1
  /\ pnAfio.usart0 => pnAfio'.usart0

\* A turn that respects ownership: none of the debug port's pins, a gate pin
\* to its timer or through a handle, and a general PWM pin with its remap.
PnAllowed(S, role) ==
  \A p \in S : /\ p \in PnPins /\ p \notin SwdPins
               /\ p \in pnPin.held \/ (GateCapable(pnPart, p) => role[p] = "Gate")
               /\ pnPart.crl /\ role[p] = "GenPwm" =>
                    pnAfio'.swj = "SwOnly" /\ pnAfio'.timer1 /\ "Afio" \in pnRcu'.units

\* An instance that is up stays served.
LEMMA PnServedKept ==
  ASSUME NEW i, PnServed(i), PnOnward, pnUsart'[i] = pnUsart[i]
  PROVE  PnServed(i)'
<1>1. PICK pair \in UsartPairs(pnPart, pnUsart[i][1], pnUsart[i][2]) :
        pair[1].usart = i /\ ((pnPart.crl /\ pair[1].remap) => (pnAfio.usart0 /\ "Afio" \in pnRcu.units))
  BY DEF PnServed
<1>2. pair \in UsartPairs(pnPart', pnUsart'[i][1], pnUsart'[i][2])
  BY <1>1 DEF PnOnward
<1>3. (pnPart'.crl /\ pair[1].remap) => (pnAfio'.usart0 /\ "Afio" \in pnRcu'.units)
  BY <1>1 DEF PnOnward
<1>4. i \in pnRcu'.units
  BY DEF PnServed, PnOnward
<1> QED BY <1>1, <1>2, <1>3, <1>4 DEF PnServed

\* A turn within ownership keeps roles, gates and general PWM pins.
LEMMA PnTurnKeeps ==
  ASSUME PnIInv, PnOnward, NEW S, NEW role, PnTurned(S, role), PnAllowed(S, role),
         pnPin.held \subseteq pnPin'.held
  PROVE  /\ RoleHolds' /\ GateKept' /\ PwmConnected'
         /\ \A p \in PnPins \cap SwdPins : pnReg'[p] = pnReg[p]
<1>1. RoleHolds'
  BY PnTurnedRoles DEF PnIInv, PnOnward
<1>2. GateKept'
  <2>1. SUFFICES ASSUME NEW p \in PnPins, GateCapable(pnPart, p)
                 PROVE  pnLast'[p] \in {"Reset", "Gate"} \/ p \in pnPin'.held
    BY DEF GateKept, PnOnward, GateCapable
  <2>2. CASE p \in S
    BY <2>1, <2>2 DEF PnAllowed, PnTurned
  <2>3. CASE p \notin S
    BY <2>1, <2>3 DEF PnTurned, PnIInv, GateKept
  <2> QED BY <2>2, <2>3
<1>3. PwmConnected'
  <2>1. SUFFICES ASSUME NEW p \in PnPins, pnPart.crl, pnLast'[p] = "GenPwm"
                 PROVE  pnAfio'.swj = "SwOnly" /\ pnAfio'.timer1 /\ "Afio" \in pnRcu'.units
    BY DEF PwmConnected, PnOnward
  <2>2. CASE p \in S
    BY <2>1, <2>2 DEF PnAllowed, PnTurned
  <2>3. CASE p \notin S
    BY <2>1, <2>3 DEF PnTurned, PnIInv, PwmConnected, PnOnward
  <2> QED BY <2>2, <2>3
<1>4. \A p \in PnPins \cap SwdPins : pnReg'[p] = pnReg[p]
  BY DEF PnTurned, PnAllowed
<1> QED BY <1>1, <1>2, <1>3, <1>4

\* With nothing turned.
LEMMA PnStill ==
  ASSUME PnTypes, pnReg' = pnReg, pnLast' = pnLast
  PROVE  PnTurned({}, [p \in {} |-> "Reset"]) /\ PnAllowed({}, [p \in {} |-> "Reset"])
  BY DEF PnTurned, PnAllowed, PnTypes

\* The ports and units a call clocks.
LEMMA PnClocked ==
  ASSUME PnTypes, NEW ports \in SUBSET Nat, NEW units \in SUBSET (PnInstances \cup {"I2c", "Afio"})
  PROVE  /\ ClockOn(ports, units) \in [ports : SUBSET Nat, units : SUBSET (PnInstances \cup {"I2c", "Afio"})]
         /\ ClockOn(ports, units).ports = pnRcu.ports \cup ports
         /\ ClockOn(ports, units).units = pnRcu.units \cup units
  BY DEF ClockOn, PnTypes

\* Ports are numbers.
LEMMA PnPort == \A p \in PnPins : PortOf(p) \in Nat
<1>1. \A p \in 0 .. 95 : p \div 16 \in Nat
  OBVIOUS
<1> QED BY <1>1, PnAssumption DEF PortOf

---------------------------------------------------------------------------
(* The actions. *)

\* Handing out typed pins keeps the invariant.
LEMMA PnTakeKeeps ==
  ASSUME PnIInv, NEW port \in Nat, NEW pins \in SUBSET PnPins, \A p \in pins : PortOf(p) = port,
         TakePins(port, pins)
  PROVE  PnIInv'
<1>1. PnOnward
  BY DEF TakePins, ClockOn, PnOnward, PnIInv, PnTypes
<1>2. /\ pnPin' \in [held : SUBSET PnPins, out : SUBSET PnPins]
      /\ pnPin'.held = pnPin.held \cup (pins \ SwdPins) /\ pnPin'.out = pnPin.out
  BY DEF TakePins, PnIInv, PnTypes
<1>3. PnTypes'
  BY <1>1, <1>2 DEF TakePins, PnIInv, PnTypes, PnOnward
<1>4. RoleHolds' /\ GateKept' /\ PwmConnected'
  <2>1. PnTurned({}, [p \in {} |-> "Reset"]) /\ PnAllowed({}, [p \in {} |-> "Reset"])
    BY PnStill DEF TakePins, PnIInv
  <2> QED BY <1>1, <1>2, <2>1, PnTurnKeeps
<1>5. PnHandInv'
  <2>1. pnRcu'.ports = pnRcu.ports \cup {port}
    BY PnClocked DEF TakePins, PnIInv
  <2>2. \A p \in pnPin'.held : p \notin SwdPins /\ PortOf(p) \in pnRcu'.ports
    BY <1>2, <2>1 DEF PnIInv, PnHandInv
  <2> QED BY <1>2, <2>2 DEF PnIInv, PnHandInv, TakePins
<1>6. PnUsartInv'
  BY <1>1, PnServedKept DEF PnIInv, PnUsartInv, TakePins
<1> QED BY <1>3, <1>4, <1>5, <1>6 DEF PnIInv

\* So does turning a pin through its handle.
LEMMA PnIntoKeeps ==
  ASSUME PnIInv, NEW p \in PnPins, NEW role \in {"Out", "Float", "PullUp", "PullDown"}, Into(p, role)
  PROVE  PnIInv'
<1> DEFINE f == [q \in {p} |-> role]
<1>1. PnOnward
  BY DEF Into, PnOnward, PnIInv, PnTypes
<1>2. p \in pnPin.held /\ p \notin SwdPins /\ PortOf(p) \in pnRcu.ports
  BY DEF Into, PnIInv, PnHandInv
<1>3. DOMAIN f = {p} /\ f[p] = role /\ role \in Roles /\ role \notin {"Tx", "Rx", "GenPwm"}
  BY DEF Roles
<1>4. PnTurned({p}, f)
  <2>1. WritePins(pnRcu, f)
    BY DEF Into
  <2>2. \A q \in DOMAIN f : PnAsked(q, f[q]) /\ PortOf(q) \in pnRcu.ports
    BY <1>2, <1>3 DEF PnAsked
  <2> QED BY <1>3, <2>1, <2>2, PnWritten DEF PnIInv
<1>5. PnAllowed({p}, f)
  BY <1>2, <1>3 DEF PnAllowed
<1>6. pnPin' \in [held : SUBSET PnPins, out : SUBSET PnPins] /\ pnPin'.held = pnPin.held
      /\ pnPin'.out \subseteq pnPin.out \cup {p}
  BY DEF Into, PnIInv, PnTypes
<1> HIDE DEF f
<1>7. PnTypes'
  BY <1>1, <1>4, <1>6 DEF Into, PnIInv, PnTypes, PnTurned, PnOnward
<1>8. /\ RoleHolds' /\ GateKept' /\ PwmConnected'
      /\ \A q \in PnPins \cap SwdPins : pnReg'[q] = pnReg[q]
  BY <1>1, <1>4, <1>5, <1>6, PnTurnKeeps
<1>9. PnHandInv'
  BY <1>2, <1>6, <1>8 DEF Into, PnIInv, PnHandInv
<1>10. PnUsartInv'
  BY <1>1, PnServedKept DEF PnIInv, PnUsartInv, Into
<1> QED BY <1>7, <1>8, <1>9, <1>10 DEF PnIInv

\* Driving an output keeps it.
LEMMA PnDriveKeeps ==
  ASSUME PnIInv, NEW p \in PnPins, NEW level \in BOOLEAN, DrivePin(p, level)
  PROVE  PnIInv'
<1> DEFINE role == [q \in {p} |-> pnLast[q]]
<1>1. PnOnward /\ pnPin' = pnPin /\ pnUsart' = pnUsart /\ pnLast' = pnLast /\ pnRcu' = pnRcu
  BY DEF DrivePin, PnOnward, PnIInv, PnTypes
<1>2. p \notin SwdPins
  BY DEF DrivePin, PnIInv, PnHandInv
<1>3. pnReg[p] \in PnRegSet /\ [pnReg[p] EXCEPT !.latch = level] \in PnRegSet
      /\ \A r : PnShown(pnPart, p, pnReg[p], r) => PnShown(pnPart, p, [pnReg[p] EXCEPT !.latch = level], r)
  BY PnLatched DEF PnIInv, PnTypes
<1>4. \A q \in PnPins : pnReg'[q] = IF q = p THEN [pnReg[p] EXCEPT !.latch = level] ELSE pnReg[q]
  BY DEF DrivePin, PnIInv, PnTypes
<1>5. pnReg' \in [PnPins -> PnRegSet]
  BY <1>3 DEF DrivePin, PnIInv, PnTypes
<1>6. /\ pnOut' \in [PnPins -> {"none", "low", "high"}]
      /\ \A q \in PnPins \ {p} : pnOut'[q] = pnOut[q]
  BY DEF DrivePin, PnIInv, PnTypes
<1>7. PnTypes'
  BY <1>1, <1>5, <1>6 DEF PnIInv, PnTypes, PnOnward
<1>8. RoleHolds'
  <2>1. SUFFICES ASSUME NEW q \in PnPins, pnLast[q] # "Reset" PROVE Shows(q, pnLast[q])'
    BY <1>1 DEF RoleHolds
  <2>2. pnLast[q] \in Roles /\ PnShown(pnPart, q, pnReg[q], pnLast[q])
    BY <2>1, PnShows DEF PnIInv, PnTypes, RoleHolds
  <2>3. PnShown(pnPart, q, pnReg'[q], pnLast[q])
    BY <1>3, <1>4, <2>2
  <2> QED BY <1>1, <2>3 DEF Shows, PnShown, PnOnward
<1>9. GateKept' /\ PwmConnected'
  BY <1>1 DEF PnIInv, GateKept, PwmConnected, PnOnward, GateCapable, DrivePin
<1>10. PnHandInv'
  BY <1>1, <1>2, <1>4, <1>6 DEF PnIInv, PnHandInv
<1>11. PnUsartInv'
  BY <1>1, PnServedKept DEF PnIInv, PnUsartInv
<1> QED BY <1>7, <1>8, <1>9, <1>10, <1>11 DEF PnIInv

\* The AFIO writes are read-modify-writes.
PnAfioOn(afio) ==
  /\ afio \in [swj : {"Full", "SwOnly"}, timer1 : BOOLEAN, usart0 : BOOLEAN]
  /\ pnAfio.swj = "SwOnly" => afio.swj = "SwOnly"
  /\ pnAfio.timer1 => afio.timer1
  /\ pnAfio.usart0 => afio.usart0
LEMMA PnRemaps ==
  ASSUME PnTypes
  PROVE  /\ PnAfioOn(pnAfio) /\ PnAfioOn(set_swj_sw_only(pnAfio))
         /\ PnAfioOn(set_usart0_remap(pnAfio)) /\ set_usart0_remap(pnAfio).usart0
         /\ PnAfioOn(remap_timer1_partial0(set_swj_sw_only(pnAfio)))
         /\ remap_timer1_partial0(set_swj_sw_only(pnAfio)).swj = "SwOnly"
         /\ remap_timer1_partial0(set_swj_sw_only(pnAfio)).timer1
  BY DEF PnTypes, PnAfioOn, set_swj_sw_only, set_usart0_remap, remap_timer1_partial0

\* Routing a pin by its packed byte keeps the invariant.
LEMMA PnRouteKeeps ==
  ASSUME PnIInv, NEW p \in PnPins, NEW claim \in {"Gate", "NonGate"}, NEW role, PnAsked(p, role),
         NEW afioUsed \in BOOLEAN, NEW afio, PnAfioOn(afio),
         Route(p, claim, role, afioUsed, afio), claim = "Gate" => role = "Gate",
         pnPart.crl /\ role = "GenPwm" => afioUsed /\ afio.swj = "SwOnly" /\ afio.timer1
  PROVE  PnIInv'
<1> DEFINE f == [q \in {p} |-> role]
           rcu == ClockOn({PortOf(p)}, AfioIf(afioUsed))
<1>1. /\ pnRcu' \in [ports : SUBSET Nat, units : SUBSET (PnInstances \cup {"I2c", "Afio"})]
      /\ pnRcu'.ports = pnRcu.ports \cup {PortOf(p)} /\ pnRcu'.units = pnRcu.units \cup AfioIf(afioUsed)
      /\ rcu = pnRcu'
  <2>1. {PortOf(p)} \in SUBSET Nat /\ AfioIf(afioUsed) \in SUBSET (PnInstances \cup {"I2c", "Afio"})
    BY PnPort DEF AfioIf
  <2>2. pnRcu' = rcu
    BY DEF Route
  <2> HIDE DEF rcu
  <2>3. /\ rcu \in [ports : SUBSET Nat, units : SUBSET (PnInstances \cup {"I2c", "Afio"})]
        /\ rcu.ports = pnRcu.ports \cup {PortOf(p)} /\ rcu.units = pnRcu.units \cup AfioIf(afioUsed)
    BY <2>1, PnClocked DEF PnIInv, rcu
  <2> QED BY <2>2, <2>3
<1>2. PnOnward
  <2>1. PnAfioOn(pnAfio')
    BY PnRemaps DEF Route, PnIInv
  <2>2. pnPart' = pnPart
    BY DEF Route
  <2> QED BY <1>1, <2>1, <2>2 DEF PnOnward, PnAfioOn
<1>3. p \notin SwdPins /\ (GateCapable(pnPart, p) => role = "Gate")
  BY DEF Route, Owned
<1>4. PnTurned({p}, f)
  <2>1. WritePins(rcu, f)
    BY DEF Route
  <2> HIDE DEF rcu
  <2>2. \A q \in DOMAIN f : PnAsked(q, f[q]) /\ PortOf(q) \in rcu.ports
    BY <1>1
  <2>3. DOMAIN f = {p}
    OBVIOUS
  <2> HIDE DEF f
  <2> QED BY <2>1, <2>2, <2>3, PnWritten DEF PnIInv
<1>5. PnAllowed({p}, f)
  <2>1. f[p] = role
    OBVIOUS
  <2>2. pnPart.crl /\ role = "GenPwm" => pnAfio' = afio /\ "Afio" \in pnRcu'.units
    BY <1>1 DEF Route, AfioIf
  <2> HIDE DEF f
  <2> QED BY <1>3, <2>1, <2>2 DEF PnAllowed
<1> HIDE DEF f, rcu
<1>6. pnPin' = pnPin /\ pnUsart' = pnUsart
  BY DEF Route
<1>7. /\ RoleHolds' /\ GateKept' /\ PwmConnected'
      /\ \A q \in PnPins \cap SwdPins : pnReg'[q] = pnReg[q]
  BY <1>2, <1>4, <1>5, <1>6, PnTurnKeeps
<1>8. /\ pnOut' \in [PnPins -> {"none", "low", "high"}]
      /\ \A q \in PnPins \ {p} : pnOut'[q] = pnOut[q]
  BY DEF Route, PnIInv, PnTypes
<1>9. PnTypes'
  BY <1>2, <1>4, <1>6, <1>8 DEF PnIInv, PnTypes, PnTurned, PnOnward
<1>10. PnHandInv'
  BY <1>2, <1>3, <1>6, <1>7, <1>8 DEF PnIInv, PnHandInv, PnOnward
<1>11. PnUsartInv'
  BY <1>2, <1>6, PnServedKept DEF PnIInv, PnUsartInv
<1> QED BY <1>7, <1>9, <1>10, <1>11 DEF PnIInv

\* So does freeing the JTAG pins.
LEMMA PnJtagKeeps ==
  ASSUME PnIInv, FreeJtag
  PROVE  PnIInv'
<1>1. PnOnward
  <2>1. {} \in SUBSET Nat /\ {"Afio"} \in SUBSET (PnInstances \cup {"I2c", "Afio"})
    OBVIOUS
  <2>2. /\ pnRcu' \in [ports : SUBSET Nat, units : SUBSET (PnInstances \cup {"I2c", "Afio"})]
        /\ pnRcu'.ports = pnRcu.ports \cup {} /\ pnRcu'.units = pnRcu.units \cup {"Afio"}
    BY <2>1 DEF FreeJtag, ClockOn, PnIInv, PnTypes
  <2>3. PnAfioOn(pnAfio')
    BY PnRemaps DEF FreeJtag, PnIInv
  <2> QED BY <2>2, <2>3 DEF PnOnward, PnAfioOn, FreeJtag
<1>2. PnTurned({}, [p \in {} |-> "Reset"]) /\ PnAllowed({}, [p \in {} |-> "Reset"])
  BY PnStill DEF FreeJtag, PnIInv
<1>3. RoleHolds' /\ GateKept' /\ PwmConnected'
  BY <1>1, <1>2, PnTurnKeeps DEF FreeJtag
<1>4. PnTypes'
  BY <1>1 DEF FreeJtag, PnIInv, PnTypes, PnOnward
<1>5. PnHandInv'
  BY <1>1 DEF FreeJtag, PnIInv, PnHandInv, PnOnward
<1>6. PnUsartInv'
  BY <1>1, PnServedKept DEF PnIInv, PnUsartInv, FreeJtag
<1> QED BY <1>3, <1>4, <1>5, <1>6 DEF PnIInv

\* Bringing up a USART keeps the invariant, and serves the instance.
LEMMA PnUsartKeeps ==
  ASSUME PnIInv, NEW tx \in PnPins, NEW rx \in PnPins, NEW instance \in PnInstances, UsartNew(tx, rx, instance)
  PROVE  PnIInv'
<1>1. PICK pair \in UsartPairs(pnPart, tx, rx) :
       /\ pair[1].usart = instance /\ instance \notin DOMAIN pnUsart
       /\ LET afio == pnPart.crl /\ pair[1].remap
              rcu == ClockOn({}, {instance} \cup AfioIf(afio))
          IN /\ pnRcu' = rcu
             /\ pnAfio' = IF afio THEN set_usart0_remap(pnAfio) ELSE pnAfio
             /\ WritePins(rcu, [q \in {tx, rx} |-> IF q = tx THEN "Tx" ELSE "Rx"])
  BY DEF UsartNew
<1> DEFINE f == [q \in {tx, rx} |-> IF q = tx THEN "Tx" ELSE "Rx"]
           afio == pnPart.crl /\ pair[1].remap
<1>2. /\ pnRcu' \in [ports : SUBSET Nat, units : SUBSET (PnInstances \cup {"I2c", "Afio"})]
      /\ pnRcu'.ports = pnRcu.ports /\ pnRcu'.units = pnRcu.units \cup {instance} \cup AfioIf(afio)
      /\ WritePins(pnRcu', f)
  <2>1. {} \in SUBSET Nat /\ {instance} \cup AfioIf(afio) \in SUBSET (PnInstances \cup {"I2c", "Afio"})
    BY DEF AfioIf
  <2> DEFINE rcu == ClockOn({}, {instance} \cup AfioIf(afio))
  <2>2. pnRcu' = rcu /\ WritePins(rcu, f)
    BY <1>1
  <2>3. /\ rcu \in [ports : SUBSET Nat, units : SUBSET (PnInstances \cup {"I2c", "Afio"})]
        /\ rcu.ports = pnRcu.ports \cup {} /\ rcu.units = pnRcu.units \cup ({instance} \cup AfioIf(afio))
    BY <2>1 DEF ClockOn, PnIInv, PnTypes
  <2> HIDE DEF rcu, f
  <2> QED BY <2>2, <2>3
<1>3. pnAfio' = IF afio THEN set_usart0_remap(pnAfio) ELSE pnAfio
  BY <1>1
<1>4. PnAfioOn(pnAfio') /\ (afio => pnAfio'.usart0)
  BY <1>3, PnRemaps DEF PnIInv
<1>5. /\ pnPart' = pnPart /\ pnPin' = pnPin /\ pnOut' = pnOut
      /\ pnUsart' = [i \in DOMAIN pnUsart \cup {instance} |-> IF i = instance THEN <<tx, rx>> ELSE pnUsart[i]]
      /\ tx \in pnPin.held /\ rx \in pnPin.held /\ tx \notin SwdPins /\ rx \notin SwdPins
  BY DEF UsartNew, Owned
<1>6. PnOnward
  BY <1>2, <1>4, <1>5 DEF PnOnward, PnAfioOn
<1>7. DOMAIN f = {tx, rx} /\ \A q \in {tx, rx} : f[q] \in {"Tx", "Rx"}
  OBVIOUS
<1>8. PnTurned({tx, rx}, f)
  <2>1. \A q \in {tx, rx} : PnAsked(q, f[q])
    BY <1>1, <1>7, PnPairPins DEF PnAsked, Roles
  <2>2. \A q \in {tx, rx} : PortOf(q) \in pnRcu'.ports
    BY <1>2, <1>5 DEF PnIInv, PnHandInv
  <2> HIDE DEF f
  <2> QED BY <1>2, <1>7, <2>1, <2>2, PnWritten DEF PnIInv
<1> HIDE DEF f
<1>9. PnAllowed({tx, rx}, f)
  BY <1>5, <1>7 DEF PnAllowed
<1>10. /\ RoleHolds' /\ GateKept' /\ PwmConnected'
       /\ \A q \in PnPins \cap SwdPins : pnReg'[q] = pnReg[q]
  BY <1>5, <1>6, <1>8, <1>9, PnTurnKeeps
<1>11. PnTypes'
  <2>1. DOMAIN pnUsart' \subseteq PnInstances
    BY <1>5 DEF PnIInv, PnTypes
  <2> QED BY <2>1, <1>5, <1>6, <1>8 DEF PnIInv, PnTypes, PnTurned, PnOnward
<1>12. PnHandInv'
  BY <1>5, <1>6, <1>10 DEF PnIInv, PnHandInv, PnOnward
<1>13. PnUsartInv'
  <2>1. SUFFICES ASSUME NEW i \in DOMAIN pnUsart' PROVE PnServed(i)'
    BY DEF PnUsartInv
  <2>2. CASE i = instance
    <3>1. pnUsart'[i] = <<tx, rx>>
      BY <1>5, <2>2
    <3>2. pair \in UsartPairs(pnPart', pnUsart'[i][1], pnUsart'[i][2]) /\ pair[1].usart = i
      BY <1>1, <1>5, <2>2, <3>1
    <3>3. (pnPart'.crl /\ pair[1].remap) => (pnAfio'.usart0 /\ "Afio" \in pnRcu'.units)
      BY <1>2, <1>4, <1>5 DEF AfioIf
    <3>4. i \in pnRcu'.units
      BY <1>2, <2>2
    <3> QED BY <3>2, <3>3, <3>4 DEF PnServed
  <2>3. CASE i # instance
    <3>1. i \in DOMAIN pnUsart /\ pnUsart'[i] = pnUsart[i]
      BY <1>5, <2>1, <2>3
    <3> QED BY <3>1, <1>6, PnServedKept DEF PnIInv, PnUsartInv
  <2> QED BY <2>2, <2>3
<1> QED BY <1>10, <1>11, <1>12, <1>13 DEF PnIInv

\* So does bringing up the I2C, whose bus clear drives both pins first.
LEMMA PnI2cKeeps ==
  ASSUME PnIInv, NEW scl \in PnPins, NEW sda \in PnPins, I2cNew(scl, sda)
  PROVE  PnIInv'
<1> DEFINE f == [q \in {scl, sda} |-> "I2c"]
           Claimed(p) == configure_af(pnPart, p,
                           configure_output_od(pnPart, [pnReg[p] EXCEPT !.latch = TRUE]), "I2c")
<1>1. PnOnward
  <2>1. {} \in SUBSET Nat /\ {"I2c"} \in SUBSET (PnInstances \cup {"I2c", "Afio"})
    OBVIOUS
  <2>2. /\ pnRcu' \in [ports : SUBSET Nat, units : SUBSET (PnInstances \cup {"I2c", "Afio"})]
        /\ pnRcu'.ports = pnRcu.ports \cup {} /\ pnRcu'.units = pnRcu.units \cup {"I2c"}
    BY <2>1 DEF I2cNew, ClockOn, PnIInv, PnTypes
  <2> QED BY <2>2 DEF PnOnward, I2cNew, PnIInv, PnTypes
<1>2. /\ pnPin' = pnPin /\ pnOut' = pnOut /\ pnUsart' = pnUsart
      /\ scl \in pnPin.held /\ sda \in pnPin.held /\ scl \notin SwdPins /\ sda \notin SwdPins
  BY DEF I2cNew, Owned
<1>3. \A p \in PnPins : Claimed(p) \in PnRegSet /\ PnShown(pnPart, p, Claimed(p), "I2c")
  <2>1. SUFFICES ASSUME NEW p \in PnPins
                 PROVE  Claimed(p) \in PnRegSet /\ PnShown(pnPart, p, Claimed(p), "I2c")
    OBVIOUS
  <2> DEFINE r == [pnReg[p] EXCEPT !.latch = TRUE]
             s == configure_output_od(pnPart, r)
  <2>2. r \in PnRegSet
    BY PnLatched DEF PnIInv, PnTypes
  <2> HIDE DEF r
  <2>3. s \in PnRegSet
    BY <2>2 DEF configure_output_od, PnRegSet, PnNibbles
  <2> HIDE DEF s
  <2>4. ConfigurePin(pnPart, p, s, "I2c") = configure_af(pnPart, p, s, "I2c")
    BY DEF ConfigurePin, AfRoles
  <2>5. PnAsked(p, "I2c")
    BY DEF PnAsked, Roles
  <2>6. configure_af(pnPart, p, s, "I2c") \in PnRegSet /\ PnShown(pnPart, p, configure_af(pnPart, p, s, "I2c"), "I2c")
    BY <2>3, <2>4, <2>5, PnConfigured
  <2> QED BY <2>6 DEF r, s
<1>4. \A p \in PnPins : pnReg'[p] = IF p \in {scl, sda} THEN Claimed(p) ELSE pnReg[p]
  BY DEF I2cNew
<1>5. pnReg' \in [PnPins -> PnRegSet]
  <2> HIDE DEF Claimed
  <2>1. pnReg' = [p \in PnPins |-> IF p \in {scl, sda} THEN Claimed(p) ELSE pnReg[p]]
    BY DEF I2cNew, Claimed
  <2> QED BY <1>3, <2>1 DEF PnIInv, PnTypes
<1> HIDE DEF Claimed
<1>6. PnTurned({scl, sda}, f)
  <2>1. pnLast' \in [PnPins -> Roles \cup {"Reset"}]
    BY DEF I2cNew, PnIInv, PnTypes, Roles
  <2>2. \A p \in PnPins : pnLast'[p] = IF p \in {scl, sda} THEN "I2c" ELSE pnLast[p]
    BY DEF I2cNew
  <2> QED BY <1>3, <1>4, <1>5, <2>1, <2>2 DEF PnTurned
<1>7. PnAllowed({scl, sda}, f)
  BY <1>2 DEF PnAllowed
<1> HIDE DEF f
<1>8. /\ RoleHolds' /\ GateKept' /\ PwmConnected'
      /\ \A q \in PnPins \cap SwdPins : pnReg'[q] = pnReg[q]
  BY <1>1, <1>2, <1>6, <1>7, PnTurnKeeps
<1>9. PnTypes'
  BY <1>1, <1>2, <1>6 DEF PnIInv, PnTypes, PnTurned, PnOnward
<1>10. PnHandInv'
  BY <1>1, <1>2, <1>8 DEF PnIInv, PnHandInv, PnOnward
<1>11. PnUsartInv'
  BY <1>1, <1>2, PnServedKept DEF PnIInv, PnUsartInv
<1> QED BY <1>8, <1>9, <1>10, <1>11 DEF PnIInv

\* Every step keeps the invariant.
LEMMA PnNextIInv ==
  ASSUME PnIInv, [PnNext]_pnVars
  PROVE  PnIInv'
<1>1. CASE UNCHANGED pnVars
  BY <1>1 DEF pnVars, PnIInv, PnTypes, PnHandInv, RoleHolds, Shows, GateKept, GateCapable, PnUsartInv, PnServed,
              PwmConnected
<1>2. ASSUME NEW p \in PnPins, TakePin(p) PROVE PnIInv'
  BY <1>2, PnPort, PnTakeKeeps DEF TakePin
<1>3. ASSUME NEW p \in PnPins, Split(PortOf(p)) PROVE PnIInv'
  BY <1>3, PnPort, PnTakeKeeps DEF Split
<1>4. ASSUME NEW p \in PnPins, NEW role \in {"Tx", "Rx"}, route_usart_pin(p, role) PROVE PnIInv'
  <2>1. PnAsked(p, role) /\ PnAfioOn(pnAfio) /\ FALSE \in BOOLEAN /\ Route(p, "NonGate", role, FALSE, pnAfio)
        /\ role # "GenPwm"
    BY <1>4, PnRemaps DEF route_usart_pin, PnAsked, Roles, PnIInv
  <2> QED BY <2>1, PnRouteKeeps
<1>5. ASSUME NEW p \in PnPins, NEW role \in {"SpiOut", "SpiIn"}, route_spi_pin(p, role) PROVE PnIInv'
  <2>1. PnAsked(p, role) /\ PnAfioOn(pnAfio) /\ FALSE \in BOOLEAN /\ Route(p, "NonGate", role, FALSE, pnAfio)
        /\ role # "GenPwm"
    BY <1>5, PnRemaps DEF route_spi_pin, PnAsked, Roles, PnIInv
  <2> QED BY <2>1, PnRouteKeeps
<1>6. ASSUME NEW p \in PnPins, output_pin(p) \/ analog_pin(p) PROVE PnIInv'
  <2>1. /\ PnAsked(p, "Out") /\ PnAsked(p, "Analog") /\ PnAfioOn(pnAfio) /\ FALSE \in BOOLEAN
        /\ Route(p, "NonGate", "Out", FALSE, pnAfio) \/ Route(p, "NonGate", "Analog", FALSE, pnAfio)
    BY <1>6, PnRemaps DEF output_pin, analog_pin, PnAsked, Roles, PnIInv
  <2> QED BY <2>1, PnRouteKeeps
<1>7. ASSUME NEW p \in PnPins, route_general_pwm_pin(p) PROVE PnIInv'
  <2> DEFINE afio == remap_timer1_partial0(set_swj_sw_only(pnAfio))
  <2>1. PnAfioOn(afio) /\ afio.swj = "SwOnly" /\ afio.timer1
    BY PnRemaps DEF PnIInv
  <2>2. PnAsked(p, "GenPwm") /\ pnPart.crl \in BOOLEAN /\ Route(p, "NonGate", "GenPwm", pnPart.crl, afio)
    BY <1>7, PnAssumption DEF route_general_pwm_pin, PnAsked, Roles, PnIInv, PnTypes
  <2> HIDE DEF afio
  <2> QED BY <2>1, <2>2, PnRouteKeeps
<1>8. ASSUME NEW p \in PnPins, route_advanced(p) PROVE PnIInv'
  <2>1. PnAsked(p, "Gate") /\ PnAfioOn(pnAfio) /\ FALSE \in BOOLEAN /\ Route(p, "Gate", "Gate", FALSE, pnAfio)
    BY <1>8, PnRemaps DEF route_advanced, PnAsked, Roles, PnIInv
  <2> QED BY <2>1, PnRouteKeeps
<1>9. ASSUME NEW p \in PnPins, NEW q \in PnPins, NEW i \in PnInstances, UsartNew(p, q, i) PROVE PnIInv'
  BY <1>9, PnUsartKeeps
<1>10. ASSUME NEW p \in PnPins, NEW q \in PnPins, I2cNew(p, q) PROVE PnIInv'
  BY <1>10, PnI2cKeeps
<1> QED BY <1>1, <1>2, <1>3, <1>4, <1>5, <1>6, <1>7, <1>8, <1>9, <1>10, PnIntoKeeps, PnDriveKeeps, PnJtagKeeps
        DEF PnNext, PnInstances

\* The invariant holds at reset.
LEMMA PnInitIInv == PnInit => PnIInv
<1>1. ResetReg \in PnRegSet
  BY DEF ResetReg, PnRegSet, PnNibbles
<1>2. ASSUME PnInit PROVE PnTypes
  BY <1>1, <1>2 DEF PnInit, PnTypes
<1>3. ASSUME PnInit PROVE PnHandInv /\ RoleHolds /\ GateKept /\ PnUsartInv /\ PwmConnected
  BY <1>3 DEF PnInit, PnHandInv, RoleHolds, GateKept, PnUsartInv, PwmConnected
<1> QED BY <1>2, <1>3 DEF PnIInv

\* The invariant implies what the runs check.
LEMMA PnIInvSafe == PnIInv => PnSafe
<1>1. SUFFICES ASSUME PnIInv PROVE PnSafe
  OBVIOUS
<1>2. PnTypeOK
  BY <1>1 DEF PnIInv, PnTypes, PnHandInv, PnUsartInv, PnServed, PnTypeOK
<1>3. SwdKept
  BY <1>1 DEF PnIInv, PnTypes, PnHandInv, SwdKept
<1>4. UsartConnected
  <2>1. \A i \in DOMAIN pnUsart : PnServed(i)
    BY <1>1 DEF PnIInv, PnUsartInv
  <2>2. ASSUME NEW i \in DOMAIN pnUsart, NEW j \in DOMAIN pnUsart, i # j
        PROVE  {pnUsart[i][1], pnUsart[i][2]} \cap {pnUsart[j][1], pnUsart[j][2]} = {}
    <3>1. PICK a \in UsartPairs(pnPart, pnUsart[i][1], pnUsart[i][2]) : a[1].usart = i
      BY <2>1 DEF PnServed
    <3>2. PICK b \in UsartPairs(pnPart, pnUsart[j][1], pnUsart[j][2]) : b[1].usart = j
      BY <2>1 DEF PnServed
    <3> QED BY <2>2, <3>1, <3>2, PnPairsApart
  <2> QED BY <2>1, <2>2 DEF UsartConnected, PnServed
<1> QED BY <1>1, <1>2, <1>3, <1>4 DEF PnIInv, PnSafe

\* For every set of pins, both register models and any order of calls: a pin
\* keeps the role it was last given, the debug port and the gate pins stay out
\* of reach, and a routed signal really reaches its pin.
THEOREM PinsSafety == PnSpec => []PnSafe
<1>1. PnInit => PnIInv
  BY PnInitIInv
<1>2. PnIInv /\ [PnNext]_pnVars => PnIInv'
  BY PnNextIInv
<1>3. PnIInv => PnSafe
  BY PnIInvSafe
<1> QED BY <1>1, <1>2, <1>3, PTL DEF PnSpec

---------------------------------------------------------------------------
(* The clock tree (ClockTree).                                            *)

\* A profile names the frequency its source and its factor make.
SourceHz(p) == IF p.source = "Hxtal" THEN 8000000 ELSE 4000000
CkCoherent == \A p \in CkProfiles : p.sysclk = SourceHz(p) * p.mul

\* The shapes of the state.
CkRcuSet ==
  [ws : 0..7, en : SUBSET {"Irc8m", "Hxtal", "pll"}, ahb : {0} \cup 8..15, apb1 : {0} \cup 4..7,
   apb2 : {0} \cup 4..7, sel : {"Irc8m", "Hxtal"}, mf : 0..31, scs : {"Irc8m", "pll"}]
CkFrames == {"none", "8N1", "9E2"}
CkUsartSet ==
  [uen : BOOLEAN, regs : [brr : Nat, frame : CkFrames, on : SUBSET {"REN", "TEN"}],
   want : [baud : Nat, frame : CkFrames], label : {"Usart0", "Usart1"}]
CkRefusals == {"InvalidPll", "InvalidPrescaler", "InvalidWaitStates"}
CkGiveUps == {"SourceNotStable", "PllNotLocked", "SwitchNotConfirmed"}
CkTypes ==
  /\ ckTarget \in [path : Families, profile : CkProfiles]
  /\ ckRcu \in CkRcuSet
  /\ ckStat \subseteq {"Irc8m", "Hxtal", "pll", "switch"}
  /\ ckLeft \in {{}} \cup {{n} : n \in 0..CkBudget}
  /\ ckResult \in {"none", "running", "Ok"} \cup CkRefusals \cup CkGiveUps
  /\ ckUsart \in CkUsartSet
  /\ ckCount \in [calls : Nat, programs : Nat]

\* The target, and its fields in the registers.
Profile == ckTarget.profile
Valid == validate_for(ckTarget.path, Profile) = "Ok"
Waits == ckRcu.ws = wait_states_for(ckTarget.path, Profile.sysclk)
Divided ==
  /\ ckRcu.ahb = ahb_psc_bits(Profile.ahb)
  /\ ckRcu.apb1 = apb_psc_code(Profile.apb1)
  /\ ckRcu.apb2 = apb_psc_code(Profile.apb2)
Fed == ckRcu.sel = Profile.source
Multiplied == ckRcu.mf = pll_mul_bits(Profile.mul)

\* The reset tree: nothing divided, nothing switched; and nothing enabled.
Undivided == ckRcu.ahb = 0 /\ ckRcu.apb1 = 0 /\ ckRcu.apb2 = 0 /\ ckRcu.scs = "Irc8m"
Untouched == Undivided /\ ckRcu.en = {"Irc8m"} /\ ckRcu.ws = 0

\* The silicon's answers come in order, and the PLL is enabled last of the
\* fields it needs.
CkSilicon ==
  /\ "switch" \in ckStat => ckRcu.scs = "pll"
  /\ ckRcu.scs = "pll" => "pll" \in ckStat
  /\ "pll" \in ckStat => "pll" \in ckRcu.en
  /\ "pll" \in ckRcu.en => Valid /\ Waits /\ Divided /\ Fed /\ Multiplied

\* What a list of operations has left when k of it are done.
CkAhead(code, ops, k) ==
  /\ code \in Seq({ops[i] : i \in 1..Len(ops)}) /\ Len(code) = Len(ops) - k
  /\ \A i \in 1..(Len(ops) - k) : code[i] = ops[i + k]

\* k operations of the bring-up are done.
TreeOps == configure_tree_inner(ckTarget.path, Profile)
CkTreeAt(k) ==
  /\ CkAhead(ckCode, TreeOps, k)
  /\ k >= 1 => Waits
  /\ k >= 4 => ckRcu.ahb = ahb_psc_bits(Profile.ahb)
  /\ k >= 5 => ckRcu.apb2 = apb_psc_code(Profile.apb2)
  /\ k >= 6 => ckRcu.apb1 = apb_psc_code(Profile.apb1)
  /\ k >= 7 => Fed
  /\ k >= 8 => Multiplied
  /\ k >= 9 => "pll" \in ckRcu.en
  /\ k >= 10 => "pll" \in ckStat
  /\ k >= 11 => ckRcu.scs = "pll"
  /\ k <= 3 /\ ckCount.calls = 1 => Undivided

\* k operations of a USART's bring-up, or of a change of its rate, are done.
ProgramOps == program(ckUsart.label, ckUsart.want.baud, ckUsart.want.frame)
BaudOps == set_baud(ckUsart.label, ckUsart.want.baud)
Rated ==
  ckUsart.regs.brr = compute_brr(usart_input_clock(Clock, UsartBus(ckUsart.label)), ckUsart.want.baud)
Framed == ckUsart.regs.frame = ckUsart.want.frame
CkProgramAt(k) ==
  /\ CkAhead(ckCode, ProgramOps, k)
  /\ k >= 1 => ~ckUsart.uen
  /\ k >= 2 => Rated
  /\ k >= 3 => Framed
  /\ k >= 4 => "REN" \in ckUsart.regs.on
  /\ k >= 5 => "TEN" \in ckUsart.regs.on
CkBaudAt(k) ==
  /\ CkAhead(ckCode, BaudOps, k)
  /\ k >= 1 => ~ckUsart.uen
  /\ k >= 2 => Rated
  /\ Framed /\ ckUsart.regs.on = {"REN", "TEN"}

CkCodeInv ==
  \/ ckCode = << >> /\ ckResult # "running"
  \/ ckResult = "running" /\ ckCount.programs = 0 /\ ckCount.calls > 0 /\ Valid
       /\ \E k \in 0..11 : CkTreeAt(k)
  \/ ckResult # "running" /\ ckCount.programs > 0
       /\ ((\E k \in 0..5 : CkProgramAt(k)) \/ (\E k \in 0..2 : CkBaudAt(k)))

\* What is known of the tree from the answers so far.
CkTreeInv ==
  /\ ckResult = "none" <=> ckCount.calls = 0
  /\ ckResult = "none" \/ ~Valid => Untouched
  /\ Valid => ckResult \notin CkRefusals
  /\ ~Valid => ckResult \in {"none"} \cup CkRefusals
  /\ ckResult = "SourceNotStable" /\ ckCount.calls = 1 => Undivided
  /\ ckResult = "Ok" => "switch" \in ckStat

CkUsartInv ==
  /\ ckCount.programs = 0 => ~ckUsart.uen
  /\ ckCount.programs > 0 => ClockKnown /\ ckUsart.want.baud > 0
  /\ ckCount.programs > 0 /\ ckCode = << >> => Rated /\ Framed /\ ckUsart.regs.on = {"REN", "TEN"}

CkIInv == CkTypes /\ CkSilicon /\ CkCodeInv /\ CkTreeInv /\ CkUsartInv

---------------------------------------------------------------------------
(* The operations a call has left. *)

\* Two lists, one after the other, place by place.
LEMMA CkConcat ==
  ASSUME NEW S, NEW x \in Seq(S), NEW y \in Seq(S)
  PROVE  /\ x \o y \in Seq(S) /\ Len(x \o y) = Len(x) + Len(y)
         /\ \A i \in 1..Len(x) : (x \o y)[i] = x[i]
         /\ \A i \in 1..Len(y) : (x \o y)[Len(x) + i] = y[i]
<1>1. /\ x \o y \in Seq(S) /\ Len(x \o y) = Len(x) + Len(y)
      /\ \A i \in 1..(Len(x) + Len(y)) : (x \o y)[i] = IF i <= Len(x) THEN x[i] ELSE y[i - Len(x)]
  BY ConcatProperties
<1>2. ASSUME NEW i \in 1..Len(y) PROVE (x \o y)[Len(x) + i] = y[i]
  <2>1. Len(x) + i \in 1..(Len(x) + Len(y)) /\ ~(Len(x) + i <= Len(x)) /\ (Len(x) + i) - Len(x) = i
    OBVIOUS
  <2> QED BY <1>1, <2>1
<1>3. ASSUME NEW i \in 1..Len(x) PROVE (x \o y)[i] = x[i]
  <2>1. i \in 1..(Len(x) + Len(y)) /\ i <= Len(x)
    OBVIOUS
  <2> QED BY <1>1, <2>1
<1> QED BY <1>1, <1>2, <1>3

LEMMA CkAheadStep ==
  ASSUME NEW ops, Len(ops) \in Nat, NEW k \in Nat, k < Len(ops), NEW code, CkAhead(code, ops, k)
  PROVE  /\ code # << >> /\ code[1] = ops[k + 1] /\ Len(code) = Len(ops) - k
         /\ CkAhead(Tail(code), ops, k + 1)
         /\ Tail(code) = << >> <=> k + 1 = Len(ops)
<1> DEFINE S == {ops[i] : i \in 1..Len(ops)}
<1>1. code \in Seq(S) /\ Len(code) = Len(ops) - k /\ \A i \in 1..(Len(ops) - k) : code[i] = ops[i + k]
  BY DEF CkAhead
<1> HIDE DEF S
<1>2. code # << >> /\ 1 \in 1..(Len(ops) - k) /\ 1 + k = k + 1
  BY <1>1
<1>3. /\ Tail(code) \in Seq(S) /\ Len(Tail(code)) = Len(ops) - (k + 1)
      /\ \A i \in 1..(Len(ops) - (k + 1)) : Tail(code)[i] = code[i + 1]
  BY <1>1, <1>2
<1>4. ASSUME NEW i \in 1..(Len(ops) - (k + 1)) PROVE Tail(code)[i] = ops[i + (k + 1)]
  <2>1. i + 1 \in 1..(Len(ops) - k) /\ (i + 1) + k = i + (k + 1)
    OBVIOUS
  <2> QED BY <1>1, <1>3, <2>1
<1>5. Tail(code) = << >> <=> k + 1 = Len(ops)
  <2>1. Tail(code) = << >> <=> Len(Tail(code)) = 0
    BY <1>3, EmptySeq
  <2>2. Len(ops) - (k + 1) = 0 <=> k + 1 = Len(ops)
    OBVIOUS
  <2> QED BY <1>3, <2>1, <2>2
<1> QED BY <1>1, <1>2, <1>3, <1>4, <1>5 DEF CkAhead, S

\* A call starts with all of its operations ahead.
LEMMA CkAheadAll ==
  ASSUME NEW S, NEW ops \in Seq(S)
  PROVE  CkAhead(ops, ops, 0) /\ Len(ops) \in Nat
<1>1. ops \in Seq({ops[i] : i \in 1..Len(ops)}) /\ Len(ops) \in Nat
  OBVIOUS
<1>2. \A i \in 1..Len(ops) : i + 0 = i
  OBVIOUS
<1> QED BY <1>1, <1>2 DEF CkAhead

\* The bring-up, place by place.
TreeOp(j) ==
  CASE j = 1 -> Set("ws", wait_states_for(ckTarget.path, Profile.sysclk))
    [] j = 2 -> Set("en", {Profile.source}) [] j = 3 -> CkWait("source")
    [] j = 4 -> Set("ahb", ahb_psc_bits(Profile.ahb))
    [] j = 5 -> Set("apb2", apb_psc_code(Profile.apb2))
    [] j = 6 -> Set("apb1", apb_psc_code(Profile.apb1))
    [] j = 7 -> Set("sel", Profile.source) [] j = 8 -> Set("mf", pll_mul_bits(Profile.mul))
    [] j = 9 -> Set("en", {"pll"}) [] j = 10 -> CkWait("pll")
    [] j = 11 -> Set("scs", "pll") [] j = 12 -> CkWait("switch")
LEMMA CkTreeOps ==
  /\ TreeOps \in Seq({TreeOp(j) : j \in 1..12}) /\ Len(TreeOps) = 12
  /\ \A j \in 1..12 : TreeOps[j] = TreeOp(j)
<1> DEFINE o1 == TreeOp(1)  o2 == TreeOp(2)  o3 == TreeOp(3)  o4 == TreeOp(4)  o5 == TreeOp(5)
           o6 == TreeOp(6)  o7 == TreeOp(7)  o8 == TreeOp(8)  o9 == TreeOp(9)  o10 == TreeOp(10)
           o11 == TreeOp(11)  o12 == TreeOp(12)
           W == {TreeOp(j) : j \in 1..12}
           a == <<o1, o2, o3>>  b == <<o4, o5, o6>>  c == <<o7, o8, o9, o10, o11, o12>>
<1>1. TreeOps = (a \o b) \o c
  BY DEF TreeOps, configure_tree_inner, Prescalers, TreeOp
<1>2. /\ o1 \in W /\ o2 \in W /\ o3 \in W /\ o4 \in W /\ o5 \in W /\ o6 \in W /\ o7 \in W /\ o8 \in W
      /\ o9 \in W /\ o10 \in W /\ o11 \in W /\ o12 \in W
  OBVIOUS
<1> HIDE DEF o1, o2, o3, o4, o5, o6, o7, o8, o9, o10, o11, o12, W
<1>3. a \in Seq(W) /\ Len(a) = 3 /\ a[1] = o1 /\ a[2] = o2 /\ a[3] = o3
  BY <1>2
<1>4. b \in Seq(W) /\ Len(b) = 3 /\ b[1] = o4 /\ b[2] = o5 /\ b[3] = o6
  BY <1>2
<1>5. c \in Seq(W) /\ Len(c) = 6 /\ c[1] = o7 /\ c[2] = o8 /\ c[3] = o9 /\ c[4] = o10 /\ c[5] = o11 /\ c[6] = o12
  BY <1>2
<1> HIDE DEF a, b, c
<1> DEFINE d == a \o b
<1>6. d \in Seq(W) /\ Len(d) = 6 /\ d[1] = o1 /\ d[2] = o2 /\ d[3] = o3 /\ d[4] = o4 /\ d[5] = o5 /\ d[6] = o6
  <2>1. /\ d \in Seq(W) /\ Len(d) = 6
        /\ \A i \in 1..3 : d[i] = a[i]
        /\ \A i \in 1..3 : d[3 + i] = b[i]
    <3>1. /\ d \in Seq(W) /\ Len(d) = Len(a) + Len(b)
          /\ \A i \in 1..Len(a) : d[i] = a[i]
          /\ \A i \in 1..Len(b) : d[Len(a) + i] = b[i]
      <4>1. a \in Seq(W) /\ b \in Seq(W)
        BY <1>3, <1>4
      <4> QED BY <4>1, CkConcat, SMT
    <3> HIDE DEF d
    <3> QED BY <3>1, <1>3, <1>4
  <2> HIDE DEF d
  <2>2. d[3 + 1] = b[1] /\ d[3 + 2] = b[2] /\ d[3 + 3] = b[3]
    BY <2>1
  <2>3. d[1] = a[1] /\ d[2] = a[2] /\ d[3] = a[3]
    BY <2>1
  <2> QED BY <1>3, <1>4, <2>1, <2>2, <2>3
<1> HIDE DEF d
<1> DEFINE e == d \o c
<1>7. /\ e \in Seq(W) /\ Len(e) = 12 /\ \A j \in 1..6 : e[j] = d[j]
      /\ \A j \in 1..6 : e[6 + j] = c[j]
  <2>1. /\ e \in Seq(W) /\ Len(e) = Len(d) + Len(c)
        /\ \A i \in 1..Len(d) : e[i] = d[i]
        /\ \A i \in 1..Len(c) : e[Len(d) + i] = c[i]
    <3>1. c \in Seq(W) /\ d \in Seq(W)
      BY <1>5, <1>6
    <3> QED BY <3>1, CkConcat, SMT
  <2> HIDE DEF e
  <2> QED BY <2>1, <1>5, <1>6
<1> HIDE DEF e
<1>8. e[7] = o7 /\ e[8] = o8 /\ e[9] = o9 /\ e[10] = o10 /\ e[11] = o11 /\ e[12] = o12
  <2>1. e[6 + 1] = c[1] /\ e[6 + 2] = c[2] /\ e[6 + 3] = c[3] /\ e[6 + 4] = c[4] /\ e[6 + 5] = c[5] /\ e[6 + 6] = c[6]
    BY <1>7
  <2>2. 6 + 1 = 7 /\ 6 + 2 = 8 /\ 6 + 3 = 9 /\ 6 + 4 = 10 /\ 6 + 5 = 11 /\ 6 + 6 = 12
    OBVIOUS
  <2> QED BY <1>5, <2>1, <2>2
<1>9. e[1] = o1 /\ e[2] = o2 /\ e[3] = o3 /\ e[4] = o4 /\ e[5] = o5 /\ e[6] = o6
  BY <1>6, <1>7
<1> HIDE DEF e
<1>10. ASSUME NEW j \in 1..12 PROVE e[j] = TreeOp(j)
  BY <1>8, <1>9 DEF o1, o2, o3, o4, o5, o6, o7, o8, o9, o10, o11, o12
<1>11. TreeOps = e
  BY <1>1 DEF e, d
<1> QED BY <1>7, <1>10, <1>11 DEF W

\* A USART's bring-up, and a change of its rate, place by place.
LEMMA CkProgram ==
  \A label, baud, frame :
    LET ops == program(label, baud, frame) IN
    /\ Len(ops) = 6 /\ ops[1] = U("uen", FALSE) /\ ops[2] = Brr(label, baud)
    /\ ops[3] = U("frame", frame) /\ ops[4] = U("on", {"REN"})
    /\ ops[5] = U("on", {"TEN"}) /\ ops[6] = U("uen", TRUE)
<1> SUFFICES ASSUME NEW label, NEW baud, NEW frame
             PROVE  LET ops == program(label, baud, frame) IN
                    /\ Len(ops) = 6 /\ ops[1] = U("uen", FALSE) /\ ops[2] = Brr(label, baud)
                    /\ ops[3] = U("frame", frame) /\ ops[4] = U("on", {"REN"})
                    /\ ops[5] = U("on", {"TEN"}) /\ ops[6] = U("uen", TRUE)
  OBVIOUS
<1> DEFINE o1 == U("uen", FALSE)  o2 == Brr(label, baud)  o3 == U("frame", frame)
           o4 == U("on", {"REN"})  o5 == U("on", {"TEN"})  o6 == U("uen", TRUE)
           W == {o1, o2, o3, o4, o5, o6}
           a == <<o1, o2>>  b == <<o3, o4, o5>>  c == <<o6>>
<1>1. program(label, baud, frame) = (a \o b) \o c
  BY DEF program, Frame
<1>2. o1 \in W /\ o2 \in W /\ o3 \in W /\ o4 \in W /\ o5 \in W /\ o6 \in W
  OBVIOUS
<1> HIDE DEF o1, o2, o3, o4, o5, o6, W
<1>3. a \in Seq(W) /\ Len(a) = 2 /\ a[1] = o1 /\ a[2] = o2
  BY <1>2
<1>4. b \in Seq(W) /\ Len(b) = 3 /\ b[1] = o3 /\ b[2] = o4 /\ b[3] = o5
  BY <1>2
<1>5. c \in Seq(W) /\ Len(c) = 1 /\ c[1] = o6
  BY <1>2
<1> HIDE DEF a, b, c
<1> DEFINE d == a \o b
<1>6. d \in Seq(W) /\ Len(d) = 5 /\ d[1] = o1 /\ d[2] = o2 /\ d[3] = o3 /\ d[4] = o4 /\ d[5] = o5
  <2>1. /\ d \in Seq(W) /\ Len(d) = 5
        /\ \A i \in 1..2 : d[i] = a[i]
        /\ \A i \in 1..3 : d[2 + i] = b[i]
    <3>1. /\ d \in Seq(W) /\ Len(d) = Len(a) + Len(b)
          /\ \A i \in 1..Len(a) : d[i] = a[i]
          /\ \A i \in 1..Len(b) : d[Len(a) + i] = b[i]
      <4>1. a \in Seq(W) /\ b \in Seq(W)
        BY <1>3, <1>4
      <4> QED BY <4>1, CkConcat, SMT
    <3> HIDE DEF d
    <3> QED BY <3>1, <1>3, <1>4
  <2> HIDE DEF d
  <2>2. d[2 + 1] = b[1] /\ d[2 + 2] = b[2] /\ d[2 + 3] = b[3]
    BY <2>1
  <2>3. d[1] = a[1] /\ d[2] = a[2]
    BY <2>1
  <2> QED BY <1>3, <1>4, <2>1, <2>2, <2>3
<1> HIDE DEF d
<1> DEFINE e == d \o c
<1>7. /\ e \in Seq(W) /\ Len(e) = 6 /\ \A j \in 1..5 : e[j] = d[j]
      /\ \A j \in 1..1 : e[5 + j] = c[j]
  <2>1. /\ e \in Seq(W) /\ Len(e) = Len(d) + Len(c)
        /\ \A i \in 1..Len(d) : e[i] = d[i]
        /\ \A i \in 1..Len(c) : e[Len(d) + i] = c[i]
    <3>1. c \in Seq(W) /\ d \in Seq(W)
      BY <1>5, <1>6
    <3> QED BY <3>1, CkConcat, SMT
  <2> HIDE DEF e
  <2> QED BY <2>1, <1>5, <1>6
<1>9. program(label, baud, frame) = e
  BY <1>1 DEF e, d
<1> HIDE DEF e
<1>8. e[5 + 1] = c[1]
  BY <1>7
<1>10. e[1] = o1 /\ e[2] = o2 /\ e[3] = o3 /\ e[4] = o4 /\ e[5] = o5 /\ e[6] = o6
  BY <1>5, <1>6, <1>7, <1>8
<1> QED BY <1>7, <1>9, <1>10 DEF o1, o2, o3, o4, o5, o6
LEMMA CkBaud ==
  \A label, baud :
    LET ops == set_baud(label, baud) IN
    Len(ops) = 3 /\ ops[1] = U("uen", FALSE) /\ ops[2] = Brr(label, baud) /\ ops[3] = U("uen", TRUE)
<1> SUFFICES ASSUME NEW label, NEW baud
             PROVE  LET ops == set_baud(label, baud) IN
                    Len(ops) = 3 /\ ops[1] = U("uen", FALSE) /\ ops[2] = Brr(label, baud) /\ ops[3] = U("uen", TRUE)
  OBVIOUS
<1> DEFINE o1 == U("uen", FALSE)  o2 == Brr(label, baud)  o3 == U("uen", TRUE)  W == {o1, o2, o3}
<1>1. set_baud(label, baud) = <<o1, o2, o3>>
  BY DEF set_baud
<1>2. o1 \in W /\ o2 \in W /\ o3 \in W
  OBVIOUS
<1> HIDE DEF W, o1, o2, o3
<1>3. <<o1, o2, o3>> \in Seq(W) /\ Len(<<o1, o2, o3>>) = 3
  BY <1>2
<1> HIDE DEF W
<1> DEFINE ops == set_baud(label, baud)
<1>4. ops \in Seq(W) /\ Len(ops) = 3 /\ ops[1] = o1 /\ ops[2] = o2 /\ ops[3] = o3
  BY <1>1, <1>3
<1> QED BY <1>4 DEF o1, o2, o3

\* Both are lists.
LEMMA CkLists ==
  /\ \A label, baud, frame : \E W : program(label, baud, frame) \in Seq(W)
  /\ \A label, baud : \E W : set_baud(label, baud) \in Seq(W)
<1>1. ASSUME NEW label, NEW baud, NEW frame PROVE \E W : program(label, baud, frame) \in Seq(W)
  <2> DEFINE o2 == Brr(label, baud)  o3 == U("frame", frame)
             W == {U("uen", FALSE), o2, o3, U("on", {"REN"}), U("on", {"TEN"}), U("uen", TRUE)}
             a == <<U("uen", FALSE), o2>>  b == <<o3, U("on", {"REN"}), U("on", {"TEN"})>>  c == <<U("uen", TRUE)>>
  <2>1. a \in Seq(W) /\ b \in Seq(W) /\ c \in Seq(W)
    <3> HIDE DEF o2, o3
    <3> QED OBVIOUS
  <2>2. program(label, baud, frame) = (a \o b) \o c
    BY DEF program, Frame
  <2> HIDE DEF a, b, c, W
  <2>3. (a \o b) \o c \in Seq(W)
    BY <2>1
  <2> QED BY <2>2, <2>3
<1>2. ASSUME NEW label, NEW baud PROVE \E W : set_baud(label, baud) \in Seq(W)
  <2> DEFINE o2 == Brr(label, baud)  W == {U("uen", FALSE), o2, U("uen", TRUE)}
  <2>1. set_baud(label, baud) = <<U("uen", FALSE), o2, U("uen", TRUE)>>
    BY DEF set_baud
  <2> HIDE DEF o2
  <2>2. <<U("uen", FALSE), o2, U("uen", TRUE)>> \in Seq(W)
    OBVIOUS
  <2> QED BY <2>1, <2>2
<1> QED BY <1>1, <1>2

\* The same for the request under way.
LEMMA CkProgramOps ==
  /\ Len(ProgramOps) = 6 /\ ProgramOps[1] = U("uen", FALSE)
  /\ ProgramOps[2] = Brr(ckUsart.label, ckUsart.want.baud)
  /\ ProgramOps[3] = U("frame", ckUsart.want.frame) /\ ProgramOps[4] = U("on", {"REN"})
  /\ ProgramOps[5] = U("on", {"TEN"}) /\ ProgramOps[6] = U("uen", TRUE)
<1> DEFINE p == program(ckUsart.label, ckUsart.want.baud, ckUsart.want.frame)
<1>1. Len(p) = 6
  BY CkProgram
<1>2. p[1] = U("uen", FALSE)
  BY CkProgram DEF U
<1>3. p[2] = Brr(ckUsart.label, ckUsart.want.baud)
  BY CkProgram
<1>4. p[3] = U("frame", ckUsart.want.frame)
  BY CkProgram
<1>5. p[4] = U("on", {"REN"})
  BY CkProgram
<1>6. p[5] = U("on", {"TEN"})
  BY CkProgram
<1>7. p[6] = U("uen", TRUE)
  BY CkProgram DEF U
<1>8. ProgramOps = p
  BY DEF ProgramOps
<1> HIDE DEF p
<1> QED BY <1>1, <1>2, <1>3, <1>4, <1>5, <1>6, <1>7, <1>8
LEMMA CkBaudOps ==
  /\ Len(BaudOps) = 3 /\ BaudOps[1] = U("uen", FALSE)
  /\ BaudOps[2] = Brr(ckUsart.label, ckUsart.want.baud) /\ BaudOps[3] = U("uen", TRUE)
<1> DEFINE p == set_baud(ckUsart.label, ckUsart.want.baud)
<1>1. Len(p) = 3
  BY CkBaud
<1>2. p[1] = U("uen", FALSE)
  BY CkBaud
<1>3. p[2] = Brr(ckUsart.label, ckUsart.want.baud)
  BY CkBaud
<1>4. p[3] = U("uen", TRUE)
  BY CkBaud
<1>5. BaudOps = p
  BY DEF BaudOps
<1> HIDE DEF p
<1> QED BY <1>1, <1>2, <1>3, <1>4, <1>5

---------------------------------------------------------------------------
(* The encodings. *)

\* A valid target's fields are legal.
LEMMA CkLegal ==
  ASSUME CkTypes, Valid
  PROVE  /\ Profile.mul \in 2..32
         /\ Profile.ahb \in {1, 2, 4, 8, 16, 64, 128, 256, 512}
         /\ Profile.apb1 \in {1, 2, 4, 8, 16} /\ Profile.apb2 \in {1, 2, 4, 8, 16}
<1>1. Profile \in CkProfiles /\ Profile.mul \in 0..255
  BY CkAssumption DEF CkTypes, Profile
<1>2. ~(Profile.mul < 2 \/ Profile.mul > 32)
  BY DEF Valid, validate_for
<1>3. Profile.mul \in 2..32
  BY <1>1, <1>2
<1>4. is_legal_ahb_psc(Profile.ahb) /\ is_legal_apb_psc(Profile.apb1) /\ is_legal_apb_psc(Profile.apb2)
  BY <1>2, <1>3 DEF Valid, validate_for
<1> QED BY <1>3, <1>4 DEF is_legal_ahb_psc, is_legal_apb_psc

\* The AHB code of a legal divisor divides by it.
LEMMA CkAhb ==
  ASSUME NEW d \in {1, 2, 4, 8, 16, 64, 128, 256, 512}
  PROVE  ahb_psc_bits(d) \in {0} \cup 8..15 /\ AhbDiv(ahb_psc_bits(d)) = d
<1> DEFINE P(code) == d = CASE code = 0 -> 1 [] code \in 8..11 -> 2^(code - 7) [] OTHER -> 2^(code - 6)
<1>1. \E code \in {0} \cup 8..15 : P(code)
  <2>1. CASE d = 1
    <3>1. P(0)
      BY <2>1
    <3> QED BY <3>1
  <2>2. CASE d = 2
    <3>1. P(8)
      BY <2>2
    <3> QED BY <3>1
  <2>3. CASE d = 4
    <3>1. P(9)
      BY <2>3
    <3> QED BY <3>1
  <2>4. CASE d = 8
    <3>1. P(10)
      BY <2>4
    <3> QED BY <3>1
  <2>5. CASE d = 16
    <3>1. P(11)
      BY <2>5
    <3> QED BY <3>1
  <2>6. CASE d = 64
    <3>1. P(12)
      BY <2>6
    <3> QED BY <3>1
  <2>7. CASE d = 128
    <3>1. P(13)
      BY <2>7
    <3> QED BY <3>1
  <2>8. CASE d = 256
    <3>1. P(14)
      BY <2>8
    <3> QED BY <3>1
  <2>9. CASE d = 512
    <3>1. P(15)
      BY <2>9
    <3> QED BY <3>1
  <2> QED BY <2>1, <2>2, <2>3, <2>4, <2>5, <2>6, <2>7, <2>8, <2>9
<1> DEFINE c == ahb_psc_bits(d)
<1>2. c \in {0} \cup 8..15 /\ P(c)
  <2>1. c = CHOOSE code \in {0} \cup 8..15 : P(code)
    BY DEF ahb_psc_bits
  <2> HIDE DEF c, P
  <2> QED BY <1>1, <2>1
<1> HIDE DEF c
<1>3. AhbDiv(c) = d
  <2>1. c = 0 \/ c = 8 \/ c = 9 \/ c = 10 \/ c = 11 \/ c = 12 \/ c = 13 \/ c = 14 \/ c = 15
    BY <1>2
  <2>2. CASE c = 0
    BY <1>2, <2>2 DEF AhbDiv
  <2>3. CASE c = 8
    BY <1>2, <2>3 DEF AhbDiv
  <2>4. CASE c = 9
    BY <1>2, <2>4 DEF AhbDiv
  <2>5. CASE c = 10
    BY <1>2, <2>5 DEF AhbDiv
  <2>6. CASE c = 11
    BY <1>2, <2>6 DEF AhbDiv
  <2>7. CASE c = 12
    BY <1>2, <2>7 DEF AhbDiv
  <2>8. CASE c = 13
    BY <1>2, <2>8 DEF AhbDiv
  <2>9. CASE c = 14
    BY <1>2, <2>9 DEF AhbDiv
  <2>10. CASE c = 15
    BY <1>2, <2>10 DEF AhbDiv
  <2> QED BY <2>1, <2>2, <2>3, <2>4, <2>5, <2>6, <2>7, <2>8, <2>9, <2>10
<1> QED BY <1>2, <1>3 DEF c

\* The same for an APB.
LEMMA CkApb ==
  ASSUME NEW d \in {1, 2, 4, 8, 16}
  PROVE  apb_psc_code(d) \in {0} \cup 4..7 /\ ApbDiv(apb_psc_code(d)) = d
<1> DEFINE P(code) == d = IF code = 0 THEN 1 ELSE 2^(code - 3)
<1>1. \E code \in {0} \cup 4..7 : P(code)
  <2>1. CASE d = 1
    <3>1. P(0)
      BY <2>1
    <3> QED BY <3>1
  <2>2. CASE d = 2
    <3>1. P(4)
      BY <2>2
    <3> QED BY <3>1
  <2>3. CASE d = 4
    <3>1. P(5)
      BY <2>3
    <3> QED BY <3>1
  <2>4. CASE d = 8
    <3>1. P(6)
      BY <2>4
    <3> QED BY <3>1
  <2>5. CASE d = 16
    <3>1. P(7)
      BY <2>5
    <3> QED BY <3>1
  <2> QED BY <2>1, <2>2, <2>3, <2>4, <2>5
<1> DEFINE c == apb_psc_code(d)
<1>2. c \in {0} \cup 4..7 /\ P(c)
  <2>1. c = CHOOSE code \in {0} \cup 4..7 : P(code)
    BY DEF apb_psc_code
  <2> HIDE DEF c, P
  <2> QED BY <1>1, <2>1
<1> HIDE DEF c
<1>3. ApbDiv(c) = d
  BY <1>2 DEF ApbDiv
<1> QED BY <1>2, <1>3 DEF c

\* Every code divides by a natural number, and zero by one.
LEMMA CkDivs ==
  /\ \A c \in {0} \cup 8..15 : AhbDiv(c) \in Nat /\ AhbDiv(c) > 0
  /\ \A c \in {0} \cup 4..7 : ApbDiv(c) \in Nat /\ ApbDiv(c) > 0
  /\ AhbDiv(0) = 1 /\ ApbDiv(0) = 1
<1>1. ASSUME NEW c \in {0} \cup 8..15 PROVE AhbDiv(c) \in Nat /\ AhbDiv(c) > 0
  BY DEF AhbDiv
<1>2. ASSUME NEW c \in {0} \cup 4..7 PROVE ApbDiv(c) \in Nat /\ ApbDiv(c) > 0
  <2>1. c = 0 \/ c = 4 \/ c = 5 \/ c = 6 \/ c = 7
    OBVIOUS
  <2>2. CASE c = 0
    BY <2>2 DEF ApbDiv
  <2>3. CASE c = 4
    BY <2>3 DEF ApbDiv
  <2>4. CASE c = 5
    BY <2>4 DEF ApbDiv
  <2>5. CASE c = 6
    BY <2>5 DEF ApbDiv
  <2>6. CASE c = 7
    BY <2>6 DEF ApbDiv
  <2> QED BY <2>1, <2>2, <2>3, <2>4, <2>5, <2>6
<1>3. AhbDiv(0) = 1 /\ ApbDiv(0) = 1
  BY DEF AhbDiv, ApbDiv
<1> QED BY <1>1, <1>2, <1>3

\* The PLL multiplies by a legal factor's code.
LEMMA CkPll ==
  ASSUME NEW m \in 2..32
  PROVE  pll_mul_bits(m) \in 0..31 /\ PllMul(pll_mul_bits(m)) = m
<1>1. CASE m \in 2..16
  BY <1>1 DEF pll_mul_bits, PllMul
<1>2. CASE m \in 17..32
  <2>1. pll_mul_bits(m) = 16 + (m - 17)
    BY <1>2 DEF pll_mul_bits
  <2>2. 16 + (m - 17) = m - 1 /\ ~(m - 1 <= 14) /\ m - 1 # 15
    BY <1>2
  <2> QED BY <1>2, <2>1, <2>2 DEF PllMul
<1> QED BY <1>1, <1>2

\* What the target writes fits its fields.
LEMMA CkWritten ==
  ASSUME CkTypes, Valid
  PROVE  /\ wait_states_for(ckTarget.path, Profile.sysclk) \in 0..7 /\ Profile.source \in {"Irc8m", "Hxtal"}
         /\ ahb_psc_bits(Profile.ahb) \in {0} \cup 8..15
         /\ apb_psc_code(Profile.apb1) \in {0} \cup 4..7 /\ apb_psc_code(Profile.apb2) \in {0} \cup 4..7
         /\ pll_mul_bits(Profile.mul) \in 0..31
<1>1. Profile.source \in {"Irc8m", "Hxtal"}
  BY CkAssumption DEF CkTypes, Profile
<1>2. wait_states_for(ckTarget.path, Profile.sysclk) \in 0..7
  BY DEF wait_states_for
<1> QED BY <1>1, <1>2, CkLegal, CkAhb, CkApb, CkPll

---------------------------------------------------------------------------
(* The steps of a call. *)

\* The target stays, and with it the bring-up it asks for.
LEMMA CkTargetKept ==
  ASSUME UNCHANGED ckTarget
  PROVE  Profile' = Profile /\ Valid' = Valid /\ TreeOps' = TreeOps
BY DEF Profile, Valid, TreeOps

\* Nothing is left between two calls; a register operation or a wait is the
\* bring-up's, a USART's is a program's or a change of rate's.
LEMMA CkBetween ==
  ASSUME CkIInv, ckCode = << >>
  PROVE  ckResult # "running"
<1>1. ASSUME NEW k \in 0..11, CkTreeAt(k) PROVE FALSE
  <2>1. CkAhead(ckCode, TreeOps, k) /\ Len(TreeOps) = 12
    BY <1>1, CkTreeOps DEF CkTreeAt
  <2>2. Len(ckCode) = 12 - k
    BY <2>1 DEF CkAhead
  <2>3. Len(ckCode) = 0
    BY EmptySeq
  <2> QED BY <2>2, <2>3
<1> QED BY <1>1 DEF CkIInv, CkCodeInv

LEMMA CkUsartHead ==
  ASSUME CkCodeInv, ckCode # << >>, ckResult # "running"
  PROVE  /\ ckCount.programs > 0 /\ ckCode[1].op = "usart"
         /\ \/ \E k \in 0..5 :
                 /\ CkProgramAt(k) /\ ckCode[1] = ProgramOps[k + 1]
                 /\ CkAhead(Tail(ckCode), ProgramOps, k + 1) /\ (Tail(ckCode) = << >> <=> k = 5)
            \/ \E k \in 0..2 :
                 /\ CkBaudAt(k) /\ ckCode[1] = BaudOps[k + 1]
                 /\ CkAhead(Tail(ckCode), BaudOps, k + 1) /\ (Tail(ckCode) = << >> <=> k = 2)
<1>1. ckCount.programs > 0 /\ ((\E k \in 0..5 : CkProgramAt(k)) \/ (\E k \in 0..2 : CkBaudAt(k)))
  BY DEF CkCodeInv
<1>2. ASSUME NEW k \in 0..5, CkProgramAt(k)
      PROVE  /\ ckCode[1] = ProgramOps[k + 1] /\ ckCode[1].op = "usart"
             /\ CkAhead(Tail(ckCode), ProgramOps, k + 1) /\ (Tail(ckCode) = << >> <=> k = 5)
  <2>1. CkAhead(ckCode, ProgramOps, k) /\ Len(ProgramOps) = 6
    BY <1>2, CkProgramOps DEF CkProgramAt
  <2>5. k \in Nat /\ k < Len(ProgramOps) /\ Len(ProgramOps) \in Nat
    BY <2>1
  <2>6. CkAhead(Tail(ckCode), ProgramOps, k + 1)
    BY <2>1, <2>5, CkAheadStep, Zenon
  <2>7. Tail(ckCode) = << >> <=> k + 1 = Len(ProgramOps)
    BY <2>1, <2>5, CkAheadStep, Zenon
  <2>8. ckCode[1] = ProgramOps[k + 1] /\ Len(ckCode) = Len(ProgramOps) - k
    BY <2>1, <2>5, 1 + k = k + 1 DEF CkAhead
  <2>3. k = 0 \/ k = 1 \/ k = 2 \/ k = 3 \/ k = 4 \/ k = 5
    OBVIOUS
  <2>4. ProgramOps[k + 1].op = "usart"
    BY <2>3, CkProgramOps DEF U, Brr
  <2> QED BY <2>1, <2>6, <2>7, <2>8, <2>4
<1>3. ASSUME NEW k \in 0..2, CkBaudAt(k)
      PROVE  /\ ckCode[1] = BaudOps[k + 1] /\ ckCode[1].op = "usart"
             /\ CkAhead(Tail(ckCode), BaudOps, k + 1) /\ (Tail(ckCode) = << >> <=> k = 2)
  <2>1. CkAhead(ckCode, BaudOps, k) /\ Len(BaudOps) = 3
    BY <1>3, CkBaudOps DEF CkBaudAt
  <2>5. k \in Nat /\ k < Len(BaudOps) /\ Len(BaudOps) \in Nat
    BY <2>1
  <2>6. CkAhead(Tail(ckCode), BaudOps, k + 1)
    BY <2>1, <2>5, CkAheadStep, Zenon
  <2>7. Tail(ckCode) = << >> <=> k + 1 = Len(BaudOps)
    BY <2>1, <2>5, CkAheadStep, Zenon
  <2>8. ckCode[1] = BaudOps[k + 1] /\ Len(ckCode) = Len(BaudOps) - k
    BY <2>1, <2>5, 1 + k = k + 1 DEF CkAhead
  <2>3. k = 0 \/ k = 1 \/ k = 2
    OBVIOUS
  <2>4. BaudOps[k + 1].op = "usart"
    BY <2>3, CkBaudOps DEF U, Brr
  <2> QED BY <2>1, <2>6, <2>7, <2>8, <2>4
<1> QED BY <1>1, <1>2, <1>3

LEMMA CkTreeHead ==
  ASSUME CkCodeInv, ckCode # << >>, ckResult = "running" \/ ckCode[1].op # "usart"
  PROVE  /\ ckResult = "running" /\ ckCount.programs = 0 /\ ckCount.calls > 0 /\ Valid
         /\ \E k \in 0..11 :
              /\ CkTreeAt(k) /\ ckCode[1] = TreeOp(k + 1) /\ Len(ckCode) = 12 - k
              /\ CkAhead(Tail(ckCode), TreeOps, k + 1) /\ (Tail(ckCode) = << >> <=> k = 11)
<1>1. /\ ckResult = "running" /\ ckCount.programs = 0 /\ ckCount.calls > 0 /\ Valid
      /\ \E k \in 0..11 : CkTreeAt(k)
  BY CkUsartHead DEF CkCodeInv
<1>2. ASSUME NEW k \in 0..11, CkTreeAt(k)
      PROVE  /\ ckCode[1] = TreeOp(k + 1) /\ Len(ckCode) = 12 - k
             /\ CkAhead(Tail(ckCode), TreeOps, k + 1) /\ (Tail(ckCode) = << >> <=> k = 11)
  <2>1. CkAhead(ckCode, TreeOps, k) /\ Len(TreeOps) = 12 /\ TreeOps[k + 1] = TreeOp(k + 1)
    BY <1>2, CkTreeOps DEF CkTreeAt
  <2>5. k \in Nat /\ k < Len(TreeOps) /\ Len(TreeOps) \in Nat
    BY <2>1
  <2>6. CkAhead(Tail(ckCode), TreeOps, k + 1)
    BY <2>1, <2>5, CkAheadStep, Zenon
  <2>7. Tail(ckCode) = << >> <=> k + 1 = Len(TreeOps)
    BY <2>1, <2>5, CkAheadStep, Zenon
  <2>8. ckCode[1] = TreeOps[k + 1] /\ Len(ckCode) = Len(TreeOps) - k
    BY <2>1, <2>5, 1 + k = k + 1 DEF CkAhead
  <2> QED BY <2>1, <2>6, <2>7, <2>8
<1> QED BY <1>1, <1>2

\* A call starts.
LEMMA CkConfigureTree ==
  ASSUME CkIInv, NEW budget \in {{}, {CkBudget}}, ConfigureTree(budget)
  PROVE  CkIInv'
<1>1. /\ ckCode = << >> /\ ckResult # "Ok" /\ ckCount.programs = 0
      /\ ckCount' = [ckCount EXCEPT !.calls = @ + 1]
      /\ UNCHANGED <<ckTarget, ckRcu, ckStat, ckUsart>>
  BY DEF ConfigureTree
<1>2. Profile' = Profile /\ Valid' = Valid /\ TreeOps' = TreeOps
  BY <1>1, CkTargetKept
<1>3. CkTypes /\ CkSilicon /\ CkTreeInv /\ CkUsartInv
  BY DEF CkIInv
<1>4. ckCount' \in [calls : Nat, programs : Nat] /\ ckCount'.calls = ckCount.calls + 1 /\ ckCount'.programs = 0
  BY <1>1, <1>3 DEF CkTypes
<1>5. CkSilicon'
  BY <1>1, <1>2, <1>3 DEF CkSilicon, Waits, Divided, Fed, Multiplied
<1>6. CkUsartInv'
  BY <1>1, <1>3, <1>4 DEF CkUsartInv
<1>7. CASE Valid
  <2>1. ckCode' = TreeOps /\ ckResult' = "running" /\ ckLeft' = budget
    BY <1>7 DEF ConfigureTree, Valid, Profile, TreeOps
  <2>2. CkTypes'
    <3>1. ckLeft' \in {{}} \cup {{n} : n \in 0..CkBudget}
      BY <2>1, CkAssumption
    <3> QED BY <1>1, <1>3, <1>4, <2>1, <3>1 DEF CkTypes
  <2>3. CkTreeAt(0)'
    <3>1. CkAhead(TreeOps, TreeOps, 0)
      BY CkTreeOps, CkAheadAll
    <3>2. ckCount'.calls = 1 => Undivided
      BY <1>3, <1>4 DEF CkTreeInv, CkTypes, Untouched
    <3> QED BY <1>1, <1>2, <2>1, <3>1, <3>2 DEF CkTreeAt, Undivided
  <2>4. CkCodeInv'
    BY <1>2, <1>3, <1>4, <1>7, <2>1, <2>3 DEF CkCodeInv, CkTypes
  <2>5. CkTreeInv'
    BY <1>1, <1>2, <1>3, <1>4, <1>7, <2>1 DEF CkTreeInv, CkTypes, CkRefusals
  <2> QED BY <1>5, <1>6, <2>2, <2>4, <2>5 DEF CkIInv
<1>8. CASE ~Valid
  <2>1. ckResult' \in CkRefusals /\ UNCHANGED <<ckCode, ckLeft>>
    <3>1. /\ ckResult' = validate_for(ckTarget.path, ckTarget.profile) /\ UNCHANGED <<ckCode, ckLeft>>
          /\ validate_for(ckTarget.path, ckTarget.profile) # "Ok"
      BY <1>8 DEF ConfigureTree, Valid, Profile
    <3>2. ckTarget.profile.mul \in 0..255
      BY <1>3, CkAssumption DEF CkTypes
    <3>3. CASE ckTarget.profile.mul < 2 \/ ckTarget.profile.mul > 32
      <4>1. ~(ckTarget.profile.mul \in 2..32)
        BY <3>2, <3>3
      <4> QED BY <3>1, <3>3, <4>1 DEF validate_for, CkRefusals
    <3>4. CASE ~(ckTarget.profile.mul < 2 \/ ckTarget.profile.mul > 32)
      <4>1. ckTarget.profile.mul \in 2..32
        BY <3>2, <3>4
      <4> QED BY <3>1, <3>4, <4>1 DEF validate_for, CkRefusals
    <3> QED BY <3>3, <3>4
  <2>2. CkTypes'
    BY <1>1, <1>3, <1>4, <2>1 DEF CkTypes
  <2>3. CkCodeInv'
    BY <1>1, <2>1 DEF CkCodeInv, CkRefusals
  <2>4. CkTreeInv'
    BY <1>1, <1>2, <1>3, <1>4, <1>8, <2>1 DEF CkTreeInv, CkTypes, CkRefusals, Untouched, Undivided
  <2> QED BY <1>5, <1>6, <2>2, <2>3, <2>4 DEF CkIInv
<1> QED BY <1>7, <1>8

\* A step of the bring-up that is not its last keeps what is known of the
\* tree and of the USART.
LEMMA CkTreeOn ==
  ASSUME CkIInv, ckCode # << >>, ckCode[1].op # "usart", NEW k \in 0..10, CkTreeAt(k + 1)',
         CkTypes', CkSilicon', UNCHANGED <<ckTarget, ckResult, ckUsart, ckCount>>,
         ckStat \subseteq ckStat'
  PROVE  CkIInv'
<1>1. ckResult = "running" /\ ckCount.programs = 0 /\ ckCount.calls > 0 /\ Valid
  BY CkTreeHead DEF CkIInv
<1>2. Valid' = Valid
  BY CkTargetKept
<1>3. k + 1 \in 0..11
  OBVIOUS
<1>4. CkCodeInv'
  BY <1>1, <1>2, <1>3 DEF CkCodeInv
<1>5. CkTreeInv'
  BY <1>1, <1>2 DEF CkTreeInv, CkIInv, CkRefusals
<1>6. CkUsartInv'
  BY <1>1 DEF CkUsartInv, CkIInv
<1> QED BY <1>4, <1>5, <1>6 DEF CkIInv

\* Each field has been written with what the target asks for.
LEMMA CkWriteRcu ==
  ASSUME CkIInv, WriteRcu
  PROVE  CkIInv'
<1> DEFINE w == ckCode[1]
<1>1. /\ ckCode # << >> /\ w.op = "rcu" /\ ckCode' = Tail(ckCode)
      /\ UNCHANGED <<ckTarget, ckStat, ckLeft, ckResult, ckUsart, ckCount>>
      /\ ckRcu' = CASE w.field = "en" -> [ckRcu EXCEPT !.en = @ \cup w.value]
                    [] Locked(w.field) -> ckRcu
                    [] OTHER -> [ckRcu EXCEPT ![w.field] = w.value]
  BY DEF WriteRcu, Doing, Advance
<1>2. CkTypes /\ CkSilicon /\ CkCodeInv
  BY DEF CkIInv
<1>3. Profile' = Profile /\ Valid' = Valid /\ TreeOps' = TreeOps
  BY <1>1, CkTargetKept
<1>4. PICK k \in 0..11 : /\ CkTreeAt(k) /\ ckCode[1] = TreeOp(k + 1)
                         /\ CkAhead(Tail(ckCode), TreeOps, k + 1)
  BY <1>1, <1>2, CkTreeHead
<1>5. ckResult = "running" /\ Valid
  BY <1>1, <1>2, CkTreeHead
<1>6. /\ wait_states_for(ckTarget.path, Profile.sysclk) \in 0..7 /\ Profile.source \in {"Irc8m", "Hxtal"}
      /\ ahb_psc_bits(Profile.ahb) \in {0} \cup 8..15
      /\ apb_psc_code(Profile.apb1) \in {0} \cup 4..7 /\ apb_psc_code(Profile.apb2) \in {0} \cup 4..7
      /\ pll_mul_bits(Profile.mul) \in 0..31
  BY <1>2, <1>5, CkWritten
<1>7. /\ ckRcu \in CkRcuSet
      /\ "switch" \in ckStat => ckRcu.scs = "pll"
      /\ ckRcu.scs = "pll" => "pll" \in ckStat
      /\ "pll" \in ckStat => "pll" \in ckRcu.en
      /\ "pll" \in ckRcu.en => Waits /\ Divided /\ Fed /\ Multiplied
  BY <1>2 DEF CkTypes, CkSilicon
<1>8. CkAhead(ckCode', TreeOps', k + 1)
  BY <1>1, <1>3, <1>4
<1>9. \/ k = 0 \/ k = 1 \/ k = 2 \/ k = 3 \/ k = 4 \/ k = 5 \/ k = 6 \/ k = 7 \/ k = 8
      \/ k = 9 \/ k = 10 \/ k = 11
  OBVIOUS
<1>10. CASE k = 0
  <2>1. w.op = "rcu" /\ w.field = "ws" /\ w.value = wait_states_for(ckTarget.path, Profile.sysclk)
    BY <1>4, <1>10 DEF TreeOp, Set
  <2>2. ckRcu' = [ckRcu EXCEPT !.ws = wait_states_for(ckTarget.path, Profile.sysclk)]
    BY <1>1, <2>1 DEF Locked
  <2>3. /\ ckRcu' \in CkRcuSet /\ ckRcu'.ws = wait_states_for(ckTarget.path, Profile.sysclk)
        /\ ckRcu'.en = ckRcu.en /\ ckRcu'.ahb = ckRcu.ahb /\ ckRcu'.apb1 = ckRcu.apb1 /\ ckRcu'.apb2 = ckRcu.apb2 /\ ckRcu'.sel = ckRcu.sel /\ ckRcu'.mf = ckRcu.mf /\ ckRcu'.scs = ckRcu.scs
    BY <1>6, <1>7, <2>2 DEF CkRcuSet
  <2>4. CkTypes'
    BY <1>1, <1>2, <2>3 DEF CkTypes
  <2>5. CkSilicon'
    BY <1>1, <1>3, <1>4, <1>5, <1>6, <1>7, <2>3, <1>10 DEF CkTreeAt, CkSilicon, Waits, Divided, Fed, Multiplied
  <2>6. CkTreeAt(1)'
    BY <1>1, <1>3, <1>4, <1>7, <1>8, <2>3, <1>10 DEF CkTreeAt, Waits, Fed, Multiplied, Undivided
  <2> QED BY <1>1, <1>10, <2>4, <2>5, <2>6, CkTreeOn
<1>11. CASE k = 1
  <2>1. w.op = "rcu" /\ w.field = "en" /\ w.value = {Profile.source}
    BY <1>4, <1>11 DEF TreeOp, Set
  <2>2. ckRcu' = [ckRcu EXCEPT !.en = @ \cup {Profile.source}]
    BY <1>1, <2>1 DEF Locked
  <2>3. /\ ckRcu' \in CkRcuSet /\ ckRcu'.en = ckRcu.en \cup {Profile.source}
        /\ ckRcu'.ws = ckRcu.ws /\ ckRcu'.ahb = ckRcu.ahb /\ ckRcu'.apb1 = ckRcu.apb1 /\ ckRcu'.apb2 = ckRcu.apb2 /\ ckRcu'.sel = ckRcu.sel /\ ckRcu'.mf = ckRcu.mf /\ ckRcu'.scs = ckRcu.scs
    BY <1>6, <1>7, <2>2 DEF CkRcuSet
  <2>4. CkTypes'
    BY <1>1, <1>2, <2>3 DEF CkTypes
  <2>5. CkSilicon'
    BY <1>1, <1>3, <1>4, <1>5, <1>6, <1>7, <2>3, <1>11 DEF CkTreeAt, CkSilicon, Waits, Divided, Fed, Multiplied
  <2>6. CkTreeAt(2)'
    BY <1>1, <1>3, <1>4, <1>7, <1>8, <2>3, <1>11 DEF CkTreeAt, Waits, Fed, Multiplied, Undivided
  <2> QED BY <1>1, <1>11, <2>4, <2>5, <2>6, CkTreeOn
<1>12. CASE k = 3
  <2>1. w.op = "rcu" /\ w.field = "ahb" /\ w.value = ahb_psc_bits(Profile.ahb)
    BY <1>4, <1>12 DEF TreeOp, Set
  <2>2. ckRcu' = [ckRcu EXCEPT !.ahb = ahb_psc_bits(Profile.ahb)]
    BY <1>1, <2>1 DEF Locked
  <2>3. /\ ckRcu' \in CkRcuSet /\ ckRcu'.ahb = ahb_psc_bits(Profile.ahb)
        /\ ckRcu'.ws = ckRcu.ws /\ ckRcu'.en = ckRcu.en /\ ckRcu'.apb1 = ckRcu.apb1 /\ ckRcu'.apb2 = ckRcu.apb2 /\ ckRcu'.sel = ckRcu.sel /\ ckRcu'.mf = ckRcu.mf /\ ckRcu'.scs = ckRcu.scs
    BY <1>6, <1>7, <2>2 DEF CkRcuSet
  <2>4. CkTypes'
    BY <1>1, <1>2, <2>3 DEF CkTypes
  <2>5. CkSilicon'
    BY <1>1, <1>3, <1>4, <1>5, <1>6, <1>7, <2>3, <1>12 DEF CkTreeAt, CkSilicon, Waits, Divided, Fed, Multiplied
  <2>6. CkTreeAt(4)'
    BY <1>1, <1>3, <1>4, <1>7, <1>8, <2>3, <1>12 DEF CkTreeAt, Waits, Fed, Multiplied, Undivided
  <2> QED BY <1>1, <1>12, <2>4, <2>5, <2>6, CkTreeOn
<1>13. CASE k = 4
  <2>1. w.op = "rcu" /\ w.field = "apb2" /\ w.value = apb_psc_code(Profile.apb2)
    BY <1>4, <1>13 DEF TreeOp, Set
  <2>2. ckRcu' = [ckRcu EXCEPT !.apb2 = apb_psc_code(Profile.apb2)]
    BY <1>1, <2>1 DEF Locked
  <2>3. /\ ckRcu' \in CkRcuSet /\ ckRcu'.apb2 = apb_psc_code(Profile.apb2)
        /\ ckRcu'.ws = ckRcu.ws /\ ckRcu'.en = ckRcu.en /\ ckRcu'.ahb = ckRcu.ahb /\ ckRcu'.apb1 = ckRcu.apb1 /\ ckRcu'.sel = ckRcu.sel /\ ckRcu'.mf = ckRcu.mf /\ ckRcu'.scs = ckRcu.scs
    BY <1>6, <1>7, <2>2 DEF CkRcuSet
  <2>4. CkTypes'
    BY <1>1, <1>2, <2>3 DEF CkTypes
  <2>5. CkSilicon'
    BY <1>1, <1>3, <1>4, <1>5, <1>6, <1>7, <2>3, <1>13 DEF CkTreeAt, CkSilicon, Waits, Divided, Fed, Multiplied
  <2>6. CkTreeAt(5)'
    BY <1>1, <1>3, <1>4, <1>7, <1>8, <2>3, <1>13 DEF CkTreeAt, Waits, Fed, Multiplied, Undivided
  <2> QED BY <1>1, <1>13, <2>4, <2>5, <2>6, CkTreeOn
<1>14. CASE k = 5
  <2>1. w.op = "rcu" /\ w.field = "apb1" /\ w.value = apb_psc_code(Profile.apb1)
    BY <1>4, <1>14 DEF TreeOp, Set
  <2>2. ckRcu' = [ckRcu EXCEPT !.apb1 = apb_psc_code(Profile.apb1)]
    BY <1>1, <2>1 DEF Locked
  <2>3. /\ ckRcu' \in CkRcuSet /\ ckRcu'.apb1 = apb_psc_code(Profile.apb1)
        /\ ckRcu'.ws = ckRcu.ws /\ ckRcu'.en = ckRcu.en /\ ckRcu'.ahb = ckRcu.ahb /\ ckRcu'.apb2 = ckRcu.apb2 /\ ckRcu'.sel = ckRcu.sel /\ ckRcu'.mf = ckRcu.mf /\ ckRcu'.scs = ckRcu.scs
    BY <1>6, <1>7, <2>2 DEF CkRcuSet
  <2>4. CkTypes'
    BY <1>1, <1>2, <2>3 DEF CkTypes
  <2>5. CkSilicon'
    BY <1>1, <1>3, <1>4, <1>5, <1>6, <1>7, <2>3, <1>14 DEF CkTreeAt, CkSilicon, Waits, Divided, Fed, Multiplied
  <2>6. CkTreeAt(6)'
    BY <1>1, <1>3, <1>4, <1>7, <1>8, <2>3, <1>14 DEF CkTreeAt, Waits, Fed, Multiplied, Undivided
  <2> QED BY <1>1, <1>14, <2>4, <2>5, <2>6, CkTreeOn
<1>15. CASE k = 6
  <2>1. w.op = "rcu" /\ w.field = "sel" /\ w.value = Profile.source
    BY <1>4, <1>15 DEF TreeOp, Set
  <2>2. ckRcu' = [ckRcu EXCEPT !.sel = Profile.source] \/ (ckRcu' = ckRcu /\ Fed)
    BY <1>1, <1>7, <2>1 DEF Locked
  <2>3. /\ ckRcu' \in CkRcuSet /\ ckRcu'.sel = Profile.source
        /\ ckRcu'.ws = ckRcu.ws /\ ckRcu'.en = ckRcu.en /\ ckRcu'.ahb = ckRcu.ahb /\ ckRcu'.apb1 = ckRcu.apb1 /\ ckRcu'.apb2 = ckRcu.apb2 /\ ckRcu'.mf = ckRcu.mf /\ ckRcu'.scs = ckRcu.scs
    BY <1>6, <1>7, <2>2 DEF CkRcuSet, Fed
  <2>4. CkTypes'
    BY <1>1, <1>2, <2>3 DEF CkTypes
  <2>5. CkSilicon'
    BY <1>1, <1>3, <1>4, <1>5, <1>6, <1>7, <2>3, <1>15 DEF CkTreeAt, CkSilicon, Waits, Divided, Fed, Multiplied
  <2>6. CkTreeAt(7)'
    BY <1>1, <1>3, <1>4, <1>7, <1>8, <2>3, <1>15 DEF CkTreeAt, Waits, Fed, Multiplied, Undivided
  <2> QED BY <1>1, <1>15, <2>4, <2>5, <2>6, CkTreeOn
<1>16. CASE k = 7
  <2>1. w.op = "rcu" /\ w.field = "mf" /\ w.value = pll_mul_bits(Profile.mul)
    BY <1>4, <1>16 DEF TreeOp, Set
  <2>2. ckRcu' = [ckRcu EXCEPT !.mf = pll_mul_bits(Profile.mul)] \/ (ckRcu' = ckRcu /\ Multiplied)
    BY <1>1, <1>7, <2>1 DEF Locked
  <2>3. /\ ckRcu' \in CkRcuSet /\ ckRcu'.mf = pll_mul_bits(Profile.mul)
        /\ ckRcu'.ws = ckRcu.ws /\ ckRcu'.en = ckRcu.en /\ ckRcu'.ahb = ckRcu.ahb /\ ckRcu'.apb1 = ckRcu.apb1 /\ ckRcu'.apb2 = ckRcu.apb2 /\ ckRcu'.sel = ckRcu.sel /\ ckRcu'.scs = ckRcu.scs
    BY <1>6, <1>7, <2>2 DEF CkRcuSet, Multiplied
  <2>4. CkTypes'
    BY <1>1, <1>2, <2>3 DEF CkTypes
  <2>5. CkSilicon'
    BY <1>1, <1>3, <1>4, <1>5, <1>6, <1>7, <2>3, <1>16 DEF CkTreeAt, CkSilicon, Waits, Divided, Fed, Multiplied
  <2>6. CkTreeAt(8)'
    BY <1>1, <1>3, <1>4, <1>7, <1>8, <2>3, <1>16 DEF CkTreeAt, Waits, Fed, Multiplied, Undivided
  <2> QED BY <1>1, <1>16, <2>4, <2>5, <2>6, CkTreeOn
<1>17. CASE k = 8
  <2>1. w.op = "rcu" /\ w.field = "en" /\ w.value = {"pll"}
    BY <1>4, <1>17 DEF TreeOp, Set
  <2>2. ckRcu' = [ckRcu EXCEPT !.en = @ \cup {"pll"}]
    BY <1>1, <2>1 DEF Locked
  <2>3. /\ ckRcu' \in CkRcuSet /\ ckRcu'.en = ckRcu.en \cup {"pll"}
        /\ ckRcu'.ws = ckRcu.ws /\ ckRcu'.ahb = ckRcu.ahb /\ ckRcu'.apb1 = ckRcu.apb1 /\ ckRcu'.apb2 = ckRcu.apb2 /\ ckRcu'.sel = ckRcu.sel /\ ckRcu'.mf = ckRcu.mf /\ ckRcu'.scs = ckRcu.scs
    BY <1>6, <1>7, <2>2 DEF CkRcuSet
  <2>4. CkTypes'
    BY <1>1, <1>2, <2>3 DEF CkTypes
  <2>5. CkSilicon'
    BY <1>1, <1>3, <1>4, <1>5, <1>6, <1>7, <2>3, <1>17 DEF CkTreeAt, CkSilicon, Waits, Divided, Fed, Multiplied
  <2>6. CkTreeAt(9)'
    BY <1>1, <1>3, <1>4, <1>7, <1>8, <2>3, <1>17 DEF CkTreeAt, Waits, Fed, Multiplied, Undivided
  <2> QED BY <1>1, <1>17, <2>4, <2>5, <2>6, CkTreeOn
<1>18. CASE k = 10
  <2>1. w.op = "rcu" /\ w.field = "scs" /\ w.value = "pll"
    BY <1>4, <1>18 DEF TreeOp, Set
  <2>2. ckRcu' = [ckRcu EXCEPT !.scs = "pll"]
    BY <1>1, <2>1 DEF Locked
  <2>3. /\ ckRcu' \in CkRcuSet /\ ckRcu'.scs = "pll"
        /\ ckRcu'.ws = ckRcu.ws /\ ckRcu'.en = ckRcu.en /\ ckRcu'.ahb = ckRcu.ahb /\ ckRcu'.apb1 = ckRcu.apb1 /\ ckRcu'.apb2 = ckRcu.apb2 /\ ckRcu'.sel = ckRcu.sel /\ ckRcu'.mf = ckRcu.mf
    BY <1>6, <1>7, <2>2 DEF CkRcuSet
  <2>4. CkTypes'
    BY <1>1, <1>2, <2>3 DEF CkTypes
  <2>5. CkSilicon'
    BY <1>1, <1>3, <1>4, <1>5, <1>6, <1>7, <2>3, <1>18 DEF CkTreeAt, CkSilicon, Waits, Divided, Fed, Multiplied
  <2>6. CkTreeAt(11)'
    BY <1>1, <1>3, <1>4, <1>7, <1>8, <2>3, <1>18 DEF CkTreeAt, Waits, Fed, Multiplied, Undivided
  <2> QED BY <1>1, <1>18, <2>4, <2>5, <2>6, CkTreeOn
<1>19. CASE k = 2
  <2>1. w = CkWait("source")
    BY <1>4, <1>19 DEF TreeOp
  <2> QED BY <1>1, <2>1 DEF CkWait
<1>20. CASE k = 9
  <2>1. w = CkWait("pll")
    BY <1>4, <1>20 DEF TreeOp
  <2> QED BY <1>1, <2>1 DEF CkWait
<1>21. CASE k = 11
  <2>1. w = CkWait("switch")
    BY <1>4, <1>21 DEF TreeOp
  <2> QED BY <1>1, <2>1 DEF CkWait
<1> QED BY <1>9, <1>10, <1>11, <1>12, <1>13, <1>14, <1>15, <1>16, <1>17, <1>18, <1>19, <1>20, <1>21

\* A wait is one of the three gates.
LEMMA CkGate ==
  ASSUME CkIInv, Doing("wait")
  PROVE  /\ ckResult = "running" /\ ckCount.programs = 0 /\ ckCount.calls > 0 /\ Valid
         /\ \E k \in {2, 9, 11} :
              /\ CkTreeAt(k) /\ Len(ckCode) = 12 - k
              /\ ckCode[1].gate = (CASE k = 2 -> "source" [] k = 9 -> "pll" [] k = 11 -> "switch")
              /\ CkAhead(Tail(ckCode), TreeOps, k + 1) /\ (Tail(ckCode) = << >> <=> k = 11)
<1>1. ckCode # << >> /\ ckCode[1].op = "wait" /\ CkCodeInv
  BY DEF Doing, CkIInv
<1>2. ckResult = "running" /\ ckCount.programs = 0 /\ ckCount.calls > 0 /\ Valid
  BY <1>1, CkTreeHead
<1>3. PICK k \in 0..11 :
        /\ CkTreeAt(k) /\ ckCode[1] = TreeOp(k + 1) /\ Len(ckCode) = 12 - k
        /\ CkAhead(Tail(ckCode), TreeOps, k + 1) /\ (Tail(ckCode) = << >> <=> k = 11)
  BY <1>1, CkTreeHead
<1>4. \/ k \in {2, 9, 11}
      \/ k = 0 \/ k = 1 \/ k = 3 \/ k = 4 \/ k = 5 \/ k = 6 \/ k = 7 \/ k = 8 \/ k = 10
  OBVIOUS
<1>5. k \in {2, 9, 11}
  <2>1. ASSUME NEW field, NEW value, ckCode[1] = Set(field, value) PROVE FALSE
    BY <1>1, <2>1 DEF Set
  <2> QED BY <1>3, <1>4, <2>1 DEF TreeOp
<1>6. ckCode[1].gate = (CASE k = 2 -> "source" [] k = 9 -> "pll" [] k = 11 -> "switch")
  <2>1. CASE k = 2
    <3>1. ckCode[1] = CkWait("source")
      BY <1>3, <2>1 DEF TreeOp
    <3> QED BY <2>1, <3>1 DEF CkWait
  <2>2. CASE k = 9
    <3>1. ckCode[1] = CkWait("pll")
      BY <1>3, <2>2 DEF TreeOp
    <3> QED BY <2>2, <3>1 DEF CkWait
  <2>3. CASE k = 11
    <3>1. ckCode[1] = CkWait("switch")
      BY <1>3, <2>3 DEF TreeOp
    <3> QED BY <2>3, <3>1 DEF CkWait
  <2> QED BY <1>5, <2>1, <2>2, <2>3
<1> QED BY <1>2, <1>3, <1>5, <1>6

\* A gate that does not open costs a spin, or ends the call where it is.
LEMMA CkSpin ==
  ASSUME CkIInv, Spin
  PROVE  CkIInv'
<1>1. /\ Doing("wait") /\ ckLeft # {} /\ UNCHANGED <<ckTarget, ckRcu, ckStat, ckUsart, ckCount>>
      /\ IF ckLeft = {0}
         THEN ckCode' = << >> /\ ckResult' = GateError(ckCode[1].gate) /\ UNCHANGED ckLeft
         ELSE ckLeft' = {n - 1 : n \in ckLeft} /\ UNCHANGED <<ckCode, ckResult>>
  BY DEF Spin
<1>2. CkTypes /\ CkSilicon /\ CkCodeInv /\ CkTreeInv /\ CkUsartInv
  BY DEF CkIInv
<1>3. Profile' = Profile /\ Valid' = Valid /\ TreeOps' = TreeOps
  BY <1>1, CkTargetKept
<1>4. ckResult = "running" /\ ckCount.programs = 0 /\ ckCount.calls > 0 /\ Valid
  BY <1>1, CkGate
<1>5. PICK k \in {2, 9, 11} :
        /\ CkTreeAt(k)
        /\ ckCode[1].gate = (CASE k = 2 -> "source" [] k = 9 -> "pll" [] k = 11 -> "switch")
  BY <1>1, CkGate
<1>6. CkSilicon'
  BY <1>1, <1>2, <1>3 DEF CkSilicon, Waits, Divided, Fed, Multiplied
<1>7. CkUsartInv'
  BY <1>1, <1>2, <1>4 DEF CkUsartInv
<1>8. CASE ckLeft = {0}
  <2>1. /\ ckCode' = << >> /\ ckLeft' = ckLeft
        /\ ckResult' = GateError(CASE k = 2 -> "source" [] k = 9 -> "pll" [] k = 11 -> "switch")
    BY <1>1, <1>5, <1>8
  <2>2. ckResult' \in CkGiveUps /\ (ckResult' = "SourceNotStable" => k = 2)
    BY <2>1 DEF GateError, CkGiveUps
  <2>3. CkTypes'
    BY <1>1, <1>2, <2>1, <2>2 DEF CkTypes
  <2>4. CkCodeInv'
    BY <2>1, <2>2 DEF CkCodeInv, CkGiveUps
  <2>5. CkTreeInv'
    BY <1>1, <1>2, <1>3, <1>4, <1>5, <2>2
    DEF CkTreeInv, CkTypes, CkTreeAt, CkGiveUps, CkRefusals, Undivided
  <2> QED BY <1>6, <1>7, <2>3, <2>4, <2>5 DEF CkIInv
<1>9. CASE ckLeft # {0}
  <2>1. ckLeft' = {n - 1 : n \in ckLeft} /\ UNCHANGED <<ckCode, ckResult>>
    BY <1>1, <1>9
  <2>2. ckLeft' \in {{}} \cup {{n} : n \in 0..CkBudget}
    <3>1. PICK n \in 0..CkBudget : ckLeft = {n}
      BY <1>1, <1>2 DEF CkTypes
    <3>2. n - 1 \in 0..CkBudget /\ ckLeft' = {n - 1}
      BY <1>9, <2>1, <3>1, CkAssumption
    <3> QED BY <3>2
  <2>3. CkTypes'
    BY <1>1, <1>2, <2>1, <2>2 DEF CkTypes
  <2>4. CkTreeAt(k)'
    BY <1>1, <1>3, <1>5, <2>1 DEF CkTreeAt, Waits, Fed, Multiplied, Undivided
  <2>5. CkCodeInv'
    <3>1. k \in 0..11
      OBVIOUS
    <3> QED BY <1>1, <1>3, <1>4, <2>1, <2>4, <3>1 DEF CkCodeInv
  <2>6. CkTreeInv'
    BY <1>1, <1>2, <1>3, <1>4, <2>1 DEF CkTreeInv, CkRefusals
  <2> QED BY <1>6, <1>7, <2>3, <2>5, <2>6 DEF CkIInv
<1> QED BY <1>8, <1>9

\* A gate that opens: the source, the PLL's lock, and the switch, which ends
\* the call.
LEMMA CkPassed ==
  ASSUME CkIInv, CkPass
  PROVE  CkIInv'
<1>1. /\ Doing("wait") /\ ckCode # << >> /\ ckCode[1].op # "usart" /\ Flag(ckCode[1].gate) \in ckStat
      /\ ckCode' = Tail(ckCode) /\ ckLeft' = {CkBudget : n \in ckLeft}
      /\ ckResult' = IF Len(ckCode) = 1 THEN "Ok" ELSE ckResult
      /\ UNCHANGED <<ckTarget, ckRcu, ckStat, ckUsart, ckCount>>
  BY DEF CkPass, Doing, Advance
<1>2. CkTypes /\ CkSilicon /\ CkCodeInv /\ CkTreeInv /\ CkUsartInv
  BY DEF CkIInv
<1>3. Profile' = Profile /\ Valid' = Valid /\ TreeOps' = TreeOps
  BY <1>1, CkTargetKept
<1>4. ckResult = "running" /\ ckCount.programs = 0 /\ ckCount.calls > 0 /\ Valid
  BY <1>1, CkGate
<1>5. PICK k \in {2, 9, 11} :
        /\ CkTreeAt(k) /\ Len(ckCode) = 12 - k
        /\ ckCode[1].gate = (CASE k = 2 -> "source" [] k = 9 -> "pll" [] k = 11 -> "switch")
        /\ CkAhead(Tail(ckCode), TreeOps, k + 1) /\ (Tail(ckCode) = << >> <=> k = 11)
  BY <1>1, CkGate
<1>6. CkSilicon'
  BY <1>1, <1>2, <1>3 DEF CkSilicon, Waits, Divided, Fed, Multiplied
<1>7. CkUsartInv'
  BY <1>1, <1>2, <1>4 DEF CkUsartInv
<1>8. ckLeft' \in {{}} \cup {{n} : n \in 0..CkBudget}
  <2>1. CASE ckLeft = {}
    BY <1>1, <2>1
  <2>2. CASE ckLeft # {}
    <3>1. PICK n \in 0..CkBudget : ckLeft = {n}
      BY <1>2, <2>2 DEF CkTypes
    <3>2. ckLeft' = {CkBudget} /\ CkBudget \in 0..CkBudget
      BY <1>1, <3>1, CkAssumption
    <3> QED BY <3>2
  <2> QED BY <2>1, <2>2
<1>9. CkTypes'
  BY <1>1, <1>2, <1>8 DEF CkTypes
<1>10. CkAhead(ckCode', TreeOps', k + 1)
  BY <1>1, <1>3, <1>5
<1>11. CASE k = 2
  <2>1. ckResult' = ckResult
    BY <1>1, <1>5, <1>11
  <2>2. CkTreeAt(3)'
    BY <1>1, <1>3, <1>5, <1>10, <1>11 DEF CkTreeAt, Waits, Undivided
  <2> QED BY <1>1, <1>6, <1>9, <1>11, <2>1, <2>2, CkTreeOn
<1>12. CASE k = 9
  <2>1. ckResult' = ckResult
    BY <1>1, <1>5, <1>12
  <2>2. "pll" \in ckStat
    BY <1>1, <1>5, <1>12 DEF Flag
  <2>3. CkTreeAt(10)'
    BY <1>1, <1>3, <1>5, <1>10, <1>12, <2>2 DEF CkTreeAt, Waits, Fed, Multiplied
  <2> QED BY <1>1, <1>6, <1>9, <1>12, <2>1, <2>3, CkTreeOn
<1>13. CASE k = 11
  <2>1. ckResult' = "Ok" /\ ckCode' = << >> /\ "switch" \in ckStat
    BY <1>1, <1>5, <1>13 DEF Flag
  <2>2. CkCodeInv'
    BY <2>1 DEF CkCodeInv
  <2>3. CkTreeInv'
    BY <1>1, <1>2, <1>3, <1>4, <2>1 DEF CkTreeInv, CkRefusals, CkTypes
  <2> QED BY <1>6, <1>7, <1>9, <2>2, <2>3 DEF CkIInv
<1> QED BY <1>11, <1>12, <1>13

\* The silicon answers what the registers ask for.
LEMMA CkAnswered ==
  ASSUME CkIInv, NEW flag \in {"Irc8m", "Hxtal", "pll", "switch"}, CkAnswer(flag)
  PROVE  CkIInv'
<1>1. /\ CASE flag = "switch" -> ckRcu.scs = "pll" /\ "pll" \in ckStat
           [] flag = "pll" -> "pll" \in ckRcu.en /\ ckRcu.sel \in ckStat
           [] OTHER -> flag \in ckRcu.en
      /\ ckStat' = ckStat \cup {flag}
      /\ UNCHANGED <<ckTarget, ckRcu, ckCode, ckLeft, ckResult, ckUsart, ckCount>>
  BY DEF CkAnswer
<1>2. CkTypes /\ CkSilicon /\ CkCodeInv /\ CkTreeInv /\ CkUsartInv
  BY DEF CkIInv
<1>3. Profile' = Profile /\ Valid' = Valid /\ TreeOps' = TreeOps
  BY <1>1, CkTargetKept
<1>4. CkTypes'
  BY <1>1, <1>2 DEF CkTypes
<1>5. CkSilicon'
  BY <1>1, <1>2, <1>3 DEF CkSilicon, Waits, Divided, Fed, Multiplied
<1>6. ProgramOps' = ProgramOps /\ BaudOps' = BaudOps /\ Rated' = Rated /\ Clock' = Clock
  BY <1>1 DEF ProgramOps, BaudOps, program, set_baud, Brr, Frame, Rated, Clock
<1>7. CkCodeInv'
  <2>1. ASSUME NEW k \in 0..11, CkTreeAt(k) PROVE CkTreeAt(k)'
    BY <1>1, <1>3, <2>1 DEF CkTreeAt, Waits, Fed, Multiplied, Undivided
  <2>2. ASSUME NEW k \in 0..5, CkProgramAt(k) PROVE CkProgramAt(k)'
    BY <1>1, <1>6, <2>2 DEF CkProgramAt, Framed
  <2>3. ASSUME NEW k \in 0..2, CkBaudAt(k) PROVE CkBaudAt(k)'
    BY <1>1, <1>6, <2>3 DEF CkBaudAt, Framed
  <2> QED BY <1>1, <1>2, <1>3, <2>1, <2>2, <2>3 DEF CkCodeInv
<1>8. CkTreeInv'
  BY <1>1, <1>2, <1>3 DEF CkTreeInv, Undivided, Untouched
<1>9. CkUsartInv'
  BY <1>1, <1>2, <1>6 DEF CkUsartInv, ClockKnown, Framed
<1> QED BY <1>4, <1>5, <1>7, <1>8, <1>9 DEF CkIInv

---------------------------------------------------------------------------
(* The USART. *)

\* A divider is a number: no tree a USART is programmed from divides by zero.
LEMMA CkBrrNat ==
  ASSUME CkTypes, CkTreeInv, NEW label \in {"Usart0", "Usart1"}, NEW baud \in Nat \ {0}
  PROVE  /\ usart_input_clock(Clock, UsartBus(label)) \in Nat
         /\ compute_brr(usart_input_clock(Clock, UsartBus(label)), baud) \in Nat
<1>1. Clock.sysclk \in Nat /\ Clock.ahb \in Nat \ {0} /\ Clock.apb1 \in Nat \ {0} /\ Clock.apb2 \in Nat \ {0}
  <2>1. CASE ckResult = "Ok"
    <3>1. Valid
      BY <2>1 DEF CkTreeInv, CkRefusals
    <3>2. Profile.sysclk \in Nat
      BY CkAssumption DEF CkTypes, Profile
    <3>3. Clock = Profile
      BY <2>1 DEF Clock, Profile
    <3>4. Profile.ahb \in Nat \ {0} /\ Profile.apb1 \in Nat \ {0} /\ Profile.apb2 \in Nat \ {0}
      BY <3>1, CkLegal
    <3> QED BY <3>2, <3>3, <3>4
  <2>2. CASE ckResult # "Ok"
    BY <2>2 DEF Clock, RESET_8M
  <2> QED BY <2>1, <2>2
<1>2. ASSUME NEW a \in Nat, NEW b \in Nat \ {0} PROVE a \div b \in Nat
  OBVIOUS
<1>3. Clock.sysclk \div Clock.ahb \in Nat
  BY <1>1, <1>2
<1>4. usart_input_clock(Clock, UsartBus(label)) \in Nat
  BY <1>1, <1>2, <1>3 DEF usart_input_clock
<1> DEFINE u == usart_input_clock(Clock, UsartBus(label))
<1>5. u \in Nat
  BY <1>4
<1> HIDE DEF u
<1>6. baud \div 2 \in Nat
  OBVIOUS
<1>7. (u + baud \div 2) \div baud \in Nat
  BY <1>2, <1>5, <1>6
<1>8. compute_brr(u, baud) \in Nat
  BY <1>7 DEF compute_brr
<1> QED BY <1>4, <1>8 DEF u

\* A program or a change of rate is asked for, of a tree the caller knows.
LEMMA CkAsked ==
  ASSUME CkIInv, NEW label \in {"Usart0", "Usart1"}, NEW baud \in CkBauds, NEW frame \in CkFrames,
         NEW code, Asked(code, label, baud, frame),
         \/ code = program(label, baud, frame)
         \/ code = set_baud(label, baud) /\ ckCount.programs > 0 /\ frame = ckUsart.want.frame
  PROVE  CkIInv'
<1>1. /\ ckCode = << >> /\ ClockKnown /\ ckCode' = code
      /\ ckCount' = [ckCount EXCEPT !.programs = @ + 1]
      /\ ckUsart' = [ckUsart EXCEPT !.want = [baud |-> baud, frame |-> frame], !.label = label]
      /\ UNCHANGED <<ckTarget, ckRcu, ckStat, ckLeft, ckResult>>
  BY DEF Asked
<1>2. CkTypes /\ CkSilicon /\ CkCodeInv /\ CkTreeInv /\ CkUsartInv
  BY DEF CkIInv
<1>3. Profile' = Profile /\ Valid' = Valid /\ TreeOps' = TreeOps
  BY <1>1, CkTargetKept
<1>4. baud \in Nat /\ baud > 0
  BY CkAssumption
<1>5. /\ ckUsart' \in CkUsartSet /\ ckUsart'.label = label /\ ckUsart'.want.baud = baud
      /\ ckUsart'.want.frame = frame /\ ckUsart'.uen = ckUsart.uen /\ ckUsart'.regs = ckUsart.regs
  BY <1>1, <1>2, <1>4 DEF CkTypes, CkUsartSet
<1>6. /\ ckCount' \in [calls : Nat, programs : Nat] /\ ckCount'.calls = ckCount.calls
      /\ ckCount'.programs > 0
  BY <1>1, <1>2 DEF CkTypes
<1>7. CkTypes'
  BY <1>1, <1>2, <1>5, <1>6 DEF CkTypes
<1>8. CkSilicon'
  BY <1>1, <1>2, <1>3 DEF CkSilicon, Waits, Divided, Fed, Multiplied
<1>9. CkTreeInv'
  BY <1>1, <1>2, <1>3, <1>6 DEF CkTreeInv, Undivided, Untouched
<1>10. ckResult' # "running"
  BY <1>1, CkBetween
<1>11. ClockKnown' /\ Clock' = Clock
  BY <1>1, <1>6 DEF ClockKnown, Clock
<1>12. Brr(label, baud)' = Brr(label, baud)
  BY <1>11 DEF Brr
<1>13. CASE code = program(label, baud, frame)
  <2>1. ProgramOps' = code
    BY <1>5, <1>12, <1>13 DEF ProgramOps, program
  <2>2. Len(code) = 6
    BY <1>13, CkProgram
  <2>3. CkProgramAt(0)'
    <3>1. CkAhead(ckCode', ProgramOps', 0)
      <4>1. PICK W : code \in Seq(W)
        BY <1>13, CkLists
      <4>2. CkAhead(code, code, 0)
        BY <4>1, CkAheadAll
      <4> QED BY <1>1, <2>1, <4>2
    <3> QED BY <3>1 DEF CkProgramAt
  <2>4. CkCodeInv'
    <3>1. 0 \in 0..5
      OBVIOUS
    <3> QED BY <1>6, <1>10, <2>3, <3>1 DEF CkCodeInv
  <2>5. CkUsartInv'
    <3>1. ckCode' # << >>
      BY <1>1, <2>2, EmptySeq
    <3> QED BY <1>4, <1>5, <1>6, <1>11, <3>1 DEF CkUsartInv
  <2> QED BY <1>7, <1>8, <1>9, <2>4, <2>5 DEF CkIInv
<1>14. CASE code = set_baud(label, baud) /\ ckCount.programs > 0 /\ frame = ckUsart.want.frame
  <2>1. BaudOps' = code
    BY <1>5, <1>12, <1>14 DEF BaudOps, set_baud
  <2>2. Len(code) = 3
    BY <1>14, CkBaud
  <2>3. CkBaudAt(0)'
    <3>1. CkAhead(ckCode', BaudOps', 0)
      <4>1. PICK W : code \in Seq(W)
        BY <1>14, CkLists
      <4>2. CkAhead(code, code, 0)
        BY <4>1, CkAheadAll
      <4> QED BY <1>1, <2>1, <4>2
    <3>2. Framed' /\ ckUsart'.regs.on = {"REN", "TEN"}
      BY <1>1, <1>2, <1>5, <1>14 DEF CkUsartInv, Framed
    <3> QED BY <3>1, <3>2 DEF CkBaudAt
  <2>4. CkCodeInv'
    <3>1. 0 \in 0..2
      OBVIOUS
    <3> QED BY <1>6, <1>10, <2>3, <3>1 DEF CkCodeInv
  <2>5. CkUsartInv'
    <3>1. ckCode' # << >>
      BY <1>1, <2>2, EmptySeq
    <3> QED BY <1>4, <1>5, <1>6, <1>11, <3>1 DEF CkUsartInv
  <2> QED BY <1>7, <1>8, <1>9, <2>4, <2>5 DEF CkIInv
<1> QED BY <1>13, <1>14

\* A program and a change of rate are asked for.
LEMMA CkUsartBringUp ==
  ASSUME CkIInv, NEW label \in {"Usart0", "Usart1"}, NEW baud \in CkBauds, NEW frame \in {"8N1", "9E2"},
         UsartBringUp(label, baud, frame)
  PROVE  CkIInv'
<1> DEFINE code == program(label, baud, frame)
<1>1. Asked(code, label, baud, frame) /\ frame \in CkFrames
  BY DEF UsartBringUp, CkFrames
<1>2. code = program(label, baud, frame)
  OBVIOUS
<1> HIDE DEF code
<1> QED BY <1>1, <1>2, CkAsked

LEMMA CkSetBaud ==
  ASSUME CkIInv, NEW baud \in CkBauds, SetBaud(baud)
  PROVE  CkIInv'
<1> DEFINE code == set_baud(ckUsart.label, baud)  l == ckUsart.label  f == ckUsart.want.frame
<1>1. Asked(code, l, baud, f) /\ ckCount.programs > 0
  BY DEF SetBaud
<1>2. l \in {"Usart0", "Usart1"} /\ f \in CkFrames
  BY DEF CkIInv, CkTypes, CkUsartSet
<1>3. code = set_baud(l, baud) /\ f = ckUsart.want.frame
  OBVIOUS
<1> HIDE DEF code, l, f
<1> QED BY <1>1, <1>2, <1>3, CkAsked

\* A USART's registers are written in the program's order: off, rate, frame,
\* directions, on.
LEMMA CkWriteUsart ==
  ASSUME CkIInv, WriteUsart
  PROVE  CkIInv'
<1> DEFINE w == ckCode[1]
<1>1. /\ ckCode # << >> /\ w.op = "usart" /\ ckCode' = Tail(ckCode)
      /\ UNCHANGED <<ckTarget, ckRcu, ckStat, ckLeft, ckResult, ckCount>>
      /\ ckUsart' = CASE w.field = "uen" -> [ckUsart EXCEPT !.uen = w.value]
                      [] w.field = "on" -> [ckUsart EXCEPT !.regs.on = @ \cup w.value]
                      [] OTHER -> [ckUsart EXCEPT !.regs[w.field] = w.value]
  BY DEF WriteUsart, Doing, Advance
<1>2. CkTypes /\ CkSilicon /\ CkCodeInv /\ CkTreeInv /\ CkUsartInv
  BY DEF CkIInv
<1>3. Profile' = Profile /\ Valid' = Valid
  BY <1>1, CkTargetKept
<1>4. ckResult # "running"
  <2>1. SUFFICES ASSUME ckResult = "running" PROVE FALSE
    OBVIOUS
  <2>2. PICK k \in 0..11 : ckCode[1] = TreeOp(k + 1)
    BY <1>1, <1>2, <2>1, CkTreeHead
  <2>3. \/ k = 0 \/ k = 1 \/ k = 2 \/ k = 3 \/ k = 4 \/ k = 5 \/ k = 6 \/ k = 7 \/ k = 8
        \/ k = 9 \/ k = 10 \/ k = 11
    OBVIOUS
  <2>4. ASSUME NEW field, NEW value, ckCode[1] = Set(field, value) PROVE FALSE
    BY <1>1, <2>4 DEF Set
  <2>5. ASSUME NEW gate, ckCode[1] = CkWait(gate) PROVE FALSE
    BY <1>1, <2>5 DEF CkWait
  <2> QED BY <2>2, <2>3, <2>4, <2>5 DEF TreeOp
<1>5. CkSilicon'
  BY <1>1, <1>2, <1>3 DEF CkSilicon, Waits, Divided, Fed, Multiplied
<1>6. CkTreeInv'
  BY <1>1, <1>2, <1>3 DEF CkTreeInv, Undivided, Untouched
<1>7. ckCount.programs > 0 /\ ClockKnown /\ ckUsart.want.baud > 0 /\ ckUsart \in CkUsartSet
  BY <1>1, <1>2, <1>4, CkUsartHead DEF CkUsartInv, CkTypes
<1>8. ckUsart.label \in {"Usart0", "Usart1"} /\ ckUsart.want.baud \in Nat \ {0}
  BY <1>7 DEF CkUsartSet
<1>9. compute_brr(usart_input_clock(Clock, UsartBus(ckUsart.label)), ckUsart.want.baud) \in Nat
  BY <1>2, <1>8, CkBrrNat
<1>10. Clock' = Clock /\ ClockKnown'
  BY <1>1, <1>7 DEF Clock, ClockKnown
\* What a write leaves of the request, and what of the invariant is left to see.
<1>11. ASSUME ckUsart' \in CkUsartSet, ckUsart'.want = ckUsart.want, ckUsart'.label = ckUsart.label
       PROVE  /\ CkTypes' /\ (Brr(ckUsart.label, ckUsart.want.baud))' = Brr(ckUsart.label, ckUsart.want.baud)
              /\ ProgramOps' = ProgramOps /\ BaudOps' = BaudOps
  <2>1. CkTypes'
    BY <1>1, <1>2, <1>11 DEF CkTypes
  <2>2. (Brr(ckUsart.label, ckUsart.want.baud))' = Brr(ckUsart.label, ckUsart.want.baud)
    BY <1>10, <1>11 DEF Brr
  <2> QED BY <1>10, <1>11, <2>1, <2>2 DEF ProgramOps, BaudOps, program, set_baud, Brr
<1>12. ASSUME CkTypes', CkCodeInv', ckCode' # << >>, ckUsart'.want = ckUsart.want
       PROVE  CkIInv'
  <2>1. CkUsartInv'
    BY <1>1, <1>7, <1>10, <1>12 DEF CkUsartInv
  <2> QED BY <1>5, <1>6, <1>12, <2>1 DEF CkIInv
<1>13. ASSUME CkTypes', ckCode' = << >>, ckUsart'.want = ckUsart.want, Rated', Framed', ckUsart'.regs.on = {"REN", "TEN"}
       PROVE  CkIInv'
  <2>1. CkUsartInv'
    BY <1>1, <1>7, <1>10, <1>13 DEF CkUsartInv
  <2>2. CkCodeInv'
    BY <1>1, <1>4, <1>13 DEF CkCodeInv
  <2> QED BY <1>5, <1>6, <1>13, <2>1, <2>2 DEF CkIInv
<1>14. ASSUME NEW k \in 0..5, CkProgramAt(k), ckCode[1] = ProgramOps[k + 1],
              CkAhead(Tail(ckCode), ProgramOps, k + 1), Tail(ckCode) = << >> <=> k = 5
       PROVE  CkIInv'
  <2>1. k = 0 \/ k = 1 \/ k = 2 \/ k = 3 \/ k = 4 \/ k = 5
    OBVIOUS
  <2>2. CASE k = 0
    <3>1. w = U("uen", FALSE)
      BY <1>14, <2>2, CkProgramOps DEF U
    <3>2. ckUsart' = [ckUsart EXCEPT !.uen = FALSE]
      BY <1>1, <3>1 DEF U, Brr
    <3>3. /\ ckUsart' \in CkUsartSet /\ ckUsart'.want = ckUsart.want /\ ckUsart'.label = ckUsart.label
          /\ ckUsart'.uen = FALSE /\ ckUsart'.regs = ckUsart.regs
      BY <1>7, <1>9, <3>2 DEF CkUsartSet
    <3>4. CkTypes' /\ ProgramOps' = ProgramOps /\ BaudOps' = BaudOps
      BY <1>11, <3>3
    <3>5. ckCode' # << >> /\ CkAhead(ckCode', ProgramOps', 1)
      BY <1>1, <1>14, <2>2, <3>4
    <3>6. CkProgramAt(1)'
      BY <1>14, <1>10, <2>2, <3>3, <3>5 DEF CkProgramAt, Rated, Framed
    <3>7. CkCodeInv'
      <4>1. 1 \in 0..5
        OBVIOUS
      <4> QED BY <1>1, <1>4, <1>7, <3>6, <4>1 DEF CkCodeInv
    <3> QED BY <1>12, <3>3, <3>4, <3>5, <3>7
  <2>3. CASE k = 1
    <3>1. w = Brr(ckUsart.label, ckUsart.want.baud)
      BY <1>14, <2>3, CkProgramOps
    <3>2. ckUsart' = [ckUsart EXCEPT !.regs["brr"] = compute_brr(usart_input_clock(Clock, UsartBus(ckUsart.label)), ckUsart.want.baud)]
      BY <1>1, <3>1 DEF U, Brr
    <3>3. /\ ckUsart' \in CkUsartSet /\ ckUsart'.want = ckUsart.want /\ ckUsart'.label = ckUsart.label
          /\ ckUsart'.regs.brr = compute_brr(usart_input_clock(Clock, UsartBus(ckUsart.label)), ckUsart.want.baud)
          /\ ckUsart'.uen = ckUsart.uen /\ ckUsart'.regs.frame = ckUsart.regs.frame /\ ckUsart'.regs.on = ckUsart.regs.on
      BY <1>7, <1>9, <3>2 DEF CkUsartSet
    <3>4. CkTypes' /\ ProgramOps' = ProgramOps /\ BaudOps' = BaudOps
      BY <1>11, <3>3
    <3>5. ckCode' # << >> /\ CkAhead(ckCode', ProgramOps', 2)
      BY <1>1, <1>14, <2>3, <3>4
    <3>6. CkProgramAt(2)'
      BY <1>14, <1>10, <2>3, <3>3, <3>5 DEF CkProgramAt, Rated, Framed
    <3>7. CkCodeInv'
      <4>1. 2 \in 0..5
        OBVIOUS
      <4> QED BY <1>1, <1>4, <1>7, <3>6, <4>1 DEF CkCodeInv
    <3> QED BY <1>12, <3>3, <3>4, <3>5, <3>7
  <2>4. CASE k = 2
    <3>1. w = U("frame", ckUsart.want.frame)
      BY <1>14, <2>4, CkProgramOps
    <3>2. ckUsart' = [ckUsart EXCEPT !.regs["frame"] = ckUsart.want.frame]
      BY <1>1, <3>1 DEF U, Brr
    <3>3. /\ ckUsart' \in CkUsartSet /\ ckUsart'.want = ckUsart.want /\ ckUsart'.label = ckUsart.label
          /\ ckUsart'.regs.frame = ckUsart.want.frame /\ ckUsart'.uen = ckUsart.uen
          /\ ckUsart'.regs.brr = ckUsart.regs.brr /\ ckUsart'.regs.on = ckUsart.regs.on
      BY <1>7, <1>9, <3>2 DEF CkUsartSet
    <3>4. CkTypes' /\ ProgramOps' = ProgramOps /\ BaudOps' = BaudOps
      BY <1>11, <3>3
    <3>5. ckCode' # << >> /\ CkAhead(ckCode', ProgramOps', 3)
      BY <1>1, <1>14, <2>4, <3>4
    <3>6. CkProgramAt(3)'
      BY <1>14, <1>10, <2>4, <3>3, <3>5 DEF CkProgramAt, Rated, Framed
    <3>7. CkCodeInv'
      <4>1. 3 \in 0..5
        OBVIOUS
      <4> QED BY <1>1, <1>4, <1>7, <3>6, <4>1 DEF CkCodeInv
    <3> QED BY <1>12, <3>3, <3>4, <3>5, <3>7
  <2>5. CASE k = 3
    <3>1. w = U("on", {"REN"})
      BY <1>14, <2>5, CkProgramOps
    <3>2. ckUsart' = [ckUsart EXCEPT !.regs.on = @ \cup {"REN"}]
      BY <1>1, <3>1 DEF U, Brr
    <3>3. /\ ckUsart' \in CkUsartSet /\ ckUsart'.want = ckUsart.want /\ ckUsart'.label = ckUsart.label
          /\ ckUsart'.regs.on = ckUsart.regs.on \cup {"REN"} /\ ckUsart'.uen = ckUsart.uen
          /\ ckUsart'.regs.brr = ckUsart.regs.brr /\ ckUsart'.regs.frame = ckUsart.regs.frame
      BY <1>7, <1>9, <3>2 DEF CkUsartSet
    <3>4. CkTypes' /\ ProgramOps' = ProgramOps /\ BaudOps' = BaudOps
      BY <1>11, <3>3
    <3>5. ckCode' # << >> /\ CkAhead(ckCode', ProgramOps', 4)
      BY <1>1, <1>14, <2>5, <3>4
    <3>6. CkProgramAt(4)'
      BY <1>14, <1>10, <2>5, <3>3, <3>5 DEF CkProgramAt, Rated, Framed
    <3>7. CkCodeInv'
      <4>1. 4 \in 0..5
        OBVIOUS
      <4> QED BY <1>1, <1>4, <1>7, <3>6, <4>1 DEF CkCodeInv
    <3> QED BY <1>12, <3>3, <3>4, <3>5, <3>7
  <2>6. CASE k = 4
    <3>1. w = U("on", {"TEN"})
      BY <1>14, <2>6, CkProgramOps
    <3>2. ckUsart' = [ckUsart EXCEPT !.regs.on = @ \cup {"TEN"}]
      BY <1>1, <3>1 DEF U, Brr
    <3>3. /\ ckUsart' \in CkUsartSet /\ ckUsart'.want = ckUsart.want /\ ckUsart'.label = ckUsart.label
          /\ ckUsart'.regs.on = ckUsart.regs.on \cup {"TEN"} /\ ckUsart'.uen = ckUsart.uen
          /\ ckUsart'.regs.brr = ckUsart.regs.brr /\ ckUsart'.regs.frame = ckUsart.regs.frame
      BY <1>7, <1>9, <3>2 DEF CkUsartSet
    <3>4. CkTypes' /\ ProgramOps' = ProgramOps /\ BaudOps' = BaudOps
      BY <1>11, <3>3
    <3>5. ckCode' # << >> /\ CkAhead(ckCode', ProgramOps', 5)
      BY <1>1, <1>14, <2>6, <3>4
    <3>6. CkProgramAt(5)'
      BY <1>14, <1>10, <2>6, <3>3, <3>5 DEF CkProgramAt, Rated, Framed
    <3>7. CkCodeInv'
      <4>1. 5 \in 0..5
        OBVIOUS
      <4> QED BY <1>1, <1>4, <1>7, <3>6, <4>1 DEF CkCodeInv
    <3> QED BY <1>12, <3>3, <3>4, <3>5, <3>7
  <2>7. CASE k = 5
    <3>1. w = U("uen", TRUE)
      BY <1>14, <2>7, CkProgramOps DEF U
    <3>2. ckUsart' = [ckUsart EXCEPT !.uen = TRUE]
      BY <1>1, <3>1 DEF U, Brr
    <3>3. /\ ckUsart' \in CkUsartSet /\ ckUsart'.want = ckUsart.want /\ ckUsart'.label = ckUsart.label
          /\ ckUsart'.uen = TRUE /\ ckUsart'.regs = ckUsart.regs
      BY <1>7, <1>9, <3>2 DEF CkUsartSet
    <3>4. CkTypes' /\ ProgramOps' = ProgramOps /\ BaudOps' = BaudOps
      BY <1>11, <3>3
    <3>5. ckCode' = << >>
      BY <1>1, <1>14, <2>7
    <3>6. Rated' /\ Framed'
      BY <1>14, <1>10, <2>7, <3>3 DEF CkProgramAt, Rated, Framed
    <3>7. ckUsart'.regs.on = {"REN", "TEN"}
      BY <1>7, <1>14, <2>7, <3>3 DEF CkProgramAt, CkUsartSet
    <3> QED BY <1>13, <3>3, <3>4, <3>5, <3>6, <3>7
  <2> QED BY <2>1, <2>2, <2>3, <2>4, <2>5, <2>6, <2>7
<1>15. ASSUME NEW k \in 0..2, CkBaudAt(k), ckCode[1] = BaudOps[k + 1],
              CkAhead(Tail(ckCode), BaudOps, k + 1), Tail(ckCode) = << >> <=> k = 2
       PROVE  CkIInv'
  <2>1. k = 0 \/ k = 1 \/ k = 2
    OBVIOUS
  <2>2. CASE k = 0
    <3>1. w = U("uen", FALSE)
      BY <1>15, <2>2, CkBaudOps DEF U
    <3>2. ckUsart' = [ckUsart EXCEPT !.uen = FALSE]
      BY <1>1, <3>1 DEF U, Brr
    <3>3. /\ ckUsart' \in CkUsartSet /\ ckUsart'.want = ckUsart.want /\ ckUsart'.label = ckUsart.label
          /\ ckUsart'.uen = FALSE /\ ckUsart'.regs = ckUsart.regs
      BY <1>7, <1>9, <3>2 DEF CkUsartSet
    <3>4. CkTypes' /\ ProgramOps' = ProgramOps /\ BaudOps' = BaudOps
      BY <1>11, <3>3
    <3>5. ckCode' # << >> /\ CkAhead(ckCode', BaudOps', 1)
      BY <1>1, <1>15, <2>2, <3>4
    <3>6. CkBaudAt(1)'
      BY <1>15, <1>10, <2>2, <3>3, <3>5 DEF CkBaudAt, Rated, Framed
    <3>7. CkCodeInv'
      <4>1. 1 \in 0..2
        OBVIOUS
      <4> QED BY <1>1, <1>4, <1>7, <3>6, <4>1 DEF CkCodeInv
    <3> QED BY <1>12, <3>3, <3>4, <3>5, <3>7
  <2>3. CASE k = 1
    <3>1. w = Brr(ckUsart.label, ckUsart.want.baud)
      BY <1>15, <2>3, CkBaudOps
    <3>2. ckUsart' = [ckUsart EXCEPT !.regs["brr"] = compute_brr(usart_input_clock(Clock, UsartBus(ckUsart.label)), ckUsart.want.baud)]
      BY <1>1, <3>1 DEF U, Brr
    <3>3. /\ ckUsart' \in CkUsartSet /\ ckUsart'.want = ckUsart.want /\ ckUsart'.label = ckUsart.label
          /\ ckUsart'.regs.brr = compute_brr(usart_input_clock(Clock, UsartBus(ckUsart.label)), ckUsart.want.baud)
          /\ ckUsart'.uen = ckUsart.uen /\ ckUsart'.regs.frame = ckUsart.regs.frame /\ ckUsart'.regs.on = ckUsart.regs.on
      BY <1>7, <1>9, <3>2 DEF CkUsartSet
    <3>4. CkTypes' /\ ProgramOps' = ProgramOps /\ BaudOps' = BaudOps
      BY <1>11, <3>3
    <3>5. ckCode' # << >> /\ CkAhead(ckCode', BaudOps', 2)
      BY <1>1, <1>15, <2>3, <3>4
    <3>6. CkBaudAt(2)'
      BY <1>15, <1>10, <2>3, <3>3, <3>5 DEF CkBaudAt, Rated, Framed
    <3>7. CkCodeInv'
      <4>1. 2 \in 0..2
        OBVIOUS
      <4> QED BY <1>1, <1>4, <1>7, <3>6, <4>1 DEF CkCodeInv
    <3> QED BY <1>12, <3>3, <3>4, <3>5, <3>7
  <2>4. CASE k = 2
    <3>1. w = U("uen", TRUE)
      BY <1>15, <2>4, CkBaudOps DEF U
    <3>2. ckUsart' = [ckUsart EXCEPT !.uen = TRUE]
      BY <1>1, <3>1 DEF U, Brr
    <3>3. /\ ckUsart' \in CkUsartSet /\ ckUsart'.want = ckUsart.want /\ ckUsart'.label = ckUsart.label
          /\ ckUsart'.uen = TRUE /\ ckUsart'.regs = ckUsart.regs
      BY <1>7, <1>9, <3>2 DEF CkUsartSet
    <3>4. CkTypes' /\ ProgramOps' = ProgramOps /\ BaudOps' = BaudOps
      BY <1>11, <3>3
    <3>5. ckCode' = << >>
      BY <1>1, <1>15, <2>4
    <3>6. Rated' /\ Framed'
      BY <1>15, <1>10, <2>4, <3>3 DEF CkBaudAt, Rated, Framed
    <3>7. ckUsart'.regs.on = {"REN", "TEN"}
      BY <1>7, <1>15, <2>4, <3>3 DEF CkBaudAt, CkUsartSet
    <3> QED BY <1>13, <3>3, <3>4, <3>5, <3>6, <3>7
  <2> QED BY <2>1, <2>2, <2>3, <2>4
<1> QED BY <1>1, <1>2, <1>4, <1>14, <1>15, CkUsartHead

---------------------------------------------------------------------------
(* The invariant. *)

\* Every start is a reset tree, and every step keeps what is known of it.
LEMMA CkStart ==
  ASSUME CkInit
  PROVE  CkIInv
<1>1. CkTypes
  <2>1. ckRcu \in CkRcuSet
    BY DEF CkInit, CkRcuSet
  <2>2. ckUsart \in CkUsartSet
    BY DEF CkInit, CkIdle, CkUsartSet, CkFrames
  <2>3. ckCount \in [calls : Nat, programs : Nat]
    BY DEF CkInit
  <2> QED BY <2>1, <2>2, <2>3 DEF CkInit, CkTypes
<1>2. CkSilicon
  BY DEF CkInit, CkSilicon
<1>3. CkCodeInv
  BY DEF CkInit, CkCodeInv
<1>4. CkTreeInv
  BY DEF CkInit, CkTreeInv, CkRefusals, Untouched, Undivided
<1>5. CkUsartInv
  BY DEF CkInit, CkUsartInv, CkIdle
<1> QED BY <1>1, <1>2, <1>3, <1>4, <1>5 DEF CkIInv

LEMMA CkStep ==
  ASSUME CkIInv, [CkNext]_ckVars
  PROVE  CkIInv'
<1>1. ASSUME NEW budget \in {{}, {CkBudget}}, ConfigureTree(budget) PROVE CkIInv'
  BY <1>1, CkConfigureTree
<1>2. CASE WriteRcu
  BY <1>2, CkWriteRcu
<1>3. CASE Spin
  BY <1>3, CkSpin
<1>4. CASE CkPass
  BY <1>4, CkPassed
<1>5. ASSUME NEW flag \in {"Irc8m", "Hxtal", "pll", "switch"}, CkAnswer(flag) PROVE CkIInv'
  BY <1>5, CkAnswered
<1>6. ASSUME NEW label \in {"Usart0", "Usart1"}, NEW baud \in CkBauds, NEW frame \in {"8N1", "9E2"},
             UsartBringUp(label, baud, frame)
      PROVE  CkIInv'
  BY <1>6, CkUsartBringUp
<1>7. ASSUME NEW baud \in CkBauds, SetBaud(baud) PROVE CkIInv'
  BY <1>7, CkSetBaud
<1>8. CASE WriteUsart
  BY <1>8, CkWriteUsart
<1>9. CASE UNCHANGED ckVars
  <2>1. /\ ckTarget' = ckTarget /\ ckRcu' = ckRcu /\ ckStat' = ckStat /\ ckCode' = ckCode
        /\ ckLeft' = ckLeft /\ ckResult' = ckResult /\ ckUsart' = ckUsart /\ ckCount' = ckCount
    BY <1>9 DEF ckVars
  <2>2. Profile' = Profile /\ Valid' = Valid /\ TreeOps' = TreeOps
    BY <2>1, CkTargetKept
  <2>3. ProgramOps' = ProgramOps /\ BaudOps' = BaudOps /\ Rated' = Rated
    BY <2>1 DEF ProgramOps, BaudOps, program, set_baud, Brr, Rated, Clock
  <2>4. CkTypes' /\ CkSilicon'
    BY <2>1, <2>2 DEF CkIInv, CkTypes, CkSilicon, Waits, Divided, Fed, Multiplied
  <2>5. CkTreeInv'
    BY <2>1, <2>2 DEF CkIInv, CkTreeInv, Undivided, Untouched
  <2>6. CkUsartInv'
    BY <2>1, <2>3 DEF CkIInv, CkUsartInv, ClockKnown, Framed
  <2>7. CkCodeInv'
    <3>1. ASSUME NEW k \in 0..11, CkTreeAt(k) PROVE CkTreeAt(k)'
      BY <2>1, <2>2, <3>1 DEF CkTreeAt, Waits, Fed, Multiplied, Undivided
    <3>2. ASSUME NEW k \in 0..5, CkProgramAt(k) PROVE CkProgramAt(k)'
      BY <2>1, <2>3, <3>2 DEF CkProgramAt, Framed
    <3>3. ASSUME NEW k \in 0..2, CkBaudAt(k) PROVE CkBaudAt(k)'
      BY <2>1, <2>3, <3>3 DEF CkBaudAt, Framed
    <3>4. CkCodeInv
      BY DEF CkIInv
    <3> QED BY <2>1, <2>2, <3>1, <3>2, <3>3, <3>4 DEF CkCodeInv
  <2> QED BY <2>4, <2>5, <2>6, <2>7 DEF CkIInv
<1> QED BY <1>1, <1>2, <1>3, <1>4, <1>5, <1>6, <1>7, <1>8, <1>9 DEF CkNext

---------------------------------------------------------------------------
(* What it means for the clocks. *)

\* Division by a positive number, and a product's growth.
LEMMA CkDivides ==
  ASSUME NEW a \in Nat, NEW b \in Nat, b > 0
  PROVE  a \div b \in Nat /\ (a \div b) * b <= a /\ a < (a \div b) * b + b
OBVIOUS
LEMMA CkTimes ==
  ASSUME NEW a \in Nat, NEW b \in Nat, NEW c \in Nat, a <= b
  PROVE  a * c <= b * c /\ a * c \in Nat /\ b * c \in Nat
OBVIOUS

\* What fits a times fits the quotient.
LEMMA CkQuotient ==
  ASSUME NEW a \in Nat, NEW d \in Nat, d > 0, NEW q \in Nat, q * d <= a
  PROVE  q <= a \div d
<1> DEFINE r == a \div d
<1>1. r \in Nat /\ a < r * d + d
  BY CkDivides
<1> HIDE DEF r
<1>2. ASSUME r + 1 <= q PROVE FALSE
  <2>1. (r + 1) * d <= q * d
    BY <1>1, <1>2, CkTimes
  <2>2. (r + 1) * d = r * d + d /\ r * d \in Nat /\ q * d \in Nat
    BY <1>1
  <2> QED BY <1>1, <2>1, <2>2
<1>3. q <= r
  BY <1>1, <1>2
<1> QED BY <1>3 DEF r

\* Dividing twice gives no more than dividing by the product.
LEMMA CkTwice ==
  ASSUME NEW a \in Nat, NEW b \in Nat, b > 0, NEW c \in Nat, c > 0
  PROVE  (a \div b) \div c \in Nat /\ (a \div b) \div c <= a \div (b * c) /\ b * c \in Nat /\ b * c > 0
<1> DEFINE p == a \div b  q == p \div c
<1>1. p \in Nat /\ p * b <= a
  BY CkDivides
<1>2. q \in Nat /\ q * c <= p
  BY <1>1, CkDivides
<1> HIDE DEF p, q
<1>3. q * c \in Nat /\ (q * c) * b <= p * b /\ p * b \in Nat
  BY <1>1, <1>2, CkTimes
<1>4. (q * c) * b = q * (b * c) /\ q * (b * c) \in Nat
  BY <1>2
<1>5. b * c \in Nat /\ b * c > 0
  OBVIOUS
<1>6. q * (b * c) <= a
  BY <1>1, <1>3, <1>4
<1>7. q <= a \div (b * c)
  BY <1>2, <1>5, <1>6, CkQuotient
<1> QED BY <1>2, <1>5, <1>7 DEF p, q

\* A quotient is at most what was divided.
LEMMA CkLess ==
  ASSUME NEW a \in Nat, NEW b \in Nat, b > 0
  PROVE  a \div b \in Nat /\ a \div b <= a
<1> DEFINE q == a \div b
<1>1. q \in Nat /\ q * b <= a
  BY CkDivides
<1> HIDE DEF q
<1>2. q * 1 <= q * b
  <2>1. 1 * q <= b * q
    BY <1>1, CkTimes
  <2> QED BY <1>1, <2>1
<1>3. q * b \in Nat
  BY <1>1
<1> QED BY <1>1, <1>2, <1>3 DEF q

\* Once switched, the clocks are the target's.
LEMMA CkSwitched ==
  ASSUME CkCoherent, CkIInv, "switch" \in ckStat
  PROVE  /\ Valid /\ Waits /\ SysHz = Profile.sysclk /\ AhbHz = Profile.sysclk \div Profile.ahb
         /\ BusHz("Apb1") = AhbHz \div Profile.apb1 /\ BusHz("Apb2") = AhbHz \div Profile.apb2
         /\ Profile.sysclk \in Nat
<1>1. Valid /\ Waits /\ Divided /\ Fed /\ Multiplied
  BY DEF CkIInv, CkSilicon
<1>2. CkTypes
  BY DEF CkIInv
<1>3. /\ Profile.mul \in 2..32 /\ Profile.ahb \in {1, 2, 4, 8, 16, 64, 128, 256, 512}
      /\ Profile.apb1 \in {1, 2, 4, 8, 16} /\ Profile.apb2 \in {1, 2, 4, 8, 16}
  BY <1>1, <1>2, CkLegal
<1>4. Profile.sysclk \in Nat /\ Profile.source \in {"Irc8m", "Hxtal"} /\ Profile.sysclk = SourceHz(Profile) * Profile.mul
  BY <1>2, CkAssumption DEF CkTypes, Profile, CkCoherent
<1>5. SysHz = Profile.sysclk
  <2>1. PllMul(ckRcu.mf) = Profile.mul
    BY <1>1, <1>3, CkPll DEF Multiplied
  <2>2. Irc8m \div 2 = 4000000
    BY DEF Irc8m
  <2>3. (IF ckRcu.sel = "Hxtal" THEN 8000000 ELSE Irc8m \div 2) = SourceHz(Profile)
    BY <1>1, <2>2 DEF Fed, SourceHz
  <2> QED BY <1>4, <2>1, <2>3 DEF SysHz
<1>6. AhbDiv(ckRcu.ahb) = Profile.ahb /\ ApbDiv(ckRcu.apb1) = Profile.apb1 /\ ApbDiv(ckRcu.apb2) = Profile.apb2
  BY <1>1, <1>3, CkAhb, CkApb DEF Divided
<1>7. AhbHz = Profile.sysclk \div Profile.ahb
  BY <1>5, <1>6 DEF AhbHz
<1>8. BusHz("Apb1") = AhbHz \div Profile.apb1 /\ BusHz("Apb2") = AhbHz \div Profile.apb2
  BY <1>6 DEF BusHz
<1> QED BY <1>1, <1>4, <1>5, <1>7, <1>8

\* The flash keeps up.
LEMMA CkFlash ==
  ASSUME CkCoherent, CkIInv
  PROVE  FlashKeepsUp
<1>1. CASE "switch" \in ckStat
  <2>1. SysHz = Profile.sysclk /\ Waits /\ Profile.sysclk \in Nat
    BY <1>1, CkSwitched
  <2> QED BY <2>1 DEF FlashKeepsUp, Waits, wait_states_for
<1>2. CASE "switch" \notin ckStat
  BY <1>2 DEF FlashKeepsUp, SysHz, Irc8m
<1> QED BY <1>1, <1>2

\* The buses stay in bounds.
LEMMA CkBuses ==
  ASSUME CkCoherent, CkIInv
  PROVE  BusInBounds
<1>1. CASE "switch" \in ckStat
  <2>1. /\ Valid /\ AhbHz = Profile.sysclk \div Profile.ahb /\ Profile.sysclk \in Nat
        /\ BusHz("Apb1") = AhbHz \div Profile.apb1 /\ BusHz("Apb2") = AhbHz \div Profile.apb2
    BY <1>1, CkSwitched
  <2>2. /\ Profile.ahb \in Nat /\ Profile.ahb > 0 /\ Profile.apb1 \in Nat /\ Profile.apb1 > 0
        /\ Profile.apb2 \in Nat /\ Profile.apb2 > 0
    <3>1. CkTypes
      BY DEF CkIInv
    <3> QED BY <2>1, <3>1, CkLegal
  <2>3. ASSUME NEW c \in Nat, c > 0
        PROVE  (Profile.sysclk \div Profile.ahb) \div c <= Ceiling(Profile.ahb * c)
    <3> DEFINE d == Profile.ahb * c  n == Profile.sysclk  x == (n \div Profile.ahb) \div c  y == n \div d
    <3>1. d \in Nat /\ d > 0 /\ x \in Nat /\ x <= y
      BY <2>1, <2>2, <2>3, CkTwice
    <3>2. y \in Nat
      BY <2>1, <3>1, CkDivides
    <3>3. Ceiling(d) = IF y > 8000000 THEN y ELSE 8000000
      <4> HIDE DEF d
      <4> QED BY <3>1 DEF Ceiling, Profile
    <3> HIDE DEF d, x, y
    <3>4. x <= Ceiling(d)
      BY <3>1, <3>2, <3>3
    <3> QED BY <3>4 DEF d, x
  <2>4. /\ BusHz("Apb1") <= Ceiling(Profile.ahb * Profile.apb1)
        /\ BusHz("Apb2") <= Ceiling(Profile.ahb * Profile.apb2)
    BY <2>1, <2>2, <2>3
  <2> QED BY <2>4 DEF BusInBounds, Profile
<1>2. CASE "switch" \notin ckStat
  <2>1. SysHz = 8000000
    BY <1>2 DEF SysHz, Irc8m
  <2>2. ckRcu.ahb \in {0} \cup 8..15 /\ ckRcu.apb1 \in {0} \cup 4..7 /\ ckRcu.apb2 \in {0} \cup 4..7
    BY DEF CkIInv, CkTypes, CkRcuSet
  <2>3. AhbHz \in Nat /\ AhbHz <= 8000000
    BY <2>1, <2>2, CkDivs, CkLess DEF AhbHz
  <2>4. /\ BusHz("Apb1") \in Nat /\ BusHz("Apb1") <= AhbHz
        /\ BusHz("Apb2") \in Nat /\ BusHz("Apb2") <= AhbHz
    BY <2>2, <2>3, CkDivs, CkLess DEF BusHz
  <2>5. ckTarget.profile \in CkProfiles
    BY DEF CkIInv, CkTypes
  <2>6. /\ ckTarget.profile.sysclk \in Nat /\ ckTarget.profile.ahb * ckTarget.profile.apb1 \in Nat
        /\ ckTarget.profile.ahb * ckTarget.profile.apb2 \in Nat
    BY <2>5, CkAssumption
  <2>7. ASSUME NEW d \in Nat PROVE 8000000 <= Ceiling(d)
    <3>1. CASE d > 0
      <4>1. ckTarget.profile.sysclk \div d \in Nat
        BY <2>6, <3>1, CkDivides
      <4> QED BY <4>1 DEF Ceiling
    <3>2. CASE ~(d > 0)
      BY <3>2 DEF Ceiling
    <3> QED BY <3>1, <3>2
  <2>8. Ceiling(ckTarget.profile.ahb * ckTarget.profile.apb1) \in Nat
        /\ Ceiling(ckTarget.profile.ahb * ckTarget.profile.apb2) \in Nat
    <3>1. ASSUME NEW d \in Nat PROVE Ceiling(d) \in Nat
      <4>1. CASE d > 0
        <5>1. ckTarget.profile.sysclk \div d \in Nat
          BY <2>6, <4>1, CkDivides
        <5> QED BY <5>1 DEF Ceiling
      <4>2. CASE ~(d > 0)
        BY <4>2 DEF Ceiling
      <4> QED BY <4>1, <4>2
    <3> QED BY <2>6, <3>1
  <2>9. /\ 8000000 <= Ceiling(ckTarget.profile.ahb * ckTarget.profile.apb1)
        /\ 8000000 <= Ceiling(ckTarget.profile.ahb * ckTarget.profile.apb2)
    BY <2>6, <2>7
  <2> QED BY <2>3, <2>4, <2>8, <2>9 DEF BusInBounds
<1> QED BY <1>1, <1>2

\* What Ok and a refusal mean.
LEMMA CkOk ==
  ASSUME CkCoherent, CkIInv
  PROVE  OkMeansTarget
<1>1. CkTreeInv /\ CkSilicon
  BY DEF CkIInv
<1>2. CASE ckResult = "Ok"
  <2>1. "switch" \in ckStat
    BY <1>1, <1>2 DEF CkTreeInv
  <2> QED BY <1>2, <2>1, CkSwitched DEF OkMeansTarget, Profile
<1>3. CASE ckResult \in CkRefusals
  <2>1. Untouched
    BY <1>1, <1>3 DEF CkTreeInv, CkRefusals
  <2>2. "switch" \notin ckStat
    BY <1>1, <2>1 DEF CkSilicon, Untouched, Undivided
  <2> QED BY <1>3, <2>1, <2>2 DEF OkMeansTarget, CkRefusals, Untouched, SysHz
<1>4. CASE ckResult # "Ok" /\ ckResult \notin CkRefusals
  BY <1>4 DEF OkMeansTarget, CkRefusals
<1> QED BY <1>2, <1>3, <1>4

\* The tree a USART is programmed from is the one that runs.
LEMMA CkFeeds ==
  ASSUME CkCoherent, CkIInv, ClockKnown, NEW label \in {"Usart0", "Usart1"}
  PROVE  BusHz(UsartBus(label)) = usart_input_clock(Clock, UsartBus(label))
<1>1. CkTreeInv /\ CkSilicon
  BY DEF CkIInv
<1>2. CASE ckResult = "Ok"
  <2>1. "switch" \in ckStat
    BY <1>1, <1>2 DEF CkTreeInv
  <2>2. /\ AhbHz = Profile.sysclk \div Profile.ahb
        /\ BusHz("Apb1") = AhbHz \div Profile.apb1 /\ BusHz("Apb2") = AhbHz \div Profile.apb2
    BY <2>1, CkSwitched
  <2>3. Clock = Profile
    BY <1>2 DEF Clock, Profile
  <2> QED BY <2>2, <2>3 DEF usart_input_clock, UsartBus
<1>3. CASE ckResult # "Ok"
  <2>1. Undivided
    BY <1>1, <1>3 DEF ClockKnown, CkTreeInv, CkRefusals, Untouched
  <2>2. SysHz = 8000000
    BY <1>1, <2>1 DEF CkSilicon, Undivided, SysHz, Irc8m
  <2>3. AhbHz = 8000000
    BY <2>1, <2>2, CkDivs DEF AhbHz, Undivided
  <2>4. BusHz("Apb1") = 8000000 /\ BusHz("Apb2") = 8000000
    BY <2>1, <2>3, CkDivs DEF BusHz, Undivided
  <2>5. Clock = RESET_8M
    BY <1>3 DEF Clock
  <2> QED BY <2>4, <2>5 DEF usart_input_clock, UsartBus, RESET_8M
<1> QED BY <1>2, <1>3

\* The divider rounds to the nearest.
LEMMA CkNearest ==
  ASSUME NEW u \in Nat, NEW baud \in Nat, baud > 0, u \div baud < 65535
  PROVE  LET got == compute_brr(u, baud) * baud
         IN 2 * (IF got > u THEN got - u ELSE u - got) <= baud
<1> DEFINE h == baud \div 2  q == (u + h) \div baud  r == u \div baud
<1>1. h \in Nat /\ h * 2 <= baud /\ baud < h * 2 + 2
  BY CkDivides
<1>2. r \in Nat /\ u < r * baud + baud /\ r < 65535
  BY CkDivides
<1> HIDE DEF h, r
<1>3. q \in Nat /\ q * baud <= u + h /\ u + h < q * baud + baud
  <2>1. u + h \in Nat
    BY <1>1
  <2> QED BY <2>1, CkDivides
<1>4. compute_brr(u, baud) = q % 65536
  BY DEF compute_brr, h
<1> HIDE DEF q
<1>5. q < 65536
  <2>1. ASSUME r + 2 <= q PROVE FALSE
    <3>1. (r + 2) * baud <= q * baud
      BY <1>2, <1>3, <2>1, CkTimes
    <3>2. (r + 2) * baud = r * baud + 2 * baud /\ r * baud \in Nat /\ q * baud \in Nat
      BY <1>2, <1>3
    <3> QED BY <1>1, <1>2, <1>3, <3>1, <3>2
  <2> QED BY <1>2, <1>3, <2>1
<1>6. compute_brr(u, baud) = q
  BY <1>3, <1>4, <1>5
<1> DEFINE g == q * baud
<1>7. g \in Nat /\ g <= u + h /\ u + h < g + baud
  BY <1>3
<1> HIDE DEF g
<1>8. 2 * (IF g > u THEN g - u ELSE u - g) <= baud
  BY <1>1, <1>7
<1> QED BY <1>6, <1>8 DEF g

\* A USART that is on has its rate, and its whole program.
LEMMA CkBaudTrue ==
  ASSUME CkCoherent, CkIInv
  PROVE  BaudTrue
<1>1. SUFFICES ASSUME ckUsart.uen, ckCode = << >>
               PROVE  LET uclk == BusHz(UsartBus(ckUsart.label))
                          baud == ckUsart.want.baud
                          got == ckUsart.regs.brr * baud
                      IN uclk \div baud < 65535 => 2 * (IF got > uclk THEN got - uclk ELSE uclk - got) <= baud
  BY DEF BaudTrue
<1>2. CkTypes /\ CkTreeInv /\ CkUsartInv
  BY DEF CkIInv
<1>3. ckCount.programs > 0
  BY <1>1, <1>2 DEF CkUsartInv, CkTypes
<1>4. ClockKnown /\ ckUsart.want.baud > 0 /\ Rated
  BY <1>1, <1>2, <1>3 DEF CkUsartInv
<1>5. ckUsart.label \in {"Usart0", "Usart1"} /\ ckUsart.want.baud \in Nat \ {0}
  BY <1>2, <1>4 DEF CkTypes, CkUsartSet
<1> DEFINE u == usart_input_clock(Clock, UsartBus(ckUsart.label))  b == ckUsart.want.baud
<1>6. u \in Nat
  BY <1>2, <1>5, CkBrrNat
<1>7. BusHz(UsartBus(ckUsart.label)) = u
  BY <1>4, <1>5, CkFeeds
<1>8. ckUsart.regs.brr = compute_brr(u, b)
  BY <1>4 DEF Rated
<1>9. b \in Nat /\ b > 0
  BY <1>5
<1> HIDE DEF u, b
<1>10. u \div b < 65535 =>
         LET got == compute_brr(u, b) * b IN 2 * (IF got > u THEN got - u ELSE u - got) <= b
  BY <1>6, <1>9, CkNearest
<1> QED BY <1>7, <1>8, <1>10 DEF b

LEMMA CkWhole ==
  ASSUME CkIInv
  PROVE  UsartWhole
<1>1. CkTypes /\ CkCodeInv /\ CkUsartInv
  BY DEF CkIInv
<1>2. SUFFICES ASSUME ckUsart.uen
               PROVE  \/ Doing("usart") /\ ckCode[1].field = "uen"
                      \/ ckCode = << >> /\ ckUsart.regs.frame = ckUsart.want.frame /\ ckUsart.regs.on = {"REN", "TEN"}
  BY DEF UsartWhole
<1>3. ckCount.programs > 0
  BY <1>1, <1>2 DEF CkUsartInv, CkTypes
<1>4. CASE ckCode = << >>
  BY <1>1, <1>3, <1>4 DEF CkUsartInv, Framed
<1>5. CASE ckCode # << >>
  <2>1. ckResult # "running"
    BY <1>1, <1>3, <1>5 DEF CkCodeInv
  <2>2. ckCode[1].op = "usart"
    BY <1>1, <1>5, <2>1, CkUsartHead
  <2>3. ASSUME NEW k \in 0..5, CkProgramAt(k), ckCode[1] = ProgramOps[k + 1] PROVE ckCode[1].field = "uen"
    <3>1. k = 0
      BY <1>2, <2>3 DEF CkProgramAt
    <3> QED BY <2>3, <3>1, CkProgramOps DEF U
  <2>4. ASSUME NEW k \in 0..2, CkBaudAt(k), ckCode[1] = BaudOps[k + 1] PROVE ckCode[1].field = "uen"
    <3>1. k = 0
      BY <1>2, <2>4 DEF CkBaudAt
    <3> QED BY <2>4, <3>1, CkBaudOps DEF U
  <2>5. ckCode[1].field = "uen"
    BY <1>1, <1>5, <2>1, <2>3, <2>4, CkUsartHead
  <2> QED BY <1>5, <2>2, <2>5 DEF Doing
<1> QED BY <1>4, <1>5

---------------------------------------------------------------------------
(* The enable bits. *)

\* Whose a bit is.
CkOwner(bit) ==
  CASE bit[1] = "APB1EN" ->
         (CASE bit[2] = 0 -> "Timer1" [] bit[2] = 17 -> "Usart1" [] bit[2] = 18 -> "Usart2"
            [] bit[2] = 21 -> "I2c0" [] OTHER -> "I2c1")
    [] bit[1] = "AHBEN" ->
         (CASE bit[2] = 17 -> "Gpioa" [] bit[2] = 18 -> "Gpiob" [] bit[2] = 19 -> "Gpioc"
            [] bit[2] = 20 -> "Gpiod" [] OTHER -> "Gpiof")
    [] OTHER ->
         (CASE bit[2] = 2 -> "Gpioa" [] bit[2] = 3 -> "Gpiob" [] bit[2] = 4 -> "Gpioc"
            [] bit[2] = 5 -> "Gpiod" [] bit[2] = 7 -> "Gpiof" [] bit[2] = 9 -> "Adc0"
            [] bit[2] = 10 -> "Adc1" [] bit[2] = 11 -> "Timer0" [] bit[2] = 12 -> "Spi0"
            [] bit[2] = 13 -> "Timer7" [] bit[2] = 14 -> "Usart0" [] OTHER -> "Adc2")

\* Every label's bit is its own.
LEMMA CkOwned ==
  ASSUME NEW path \in Families, NEW l \in Labels, NEW bit \in EnableBit(path, l)
  PROVE  CkOwner(bit) = l
<1>1. path \in {"F1x0", "F10x"}
  BY DEF Families
<1>2. CASE l = "Gpioa"
  <2>1. bit = (IF path = "F10x" THEN <<"APB2EN", 2>> ELSE <<"AHBEN", 17>>)
    BY <1>2 DEF EnableBit, Ports, GpioEnable, PortIndex
  <2> QED BY <1>2, <2>1 DEF CkOwner
<1>3. CASE l = "Gpiob"
  <2>1. bit = (IF path = "F10x" THEN <<"APB2EN", 3>> ELSE <<"AHBEN", 18>>)
    BY <1>3 DEF EnableBit, Ports, GpioEnable, PortIndex
  <2> QED BY <1>3, <2>1 DEF CkOwner
<1>4. CASE l = "Gpioc"
  <2>1. bit = (IF path = "F10x" THEN <<"APB2EN", 4>> ELSE <<"AHBEN", 19>>)
    BY <1>4 DEF EnableBit, Ports, GpioEnable, PortIndex
  <2> QED BY <1>4, <2>1 DEF CkOwner
<1>5. CASE l = "Gpiod"
  <2>1. bit = (IF path = "F10x" THEN <<"APB2EN", 5>> ELSE <<"AHBEN", 20>>)
    BY <1>5 DEF EnableBit, Ports, GpioEnable, PortIndex
  <2> QED BY <1>5, <2>1 DEF CkOwner
<1>6. CASE l = "Gpiof"
  <2>1. bit = (IF path = "F10x" THEN <<"APB2EN", 7>> ELSE <<"AHBEN", 22>>)
    BY <1>6 DEF EnableBit, Ports, GpioEnable, PortIndex
  <2> QED BY <1>6, <2>1 DEF CkOwner
<1>7. CASE l = "Usart0"
  <2>1. bit = <<"APB2EN", 14>>
    BY <1>7 DEF EnableBit, Ports, UsartEnable
  <2> QED BY <1>7, <2>1 DEF CkOwner
<1>8. CASE l = "Usart1"
  <2>1. bit = <<"APB1EN", 17>>
    BY <1>8 DEF EnableBit, Ports, UsartEnable
  <2> QED BY <1>8, <2>1 DEF CkOwner
<1>9. CASE l = "Usart2"
  <2>1. bit = <<"APB1EN", 18>>
    BY <1>9 DEF EnableBit, Ports, UsartEnable
  <2> QED BY <1>9, <2>1 DEF CkOwner
<1>10. CASE l = "Rcu"
  BY <1>10 DEF EnableBit, Ports
<1>11. CASE l = "I2c0"
  <2>1. bit = <<"APB1EN", 21>>
    BY <1>11 DEF EnableBit, Ports, I2cEnable
  <2> QED BY <1>11, <2>1 DEF CkOwner
<1>12. CASE l = "I2c1"
  <2>1. bit = <<"APB1EN", 22>>
    BY <1>12 DEF EnableBit, Ports, I2cEnable
  <2> QED BY <1>12, <2>1 DEF CkOwner
<1>13. CASE l = "Spi0"
  <2>1. bit = <<"APB2EN", 12>>
    BY <1>13 DEF EnableBit, Ports, SpiEnable
  <2> QED BY <1>13, <2>1 DEF CkOwner
<1>14. CASE l = "Adc0"
  <2>1. bit = <<"APB2EN", 9>>
    BY <1>14 DEF EnableBit, Ports, AdcEnable
  <2> QED BY <1>14, <2>1 DEF CkOwner
<1>15. CASE l = "Adc1"
  <2>1. bit = <<"APB2EN", 10>>
    BY <1>15 DEF EnableBit, Ports, AdcEnable
  <2> QED BY <1>15, <2>1 DEF CkOwner
<1>16. CASE l = "Adc2"
  <2>1. bit = <<"APB2EN", 15>>
    BY <1>16 DEF EnableBit, Ports, AdcEnable
  <2> QED BY <1>16, <2>1 DEF CkOwner
<1>17. CASE l = "Timer0"
  <2>1. bit = <<"APB2EN", 11>>
    BY <1>17 DEF EnableBit, Ports, TimerEnable
  <2> QED BY <1>17, <2>1 DEF CkOwner
<1>18. CASE l = "Timer7"
  <2>1. bit = <<"APB2EN", 13>>
    BY <1>18 DEF EnableBit, Ports, TimerEnable
  <2> QED BY <1>18, <2>1 DEF CkOwner
<1>19. CASE l = "Fwdgt"
  BY <1>19 DEF EnableBit, Ports
<1>20. CASE l = "Timer1"
  <2>1. bit = <<"APB1EN", 0>>
    BY <1>20 DEF EnableBit, Ports, TimerEnable
  <2> QED BY <1>20, <2>1 DEF CkOwner
<1>21. CASE l = "UniqueId"
  BY <1>21 DEF EnableBit, Ports
<1> QED BY <1>2, <1>3, <1>4, <1>5, <1>6, <1>7, <1>8, <1>9, <1>10, <1>11, <1>12, <1>13, <1>14, <1>15, <1>16, <1>17, <1>18, <1>19, <1>20, <1>21 DEF Labels, Ports

LEMMA CkEnables ==
  ASSUME CkTypes
  PROVE  EnablesDistinct
<1>1. ckTarget.path \in Families
  BY DEF CkTypes
<1>2. ASSUME NEW l \in Labels, NEW m \in Labels, l # m
      PROVE  EnableBit(ckTarget.path, l) \cap EnableBit(ckTarget.path, m) = {}
  BY <1>1, <1>2, CkOwned
<1>3. ASSUME NEW unit \in DOMAIN ProbeBit
      PROVE  EnableBit(ckTarget.path, unit) \subseteq {<<"APB2EN", ProbeBit[unit]>>}
  <2>1. unit \in {"Timer0", "Timer7", "Adc0", "Adc1", "Adc2"}
    BY DEF ProbeBit
  <2>2. CASE unit = "Timer0"
    BY <2>2 DEF ProbeBit, EnableBit, Ports, TimerEnable
  <2>3. CASE unit = "Timer7"
    BY <2>3 DEF ProbeBit, EnableBit, Ports, TimerEnable
  <2>4. CASE unit = "Adc0"
    BY <2>4 DEF ProbeBit, EnableBit, Ports, AdcEnable
  <2>5. CASE unit = "Adc1"
    BY <2>5 DEF ProbeBit, EnableBit, Ports, AdcEnable
  <2>6. CASE unit = "Adc2"
    BY <2>6 DEF ProbeBit, EnableBit, Ports, AdcEnable
  <2> QED BY <2>1, <2>2, <2>3, <2>4, <2>5, <2>6
<1> QED BY <1>2, <1>3 DEF EnablesDistinct

\* The bring-up is safe, for every set of coherent targets, every budget, every
\* number of calls and every rate: the flash and the buses are never driven
\* beyond what they bear, the switch is only to a locked source, Ok means the
\* frequency asked for, and a USART's rate is one of the clock that runs.
THEOREM ClockSafety ==
  ASSUME CkCoherent
  PROVE  CkSpec => []CkSafe
<1>1. CkInit => CkIInv
  BY CkStart
<1>2. CkIInv /\ [CkNext]_ckVars => CkIInv'
  BY CkStep
<1>3. CkIInv => CkSafe
  <2>1. SUFFICES ASSUME CkIInv PROVE CkSafe
    OBVIOUS
  <2>2. CkTypes /\ CkSilicon
    BY <2>1 DEF CkIInv
  <2>3. CkTypeOK
    BY <2>2 DEF CkTypes, CkTypeOK, CkRcuSet, CkRefusals, CkGiveUps
  <2>4. SwitchOnlyLocked
    BY <2>2 DEF CkSilicon, SwitchOnlyLocked
  <2> QED BY <2>1, <2>2, <2>3, <2>4, CkFlash, CkBuses, CkOk, CkBaudTrue, CkWhole, CkEnables DEF CkSafe
<1> QED BY <1>1, <1>2, <1>3, PTL DEF CkSpec
=============================================================================
