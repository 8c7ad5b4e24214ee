------------------------------- MODULE Links -------------------------------
(***************************************************************************)
(* Two boards that talk over crossed USARTs with polled bytes: the         *)
(* ping-pong of firmware/src/main.rs ("pingpong", a F10x master and a F1x0 *)
(* slave) and the counters of examples usart_link ("counter", one image on *)
(* both).  A character lasts less than any of the delays.                  *)
(***************************************************************************)
EXTENDS Integers, FiniteSets

CONSTANTS
  LkSends,     \* bytes a board sends
  LkPeriod,    \* SEND_PERIOD_TICKS
  LkFaults     \* faults of the line

ASSUME LkSends \in Nat /\ LkPeriod \in Nat \ {0} /\ LkFaults \in Nat

VARIABLES
  lkImage,     \* the image
  lkCpu,       \* per board: where it is, its tick, what it received last, its counter, its LEDs
  lkRx,        \* per board: RDATA, ORE, FE
  lkWire,      \* per board: the character on its way to it
  lkSeen,      \* history, per board: bytes sent, pulses, the last byte the line brought,
               \* how many since its last fault, whether it was drained since
  lkFaults,    \* history: faults of the line so far
  lkLost       \* history: whether a character was lost, garbled or overrun

lkVars == <<lkImage, lkCpu, lkRx, lkWire, lkSeen, lkFaults, lkLost>>

LkBoards == {"m", "s"}
LkOther(b) == IF b = "m" THEN "s" ELSE "m"
LkFamily(b) == IF b = "m" THEN "F10x" ELSE "F1x0"
PROBE == 2
Garbage == 1
NoByte == -1
Chars == 0 .. 3
Quiet == [held |-> NoByte, ore |-> FALSE, fe |-> FALSE]

LkInit ==
  /\ lkImage \in {"pingpong", "counter"}
  /\ lkCpu = [b \in LkBoards |->
       [pc |-> CASE lkImage = "counter" -> "drain" [] b = "m" -> "send" [] OTHER -> "poll",
        tick |-> 0, last |-> NoByte, counter |-> 0, leds |-> 0]]
  /\ lkRx = [b \in LkBoards |-> Quiet] /\ lkWire = [b \in LkBoards |-> NoByte]
  /\ lkSeen = [b \in LkBoards |-> [sent |-> 0, pulses |-> 0, last |-> NoByte, clean |-> 0, fresh |-> FALSE]]
  /\ lkFaults = 0 /\ lkLost = FALSE

LkAt(b, image, pc) == lkImage = image /\ lkCpu[b].pc = pc
LkTo(b, pc) == lkCpu' = [lkCpu EXCEPT ![b].pc = pc]

(***************************************************************************)
(* The receivers and the line                                              *)
(***************************************************************************)
\* A character meets a byte that was not read: it is gone, and ORE says so.
LkReceived(rx, c, fe) ==
  IF rx.held # NoByte THEN [rx EXCEPT !.ore = TRUE] ELSE [rx EXCEPT !.held = c, !.fe = fe]

Deliver(b) ==
  /\ lkWire[b] # NoByte
  /\ lkRx' = [lkRx EXCEPT ![b] = LkReceived(@, lkWire[b], FALSE)]
  /\ lkSeen' = [lkSeen EXCEPT ![b].last = lkWire[b], ![b].fresh = TRUE,
                              ![b].clean = IF @ = 2 THEN 2 ELSE @ + 1]
  /\ lkLost' = (lkLost \/ lkRx[b].held # NoByte)
  /\ lkWire' = [lkWire EXCEPT ![b] = NoByte]
  /\ UNCHANGED <<lkImage, lkCpu, lkFaults>>

\* The line loses a character, garbles one, or makes one up.
Fault(b) ==
  /\ lkFaults < LkFaults /\ lkFaults' = lkFaults + 1
  /\ \/ lkWire[b] # NoByte /\ UNCHANGED lkRx /\ lkLost' = TRUE
     \/ /\ lkWire[b] # NoByte
        /\ lkRx' = [lkRx EXCEPT ![b] = LkReceived(@, Garbage, TRUE)] /\ lkLost' = TRUE
     \/ /\ lkWire[b] = NoByte /\ UNCHANGED lkLost
        /\ \E fe \in BOOLEAN : lkRx' = [lkRx EXCEPT ![b] = LkReceived(@, Garbage, fe)]
  /\ lkWire' = [lkWire EXCEPT ![b] = NoByte]
  /\ lkSeen' = [lkSeen EXCEPT ![b].clean = 0]
  /\ UNCHANGED <<lkImage, lkCpu>>

\* clear_line_errors: INTC on a F1x0; on a F10x the read of RDATA that clears
\* the flags takes the byte with it.
clear_line_errors(b) ==
  [lkRx[b] EXCEPT !.ore = FALSE, !.fe = FALSE, !.held = IF LkFamily(b) = "F10x" THEN NoByte ELSE @]

\* Mutant: an overrun is reported and left.
ReadLeavesOverrun(b) ==
  IF lkRx[b].ore THEN [got |-> "None", v |-> NoByte, rx |-> lkRx[b]]
  ELSE IF lkRx[b].fe THEN [got |-> "Err", v |-> NoByte, rx |-> clear_line_errors(b)]
  ELSE IF lkRx[b].held = NoByte THEN [got |-> "None", v |-> NoByte, rx |-> lkRx[b]]
  ELSE [got |-> "Some", v |-> lkRx[b].held, rx |-> Quiet]

\* try_read_byte: an overrun is cleared and what is left is read; a framing
\* error is cleared and returned.
try_read_byte(b) ==
  LET after == IF lkRx[b].ore THEN clear_line_errors(b) ELSE lkRx[b]
  IN IF ~lkRx[b].ore /\ lkRx[b].fe THEN [got |-> "Err", v |-> NoByte, rx |-> clear_line_errors(b)]
     ELSE IF after.held = NoByte THEN [got |-> "None", v |-> NoByte, rx |-> after]
     ELSE [got |-> "Some", v |-> after.held, rx |-> Quiet]

\* What the read leaves; clearing an overrun may have cost the byte before it.
Take(b, r) ==
  /\ lkRx' = [lkRx EXCEPT ![b] = r.rx]
  /\ lkLost' = (lkLost \/ (lkRx[b].ore /\ r.rx = Quiet /\ r.got = "None"))

\* write_byte: it returns once the character has left.
LkWrite(b, v) ==
  /\ lkSeen[b].sent < LkSends /\ lkWire[LkOther(b)] = NoByte
  /\ lkWire' = [lkWire EXCEPT ![LkOther(b)] = v]
  /\ lkSeen' = [lkSeen EXCEPT ![b].sent = @ + 1]

(***************************************************************************)
(* The ping-pong                                                           *)
(***************************************************************************)
MasterSend ==
  /\ LkAt("m", "pingpong", "send") /\ LkWrite("m", PROBE) /\ LkTo("m", "sent")
  /\ UNCHANGED <<lkImage, lkRx, lkFaults, lkLost>>

SlaveEcho ==
  /\ LkAt("s", "pingpong", "echo") /\ LkWrite("s", PROBE) /\ LkTo("s", "sent")
  /\ UNCHANGED <<lkImage, lkRx, lkFaults, lkLost>>

LkSent(b) ==
  /\ LkAt(b, "pingpong", "sent") /\ lkWire[LkOther(b)] = NoByte
  /\ LkTo(b, IF b = "m" THEN "await" ELSE "pulse")
  /\ UNCHANGED <<lkImage, lkRx, lkWire, lkSeen, lkFaults, lkLost>>

\* Any byte and any error ends the round; no byte, and it polls on.
MasterAwait ==
  /\ LkAt("m", "pingpong", "await")
  /\ LET r == try_read_byte("m")
     IN /\ Take("m", r)
        /\ IF r.got = "None" THEN UNCHANGED lkCpu
           ELSE LkTo("m", IF r.v = PROBE THEN "pulse" ELSE "gap")
  /\ UNCHANGED <<lkImage, lkWire, lkSeen, lkFaults>>

SlavePoll ==
  /\ LkAt("s", "pingpong", "poll")
  /\ LET r == try_read_byte("s")
     IN /\ Take("s", r)
        /\ LkTo("s", IF r.v = PROBE THEN "echo" ELSE "poll")
  /\ UNCHANGED <<lkImage, lkWire, lkSeen, lkFaults>>

Pulse(b) ==
  /\ LkAt(b, "pingpong", "pulse") /\ LkTo(b, IF b = "m" THEN "gap" ELSE "poll")
  /\ lkSeen' = [lkSeen EXCEPT ![b].pulses = @ + 1]
  /\ UNCHANGED <<lkImage, lkRx, lkWire, lkFaults, lkLost>>

\* The gap of 400000 turns outlasts the slave's pulse of 240000 and any character.
GapEnds ==
  /\ LkAt("m", "pingpong", "gap") /\ lkCpu["s"].pc = "poll" /\ lkRx["s"] = Quiet
  /\ \A b \in LkBoards : lkWire[b] = NoByte
  /\ LkTo("m", "send")
  /\ UNCHANGED <<lkImage, lkRx, lkWire, lkSeen, lkFaults, lkLost>>

(***************************************************************************)
(* The counters                                                            *)
(***************************************************************************)
\* The drain goes on to the first None or Err.
LkDrain(b) ==
  /\ LkAt(b, "counter", "drain")
  /\ LET r == try_read_byte(b)
     IN /\ Take(b, r)
        /\ lkCpu' = [lkCpu EXCEPT ![b].last = IF r.got = "Some" THEN r.v ELSE @,
                                  ![b].pc = IF r.got = "Some" THEN "drain" ELSE "show"]
        /\ lkSeen' = [lkSeen EXCEPT ![b].fresh = @ /\ r.got = "Some"]
  /\ UNCHANGED <<lkImage, lkWire, lkFaults>>

\* The LEDs, and the counter every LkPeriod ticks: at most one character is on
\* the wire in a period, as a drain a tick keeps up with.
Show(b) ==
  /\ LkAt(b, "counter", "show")
  /\ LET c == lkCpu[b]
         leds == IF c.last = NoByte THEN c.leds ELSE c.last
         next == [c EXCEPT !.leds = leds, !.pc = "delay"]
     IN IF c.tick + 1 >= LkPeriod
        THEN /\ ~lkSeen[LkOther(b)].fresh
             /\ LkWrite(b, (c.counter + 1) % 4)
             /\ lkCpu' = [lkCpu EXCEPT ![b] = [next EXCEPT !.tick = 0, !.counter = (@ + 1) % 4]]
        ELSE /\ lkCpu' = [lkCpu EXCEPT ![b] = [next EXCEPT !.tick = @ + 1]]
             /\ UNCHANGED <<lkWire, lkSeen>>
  /\ UNCHANGED <<lkImage, lkRx, lkFaults, lkLost>>

LkDelay(b) ==
  /\ LkAt(b, "counter", "delay") /\ lkWire[LkOther(b)] = NoByte /\ LkTo(b, "drain")
  /\ UNCHANGED <<lkImage, lkRx, lkWire, lkSeen, lkFaults, lkLost>>

LkNext ==
  \/ \E b \in LkBoards :
       Deliver(b) \/ Fault(b) \/ LkSent(b) \/ Pulse(b) \/ LkDrain(b) \/ Show(b) \/ LkDelay(b)
  \/ MasterSend \/ SlaveEcho \/ MasterAwait \/ SlavePoll \/ GapEnds

LkSpec == LkInit /\ [][LkNext]_lkVars

(***************************************************************************)
(* Properties                                                              *)
(***************************************************************************)
\* Types; a receiver that holds no byte holds no error of one either.
LkTypeOK ==
  /\ lkImage \in {"pingpong", "counter"} /\ lkFaults \in 0 .. LkFaults /\ lkLost \in BOOLEAN
  /\ \A b \in LkBoards :
       /\ lkCpu[b].pc \in (IF lkImage = "counter" THEN {"drain", "show", "delay"}
            ELSE IF b = "m" THEN {"send", "sent", "await", "pulse", "gap"}
            ELSE {"poll", "echo", "sent", "pulse"})
       /\ lkWire[b] \in Chars \cup {NoByte}
       /\ lkRx[b].held = NoByte => lkRx[b] = Quiet
       /\ lkSeen[b].sent \in 0 .. LkSends

\* The master polls without a timeout and the slave speaks only when spoken
\* to: the two wait for each other only when a character was lost, on the line
\* or to an overrun. An error or a stray byte that hit nothing stops neither.
NoMutualWait ==
  /\ lkImage = "pingpong" /\ lkCpu["m"].pc = "await" /\ lkCpu["s"].pc = "poll"
  /\ (\A b \in LkBoards : lkWire[b] = NoByte /\ try_read_byte(b).got = "None"
                           /\ try_read_byte(b).rx = lkRx[b])
  => lkLost

\* A pulse of the master's buzzer answers a probe: it has had no more echoes
\* than the slave sent, and the slave pulses no more than it was probed.
PulsesAnswer ==
  lkImage = "pingpong" =>
    /\ lkSeen["m"].pulses <= lkSeen["s"].sent
    /\ lkSeen["s"].pulses <= lkSeen["s"].sent /\ lkSeen["s"].sent <= lkSeen["m"].sent
    /\ lkFaults = 0 => lkSeen["m"].sent <= lkSeen["m"].pulses + 1

\* A board that has drained its receiver shows the last byte the line brought,
\* when the line has brought two without a fault: an overrun or an error costs
\* the characters it hit and strands none after them.
LedsLatest ==
  lkImage = "counter" => \A b \in LkBoards :
    lkCpu[b].pc = "delay" /\ ~lkSeen[b].fresh /\ lkSeen[b].clean = 2 =>
      lkCpu[b].leds = lkSeen[b].last

\* What the two link programs promise: no two boards waiting for each other
\* while nothing was lost, a pulse for an echo that came, LEDs of the latest
\* character drained.
LkSafe ==
  /\ LkTypeOK
  /\ NoMutualWait
  /\ PulsesAnswer
  /\ LedsLatest
==============================================================================
