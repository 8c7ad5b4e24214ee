-------------------------------- MODULE DmaTx --------------------------------
(***************************************************************************)
(* The one-shot DMA transmitter (src/src/usart_tx.rs, DmaTx) over the      *)
(* transmit channels and their contexts (src/src/dma.rs).                  *)
(*                                                                         *)
(* The main loop owns every port and makes one call at a time; try_send    *)
(* and release are broken at their accesses to what the channel or the     *)
(* completion interrupt also touches.  The channel fetches bytes from the  *)
(* port's buffer at any time, also in the middle of a call.  The interrupt *)
(* runs between two steps of the main loop; after its test of FTFIF the    *)
(* channel has stopped by itself, so its four writes are one step.         *)
(*                                                                         *)
(* Time is CYCCNT, the free-running counter the deadlines are measured     *)
(* on, reduced to W values.  A wedged channel fetches nothing until it is  *)
(* disabled.                                                               *)
(***************************************************************************)
EXTENDS Integers

CONSTANTS
  Port,         \* the USART instances that transmit by DMA
  Frame,        \* contents a frame may have
  BufLen,       \* length of a port's 'static buffer
  PerByte,      \* DmaTx::per_byte, cycles of deadline per byte
  W,            \* modulus of CYCCNT (2^32)
  MaxTimeouts,  \* where timeouts saturates (u16::MAX)
  MaxNew,       \* bound of the model: bring-ups, of all ports together
  LateBringUp   \* whether a port is brought up while another is sending

ASSUME SizesAssumption ==
  BufLen \in Nat \ {0} /\ PerByte \in Nat \ {0} /\ W \in Nat /\ BufLen * PerByte < W
ASSUME BoundsAssumption == MaxTimeouts \in Nat /\ MaxNew \in Nat /\ LateBringUp \in BOOLEAN

None == "none"
ASSUME FrameAssumption == None \notin Frame

VARIABLES
  installed,  \* DmaTxCtx::installed
  inFlight,   \* DmaTxCtx::in_flight
  chen, cnt,  \* CHEN and CHxCNT of the port's channel
  ftf,        \* FTFIF of the channel
  pend,       \* the vector is pending in the NVIC
  dent,       \* USART DENT: the transmitter's requests reach the channel
  wedged,     \* the channel no longer answers its requests
  txbuf,      \* the port's buffer, slot by slot
  started, budget, timeouts,   \* DmaTx's fields of these names
  now,        \* CYCCNT
  pc,         \* where the main loop is
  call,       \* its call: the port, the frame and how many bytes of it fit
  armed,      \* history: the frame and length the channel was last started on
  age,        \* history: cycles since started was stamped, up to W
  news        \* bring-ups left

ctxVars   == << installed, inFlight >>
chanVars  == << chen, cnt, ftf, pend, dent, wedged >>
portVars  == << txbuf, started, budget, timeouts >>
vars == << ctxVars, chanVars, portVars, now, pc, call, armed, age, news >>

Slot == 1 .. BufLen
NoCall == [port |-> None, frame |-> None, n |-> 0]

Running(p) == chen[p] /\ cnt[p] > 0

Init ==
  /\ installed = [p \in Port |-> FALSE] /\ inFlight = [p \in Port |-> FALSE]
  /\ chen = [p \in Port |-> FALSE] /\ cnt = [p \in Port |-> 0]
  /\ ftf = [p \in Port |-> FALSE] /\ pend = [p \in Port |-> FALSE]
  /\ dent = [p \in Port |-> FALSE] /\ wedged = [p \in Port |-> FALSE]
  /\ txbuf = [p \in Port |-> [s \in Slot |-> None]]
  /\ started = [p \in Port |-> 0] /\ budget = [p \in Port |-> 0]
  /\ timeouts = [p \in Port |-> 0]
  /\ now = 0 /\ pc = "idle" /\ call = NoCall
  /\ armed = [p \in Port |-> [frame |-> None, n |-> 0]] /\ age = [p \in Port |-> 0]
  /\ news = MaxNew

------------------------------------------------------------------------------
(* The hardware.                                                            *)

Tick ==
  /\ now' = (now + 1) % W
  /\ age' = [p \in Port |-> IF age[p] < W THEN age[p] + 1 ELSE age[p]]
  /\ UNCHANGED << ctxVars, chanVars, portVars, pc, call, armed, news >>

\* The channel answers one request of the transmitter; the last one raises
\* FTFIF and, with FTFIE, the vector.
Fetch(p) ==
  /\ Running(p) /\ dent[p] /\ ~ wedged[p]
  /\ cnt' = [cnt EXCEPT ![p] = @ - 1]
  /\ ftf' = [ftf EXCEPT ![p] = @ \/ cnt[p] = 1]
  /\ pend' = [pend EXCEPT ![p] = @ \/ cnt[p] = 1]
  /\ UNCHANGED << ctxVars, chen, dent, wedged, portVars, now, pc, call, armed, age, news >>

Wedge(p) ==
  /\ Running(p) /\ ~ wedged[p]
  /\ wedged' = [wedged EXCEPT ![p] = TRUE]
  /\ UNCHANGED << ctxVars, chen, cnt, ftf, pend, dent, portVars, now, pc, call, armed, age, news >>

\* channel_disable
Disable(p) ==
  /\ chen' = [chen EXCEPT ![p] = FALSE]
  /\ wedged' = [wedged EXCEPT ![p] = FALSE]

\* service_dma_tx: inert unless installed, and nothing to do without FTFIF.
IsrReturn(p) ==
  /\ pend[p] /\ ~ (installed[p] /\ ftf[p])
  /\ pend' = [pend EXCEPT ![p] = FALSE]
  /\ UNCHANGED << ctxVars, chen, cnt, ftf, dent, wedged, portVars, now, pc, call, armed, age, news >>

IsrComplete(p) ==
  /\ pend[p] /\ installed[p] /\ ftf[p]
  /\ pend' = [pend EXCEPT ![p] = FALSE]
  /\ ftf' = [ftf EXCEPT ![p] = FALSE]
  /\ Disable(p)
  /\ inFlight' = [inFlight EXCEPT ![p] = FALSE]
  /\ UNCHANGED << installed, cnt, dent, portVars, now, pc, call, armed, age, news >>

Isr(p) == IsrReturn(p) \/ IsrComplete(p)

------------------------------------------------------------------------------
(* The main loop: new and release.                                          *)

\* new: the channel stopped, DENT set, the context installed with no claim,
\* the cycle counter enabled, which zeroes it.
New(p) ==
  /\ pc = "idle" /\ ~ installed[p]
  /\ news > 0 /\ (LateBringUp \/ \A q \in Port : ~ inFlight[q])
  /\ Disable(p)
  /\ dent' = [dent EXCEPT ![p] = TRUE]
  /\ installed' = [installed EXCEPT ![p] = TRUE]
  /\ inFlight' = [inFlight EXCEPT ![p] = FALSE]
  /\ now' = 0
  /\ timeouts' = [timeouts EXCEPT ![p] = 0]
  /\ started' = [started EXCEPT ![p] = 0]
  /\ budget' = [budget EXCEPT ![p] = 0]
  /\ news' = news - 1
  /\ UNCHANGED << cnt, ftf, pend, txbuf, pc, call, armed, age >>

Step(from, to) == pc = from /\ pc' = to

ReleaseStop(p) ==
  /\ installed[p] /\ Step("idle", "release.flags")
  /\ call' = [port |-> p, frame |-> None, n |-> 0]
  /\ Disable(p)
  /\ UNCHANGED << ctxVars, cnt, ftf, pend, dent, portVars, now, armed, age, news >>

ReleaseFlags ==
  /\ Step("release.flags", "release.dent")
  /\ ftf' = [ftf EXCEPT ![call.port] = FALSE]
  /\ UNCHANGED << ctxVars, chen, cnt, pend, dent, wedged, portVars, now, call, armed, age, news >>

ReleaseDent ==
  /\ Step("release.dent", "release.uninstall")
  /\ dent' = [dent EXCEPT ![call.port] = FALSE]
  /\ UNCHANGED << ctxVars, chen, cnt, ftf, pend, wedged, portVars, now, call, armed, age, news >>

ReleaseUninstall ==
  /\ Step("release.uninstall", "idle")
  /\ installed' = [installed EXCEPT ![call.port] = FALSE]
  /\ inFlight' = [inFlight EXCEPT ![call.port] = FALSE]
  /\ call' = NoCall
  /\ UNCHANGED << chanVars, portVars, now, armed, age, news >>

Release == ReleaseFlags \/ ReleaseDent \/ ReleaseUninstall

------------------------------------------------------------------------------
(* The main loop: try_send.                                                 *)

\* expired: the wrapping difference of two CYCCNT readings.
Expired(p) == (now - started[p]) % W >= budget[p]

\* Mutant: ready is the negation of in_flight.
ReadyWhenIdle(p) == ~ inFlight[p]

Ready(p) == ~ inFlight[p] \/ Expired(p)

\* budget_cycles, below its clamp.
BudgetCycles(n) == PerByte * n

\* Mutant: a frame is taken whether or not the port is busy.
TrySendUnrefused(p, f, n) ==
  /\ pc = "idle" /\ installed[p]
  /\ pc' = "copy"
  /\ call' = [port |-> p, frame |-> f, n |-> n]
  /\ UNCHANGED << ctxVars, chanVars, portVars, now, armed, age, news >>

TrySend(p, f, n) ==
  /\ pc = "idle" /\ installed[p]
  /\ pc' = IF inFlight[p] THEN "deadline" ELSE "copy"
  /\ call' = [port |-> p, frame |-> f, n |-> n]
  /\ UNCHANGED << ctxVars, chanVars, portVars, now, armed, age, news >>

\* Err(TxBusy)
Refuse ==
  /\ Step("deadline", "idle") /\ ~ Expired(call.port)
  /\ call' = NoCall
  /\ UNCHANGED << ctxVars, chanVars, portVars, now, armed, age, news >>

Abandon ==
  /\ Step("deadline", "stop") /\ Expired(call.port)
  /\ UNCHANGED << ctxVars, chanVars, portVars, now, call, armed, age, news >>

StopChannel ==
  /\ Step("stop", "flags")
  /\ Disable(call.port)
  /\ UNCHANGED << ctxVars, cnt, ftf, pend, dent, portVars, now, call, armed, age, news >>

\* Mutant: the abandoned transfer's completion flag is left up.
ClearFlagsSkipped ==
  /\ Step("flags", "unclaim")
  /\ UNCHANGED << ctxVars, chanVars, portVars, now, call, armed, age, news >>

ClearFlags ==
  /\ Step("flags", "unclaim")
  /\ ftf' = [ftf EXCEPT ![call.port] = FALSE]
  /\ UNCHANGED << ctxVars, chen, cnt, pend, dent, wedged, portVars, now, call, armed, age, news >>

Unclaim ==
  /\ Step("unclaim", "copy")
  /\ inFlight' = [inFlight EXCEPT ![call.port] = FALSE]
  /\ timeouts' = [timeouts EXCEPT ![call.port] = IF @ < MaxTimeouts THEN @ + 1 ELSE @]
  /\ UNCHANGED << installed, chanVars, txbuf, started, budget, now, call, armed, age, news >>

Copy ==
  /\ Step("copy", "stamp")
  /\ txbuf' = [txbuf EXCEPT ![call.port] =
                 [s \in Slot |-> IF s <= call.n THEN call.frame ELSE @[s]]]
  /\ UNCHANGED << ctxVars, chanVars, started, budget, timeouts, now, call, armed, age, news >>

Stamp ==
  /\ Step("stamp", "claim")
  /\ budget' = [budget EXCEPT ![call.port] = BudgetCycles(call.n)]
  /\ started' = [started EXCEPT ![call.port] = now]
  /\ age' = [age EXCEPT ![call.port] = 0]
  /\ UNCHANGED << ctxVars, chanVars, txbuf, timeouts, now, call, armed, news >>

Claim ==
  /\ Step("claim", "configure")
  /\ inFlight' = [inFlight EXCEPT ![call.port] = TRUE]
  /\ UNCHANGED << installed, chanVars, portVars, now, call, armed, age, news >>

\* configure_oneshot up to the last write.
Configure ==
  /\ Step("configure", "start")
  /\ Disable(call.port)
  /\ cnt' = [cnt EXCEPT ![call.port] = call.n]
  /\ UNCHANGED << ctxVars, ftf, pend, dent, portVars, now, call, armed, age, news >>

\* ... which sets CHEN.
Start ==
  /\ Step("start", "idle")
  /\ chen' = [chen EXCEPT ![call.port] = TRUE]
  /\ armed' = [armed EXCEPT ![call.port] = [frame |-> call.frame, n |-> call.n]]
  /\ call' = NoCall
  /\ UNCHANGED << ctxVars, cnt, ftf, pend, dent, wedged, portVars, now, age, news >>

Send ==
  \/ Refuse \/ Abandon \/ StopChannel \/ ClearFlags \/ Unclaim \/ Copy \/ Stamp
  \/ Claim \/ Configure \/ Start

\* A caller that writes only when ready says it may.
GatedSend(p) == Ready(p) /\ \E f \in Frame, n \in Slot : TrySend(p, f, n)

InCall == Release \/ Send

Next ==
  \/ Tick \/ InCall
  \/ \E p \in Port : Fetch(p) \/ Wedge(p) \/ Isr(p) \/ New(p) \/ ReleaseStop(p)
  \/ \E p \in Port, f \in Frame, n \in Slot : TrySend(p, f, n)

Spec == Init /\ [][Next]_vars

\* Time passes, an interrupt is taken, a call returns, a channel that is not
\* wedged moves on, and the application keeps offering frames to a port that
\* says it is ready.  A deadline read again and again does not fall every time
\* into the budget-long window of each turn of CYCCNT where it looks unexpired.
Fairness ==
  /\ WF_vars(Tick) /\ WF_vars(InCall) /\ SF_vars(Abandon)
  /\ \A p \in Port : SF_vars(GatedSend(p))

FairSpec == Spec /\ Fairness
------------------------------------------------------------------------------
\* The transmitter's state has the types of DmaTx and DmaTxCtx.
TypeOK ==
  /\ installed \in [Port -> BOOLEAN] /\ inFlight \in [Port -> BOOLEAN]
  /\ chen \in [Port -> BOOLEAN] /\ cnt \in [Port -> 0 .. BufLen]
  /\ ftf \in [Port -> BOOLEAN] /\ pend \in [Port -> BOOLEAN]
  /\ dent \in [Port -> BOOLEAN] /\ wedged \in [Port -> BOOLEAN]
  /\ txbuf \in [Port -> [Slot -> Frame \cup {None}]]
  /\ started \in [Port -> 0 .. W - 1] /\ budget \in [Port -> 0 .. W - 1]
  /\ timeouts \in [Port -> 0 .. MaxTimeouts] /\ now \in 0 .. W - 1
  /\ call \in [port : Port \cup {None}, frame : Frame \cup {None}, n : 0 .. BufLen]
  /\ pc \in {"idle", "deadline", "stop", "flags", "unclaim", "copy", "stamp", "claim",
             "configure", "start", "release.flags", "release.dent", "release.uninstall"}
  /\ armed \in [Port -> [frame : Frame \cup {None}, n : 0 .. BufLen]] /\ age \in [Port -> 0 .. W]
  /\ news \in 0 .. MaxNew

\* try_send's "refuses and touches neither the buffer nor the channel": a
\* channel that still has bytes to fetch is claimed, in every step of every
\* call and around every interrupt, so no call gets past the refusal.
RunningClaimed == \A p \in Port : Running(p) => inFlight[p]

\* configure_oneshot's safety contract, "lives, unmodified, for as long as the
\* channel runs": what a channel has still to fetch is the frame it was
\* started on, whatever a deadline, a late completion or a stale vector did.
BufferUnmodified ==
  \A p \in Port : Running(p) =>
    \A s \in armed[p].n - cnt[p] + 1 .. armed[p].n : txbuf[p][s] = armed[p].frame

\* clear_channel_flags, "the stale completion of the abandoned transfer must
\* not fire the ISR into the new one": an interrupt releases a claim only when
\* the channel has nothing left to fetch.
CompletionIsReal ==
  [][\A p \in Port : inFlight[p] /\ ~ inFlight'[p] /\ pc' = pc => cnt[p] = 0]_vars

\* try_send, "UNTIL that transfer's deadline has passed": a transfer is given
\* up only when as many cycles as its deadline have gone by.
NoEarlyAbandon ==
  [][pc = "deadline" /\ pc' = "stop" => age[call.port] >= budget[call.port]]_vars

\* DmaTx::ready: a caller that writes only when ready is not silenced for good
\* by a completion that never arrives; every claim is given up in the end.
PortNeverSilent == \A p \in Port : inFlight[p] ~> ~ inFlight[p]

\* What the transmitter promises at every moment: the buffer of a running
\* transfer is as it was configured, and a running channel is claimed.
DmaTxSafe ==
  /\ TypeOK
  /\ BufferUnmodified
  /\ RunningClaimed

\* What no step of the transmitter does: abandon a transfer before its
\* deadline, or credit a completion to a transfer that did not finish.
DmaTxSteps ==
  /\ NoEarlyAbandon
  /\ CompletionIsReal
==============================================================================
