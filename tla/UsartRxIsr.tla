----------------------------- MODULE UsartRxIsr -----------------------------
(***************************************************************************)
(* The receive slot of one USART instance, its interrupt body and the two  *)
(* receivers that arm it (src/src/usart_rx.rs: RxSlot, on_usart_rx_irq,    *)
(* BufferedRx, and the arming and release of RingBufferedRx), over the     *)
(* receive registers of the USART (src/src/usart.rs).                      *)
(*                                                                         *)
(* The wire acts between any two register accesses of the interrupt; the   *)
(* main loop acts only outside it.  On F1x0 a flag is cleared by writing   *)
(* its bit to INTC; on F10x by a read of STAT that sees the flag followed  *)
(* by a read of DATA, which empties the data register too.  The interrupt  *)
(* line is a level: it asks again for as long as an enabled flag is up.    *)
(*                                                                         *)
(* The ring is the bounded queue RxRing implements; the buffer of the DMA  *)
(* receiver is DmaRxRing's and is not repeated here.  Under DENR the DMA   *)
(* controller empties the data register before the CPU can look at it.     *)
(***************************************************************************)
EXTENDS Integers, Sequences

CONSTANTS
  Families,   \* the families a board may turn out to be: "F10x", "F1x0"
  Drivers,    \* the receivers it may arm: "buffered" (BufferedRx), "ring" (RingBufferedRx)
  Capacity,   \* bytes the receive ring holds
  MaxBytes    \* bound of the model: characters on the wire

ASSUME FamilyAssumption == Families \subseteq {"F10x", "F1x0"}
ASSUME DriverAssumption == Drivers \subseteq {"buffered", "ring"}
ASSUME CapacityAssumption == Capacity \in Nat \ {0} /\ MaxBytes \in Nat

VARIABLES
  family,     \* the family detection found
  driver,     \* the receiver the application uses
  dr, rbne,   \* the data register, and whether it holds an unread character
  err,        \* a line error flag of STAT (overrun stands for all)
  idlef,      \* IDLEF
  sawErr, sawIdle,   \* the last read of STAT saw the flag up
  busy,       \* the line has carried a character since it was last idle
  rbneie, idleie, errie, denr,   \* the enables in CTL0 and CTL2
  unmasked,   \* the instance's vector is unmasked in the NVIC
  urInstalled, overflow, idleSeen, lineErr,   \* RxSlot's fields
  queue,      \* the receive ring
  isr,        \* where the interrupt is in on_usart_rx_irq
  urPc,         \* where the main loop is
  arrived,    \* history: characters the wire has carried
  delivered,  \* history: characters read returned, in order
  unreported, \* history: a character was lost since read last returned an error
  boundary,   \* history: the line went idle and take_idle has not said so
  idleAt,     \* history: characters carried when the line last went idle
  notedAt,    \* history: idleAt of the boundary last latched
  got         \* history: the caller holds bytes of an unfinished frame

regVars   == << dr, rbne, err, idlef, sawErr, sawIdle >>
board     == << family, driver >>
enVars    == << board, rbneie, idleie, errie, denr, unmasked >>
slotVars  == << urInstalled, overflow, idleSeen, lineErr >>
wireVars  == << busy, arrived, idleAt >>
readVars  == << delivered, got >>
ghostVars == << unreported, boundary, notedAt >>
urVars == << regVars, enVars, slotVars, wireVars, readVars, ghostVars, queue, isr, urPc >>

UrInit ==
  /\ family \in Families /\ driver \in Drivers
  /\ dr = 0 /\ rbne = FALSE /\ err = FALSE /\ idlef = FALSE
  /\ sawErr = FALSE /\ sawIdle = FALSE /\ busy = FALSE
  /\ rbneie = FALSE /\ idleie = FALSE /\ errie = FALSE /\ denr = FALSE
  /\ unmasked = FALSE
  /\ urInstalled = FALSE /\ overflow = FALSE /\ idleSeen = FALSE /\ lineErr = FALSE
  /\ queue = << >> /\ isr = "out" /\ urPc = "released"
  /\ arrived = 0 /\ delivered = << >> /\ got = FALSE
  /\ unreported = FALSE /\ boundary = FALSE /\ idleAt = 0 /\ notedAt = 0

------------------------------------------------------------------------------
(* The wire.                                                                *)

\* The rule of UsartRegs::inject_rx_byte: a character that finds the data
\* register occupied is lost and latches the overrun.
Arrive ==
  /\ arrived < MaxBytes
  /\ arrived' = arrived + 1 /\ busy' = TRUE
  /\ dr' = IF rbne THEN dr ELSE arrived + 1
  /\ rbne' = ~ denr
  /\ err' = (err \/ rbne)
  /\ unreported' = (unreported \/ (rbne /\ urInstalled))
  /\ UNCHANGED << idlef, sawErr, sawIdle, enVars, slotVars, readVars, boundary, notedAt,
                  idleAt, queue, isr, urPc >>

GoIdle ==
  /\ busy
  /\ busy' = FALSE /\ idlef' = TRUE /\ idleAt' = arrived
  /\ boundary' = (boundary \/ urInstalled)
  /\ UNCHANGED << dr, rbne, err, sawErr, sawIdle, enVars, slotVars, readVars, unreported,
                  notedAt, arrived, queue, isr, urPc >>

------------------------------------------------------------------------------
(* The registers as the interrupt uses them.                                *)

ReadStat == sawErr' = err /\ sawIdle' = idlef

\* A read of DATA: it empties the register and, on F10x, completes the clear
\* of the flags the last read of STAT saw.
ReadData ==
  /\ rbne' = FALSE
  /\ err' = (err /\ ~ (family = "F10x" /\ sawErr))
  /\ idlef' = (idlef /\ ~ (family = "F10x" /\ sawIdle))
  /\ sawErr' = FALSE /\ sawIdle' = FALSE

Asserted ==
  \/ rbneie /\ (rbne \/ err)
  \/ idleie /\ idlef
  \/ errie /\ denr /\ err

IsrAt(p, q) == isr = p /\ isr' = q

IsrSame == << busy, arrived, idleAt, dr, enVars, urInstalled, readVars, urPc >>

------------------------------------------------------------------------------
(* The interrupt, on_usart_rx_irq.                                          *)

IsrEnter ==
  /\ unmasked /\ Asserted /\ urInstalled
  /\ IsrAt("out", "status")
  /\ UNCHANGED << IsrSame, rbne, err, idlef, sawErr, sawIdle, overflow, idleSeen, lineErr,
                  ghostVars, queue >>

\* An entry that finds the slot uninstalled returns and clears nothing.
IsrInert ==
  /\ unmasked /\ Asserted /\ ~ urInstalled /\ isr = "out"
  /\ UNCHANGED urVars

\* Mutant: the error is recorded and not cleared.
IsrStatusNoClear ==
  /\ IsrAt("status", "test")
  /\ ReadStat
  /\ lineErr' = (lineErr \/ err)
  /\ UNCHANGED << IsrSame, rbne, err, idlef, overflow, idleSeen, ghostVars, queue >>

\* The first read of STAT: a line error is recorded.
IsrStatus ==
  /\ IsrAt("status", IF err THEN "clearError" ELSE "test")
  /\ ReadStat
  /\ lineErr' = (lineErr \/ err)
  /\ UNCHANGED << IsrSame, rbne, err, idlef, overflow, idleSeen, ghostVars, queue >>

\* clear_line_errors
IsrClearError ==
  /\ IsrAt("clearError", "test")
  /\ \/ family = "F10x" /\ ReadData /\ unreported' = (unreported \/ rbne)
     \/ /\ family = "F1x0" /\ err' = FALSE
        /\ UNCHANGED << rbne, idlef, sawErr, sawIdle, unreported >>
  /\ UNCHANGED << IsrSame, overflow, idleSeen, lineErr, boundary, notedAt, queue >>

\* The drain loop: while RBNE is up, read a byte and push it.
IsrTest ==
  /\ IsrAt("test", IF rbne THEN "take" ELSE "idle")
  /\ ReadStat
  /\ UNCHANGED << IsrSame, rbne, err, idlef, overflow, idleSeen, lineErr, ghostVars, queue >>

IsrTake ==
  /\ isr = "take" /\ ReadData
  /\ \/ /\ driver = "buffered" /\ Len(queue) < Capacity
        /\ queue' = Append(queue, dr) /\ isr' = "test"
        /\ UNCHANGED << overflow, unreported >>
     \/ /\ ~ (driver = "buffered" /\ Len(queue) < Capacity)
        /\ overflow' = TRUE /\ isr' = "idle" /\ unreported' = TRUE
        /\ UNCHANGED queue
  /\ UNCHANGED << IsrSame, idleSeen, lineErr, boundary, notedAt >>

\* idle_flag
IsrIdleTest ==
  /\ IsrAt("idle", IF idlef THEN "clearIdle" ELSE "out")
  /\ ReadStat
  /\ UNCHANGED << IsrSame, rbne, err, idlef, overflow, idleSeen, lineErr, ghostVars, queue >>

\* clear_idle: one write on F1x0, a read of STAT and a read of DATA on F10x.
IsrClearIdle ==
  /\ isr = "clearIdle"
  /\ \/ /\ family = "F1x0" /\ idlef' = FALSE /\ isr' = "note"
        /\ UNCHANGED << sawErr, sawIdle >>
     \/ family = "F10x" /\ ReadStat /\ isr' = "clearIdleData" /\ UNCHANGED idlef
  /\ notedAt' = idleAt
  /\ UNCHANGED << IsrSame, rbne, err, overflow, idleSeen, lineErr, unreported, boundary,
                  queue >>

IsrClearIdleData ==
  /\ IsrAt("clearIdleData", "note")
  /\ ReadData
  /\ unreported' = (unreported \/ rbne)
  /\ UNCHANGED << IsrSame, overflow, idleSeen, lineErr, boundary, notedAt, queue >>

IsrNote ==
  /\ IsrAt("note", "out")
  /\ idleSeen' = TRUE
  /\ UNCHANGED << IsrSame, rbne, err, idlef, sawErr, sawIdle, overflow, lineErr, ghostVars,
                  queue >>

IsrBody ==
  \/ IsrStatus \/ IsrClearError \/ IsrTest \/ IsrTake \/ IsrIdleTest
  \/ IsrClearIdle \/ IsrClearIdleData \/ IsrNote

------------------------------------------------------------------------------
(* The main loop: arming and release.                                       *)

MainAt(p, q) == isr = "out" /\ urPc = p /\ urPc' = q

\* install_usart_ctx: the sticky conditions start clear.
Install ==
  /\ urInstalled' = TRUE
  /\ overflow' = FALSE /\ idleSeen' = FALSE /\ lineErr' = FALSE
  /\ unreported' = FALSE /\ boundary' = FALSE

Arming == << board, busy, arrived, idleAt, dr, sawErr, sawIdle, idlef, notedAt, queue, isr >>

\* BufferedRx::new: the context, the two sources, the vector.
BufferedInstall ==
  /\ driver = "buffered" /\ MainAt("released", "listen")
  /\ Install /\ got' = FALSE
  /\ UNCHANGED << Arming, rbne, err, enVars, delivered >>

BufferedListen ==
  /\ driver = "buffered" /\ MainAt("listen", "unmask")
  /\ rbneie' = TRUE /\ idleie' = TRUE
  /\ UNCHANGED << Arming, rbne, err, errie, denr, unmasked, slotVars, readVars, unreported,
                  boundary >>

Unmask ==
  /\ MainAt("unmask", "armed")
  /\ unmasked' = TRUE
  /\ UNCHANGED << Arming, rbne, err, rbneie, idleie, errie, denr, slotVars, readVars,
                  unreported, boundary >>

\* Mutant: the release turns one of its two sources off.
BufferedUnlistenRbne ==
  /\ driver = "buffered" /\ MainAt("armed", "uninstall")
  /\ rbneie' = FALSE
  /\ UNCHANGED << Arming, rbne, err, idleie, errie, denr, unmasked, slotVars, readVars,
                  unreported, boundary >>

BufferedUnlisten ==
  /\ driver = "buffered" /\ MainAt("armed", "uninstall")
  /\ rbneie' = FALSE /\ idleie' = FALSE
  /\ UNCHANGED << Arming, rbne, err, errie, denr, unmasked, slotVars, readVars, unreported,
                  boundary >>

\* RingBufferedRx::new: DMA reception and the two sources, then the context.
RingEnableDma ==
  /\ driver = "ring" /\ MainAt("released", "listenIdle")
  /\ denr' = TRUE /\ rbne' = FALSE
  /\ UNCHANGED << Arming, err, rbneie, idleie, errie, unmasked, slotVars, readVars,
                  unreported, boundary >>

RingListenIdle ==
  /\ driver = "ring" /\ MainAt("listenIdle", "listenErrors")
  /\ idleie' = TRUE
  /\ UNCHANGED << Arming, rbne, err, rbneie, errie, denr, unmasked, slotVars, readVars,
                  unreported, boundary >>

RingListenErrors ==
  /\ driver = "ring" /\ MainAt("listenErrors", "install")
  /\ errie' = TRUE
  /\ UNCHANGED << Arming, rbne, err, rbneie, idleie, denr, unmasked, slotVars, readVars,
                  unreported, boundary >>

RingInstall ==
  /\ driver = "ring" /\ MainAt("install", "unmask")
  /\ Install
  /\ UNCHANGED << Arming, rbne, err, enVars, readVars >>

\* disable_dma_rx: one register, then the other.
RingDisableDma ==
  /\ driver = "ring" /\ MainAt("armed", "unlistenIdle")
  /\ denr' = FALSE /\ errie' = FALSE
  /\ UNCHANGED << Arming, rbne, err, rbneie, idleie, unmasked, slotVars, readVars,
                  unreported, boundary >>

RingUnlistenIdle ==
  /\ driver = "ring" /\ MainAt("unlistenIdle", "uninstall")
  /\ idleie' = FALSE
  /\ UNCHANGED << Arming, rbne, err, rbneie, errie, denr, unmasked, slotVars, readVars,
                  unreported, boundary >>

Uninstall ==
  /\ MainAt("uninstall", "released")
  /\ urInstalled' = FALSE
  /\ UNCHANGED << Arming, rbne, err, enVars, overflow, idleSeen, lineErr, readVars,
                  unreported, boundary >>

Arm ==
  \/ BufferedInstall \/ BufferedListen \/ Unmask
  \/ RingEnableDma \/ RingListenIdle \/ RingListenErrors \/ RingInstall

UrRelease == BufferedUnlisten \/ RingDisableDma \/ RingUnlistenIdle \/ Uninstall

------------------------------------------------------------------------------
(* The main loop: the poll loop of take_idle's documentation, which drains  *)
(* with read until the ring is empty and then takes the latch.              *)

Polling == << busy, arrived, idleAt, regVars, enVars, urInstalled, notedAt, isr >>

ReadOverflow ==
  /\ MainAt("armed", "armed") /\ overflow
  /\ overflow' = FALSE /\ unreported' = FALSE
  /\ UNCHANGED << Polling, idleSeen, lineErr, readVars, boundary, queue >>

ReadStart ==
  /\ MainAt("armed", "line") /\ ~ overflow
  /\ UNCHANGED << Polling, overflow, idleSeen, lineErr, readVars, unreported, boundary, queue >>

ReadLineError ==
  /\ MainAt("line", "armed") /\ lineErr
  /\ lineErr' = FALSE /\ unreported' = FALSE
  /\ UNCHANGED << Polling, overflow, idleSeen, readVars, boundary, queue >>

ReadClean ==
  /\ MainAt("line", "pop") /\ ~ lineErr
  /\ UNCHANGED << Polling, overflow, idleSeen, lineErr, readVars, unreported, boundary, queue >>

PopByte ==
  /\ MainAt("pop", "pop") /\ queue # << >>
  /\ queue' = Tail(queue)
  /\ delivered' = Append(delivered, Head(queue)) /\ got' = TRUE
  /\ UNCHANGED << Polling, overflow, idleSeen, lineErr, unreported, boundary >>

PopEmpty ==
  /\ MainAt("pop", "latch") /\ queue = << >>
  /\ UNCHANGED << Polling, overflow, idleSeen, lineErr, readVars, unreported, boundary, queue >>

TakeIdle ==
  /\ MainAt("latch", "armed")
  /\ idleSeen' = FALSE
  /\ boundary' = (boundary /\ (idlef \/ ~ idleSeen))
  /\ got' = (got /\ ~ idleSeen)
  /\ UNCHANGED << Polling, overflow, lineErr, delivered, unreported, queue >>

Poll ==
  \/ ReadOverflow \/ ReadStart \/ ReadLineError \/ ReadClean \/ PopByte \/ PopEmpty
  \/ TakeIdle

UrNext == Arrive \/ GoIdle \/ IsrEnter \/ IsrInert \/ IsrBody \/ Arm \/ UrRelease \/ Poll

UrSpec == UrInit /\ [][UrNext]_urVars

\* The vector is taken when it asks, and an interrupt runs to its end.
UrFairness == WF_urVars(IsrEnter \/ IsrBody)

UrFairSpec == UrSpec /\ UrFairness
------------------------------------------------------------------------------
\* The slot, the registers and the ring have the types the code gives them.
UrTypeOK ==
  /\ family \in Families /\ driver \in Drivers
  /\ dr \in 0 .. MaxBytes /\ arrived \in 0 .. MaxBytes
  /\ {rbne, err, idlef, sawErr, sawIdle, busy} \subseteq BOOLEAN
  /\ {rbneie, idleie, errie, denr, unmasked} \subseteq BOOLEAN
  /\ {urInstalled, overflow, idleSeen, lineErr} \subseteq BOOLEAN
  /\ {unreported, boundary, got} \subseteq BOOLEAN
  /\ queue \in Seq(1 .. MaxBytes) /\ Len(queue) <= Capacity
  /\ delivered \in Seq(1 .. MaxBytes)
  /\ isr \in {"out", "status", "clearError", "test", "take", "idle", "clearIdle",
              "clearIdleData", "note"}
  /\ urPc \in {"released", "listen", "unmask", "armed", "uninstall", "listenIdle",
             "listenErrors", "install", "unlistenIdle", "line", "pop", "latch"}
  /\ idleAt \in 0 .. MaxBytes /\ notedAt \in 0 .. MaxBytes

\* BufferedRx::read, "the ring filled (a byte was dropped) or the USART raised
\* ORERR": a character lost while the receiver is installed leaves a condition
\* behind that the interrupt or a later read surfaces.
NoSilentLoss ==
  unreported /\ urInstalled /\ isr = "out" => err \/ overflow \/ lineErr

\* BufferedRx::take_idle, "an IDLE that the ISR serviced in the same entry as
\* the final bytes ... is still observed on the next take_idle, not silently
\* eaten".
BoundaryKept ==
  boundary /\ urInstalled => idlef \/ idleSeen \/ isr = "note"

\* on_usart_rx_irq, "the line stays asserted, and this vector re-enters
\* forever": the vector is never left unmasked and asserted with the slot
\* uninstalled, whatever arrives between two steps of an arming or a release.
NoDeadEntry == unmasked /\ Asserted => urInstalled

\* On F1x0, where clearing a flag takes no character with it.
NoSilentLossF1x0 == family = "F1x0" => NoSilentLoss
BoundaryKeptF1x0 == family = "F1x0" => BoundaryKept

\* BufferedRx::new, which installs the slot before it enables a source, and
\* release, which silences the sources before it uninstalls it.
NoDeadEntryBuffered == driver = "buffered" => NoDeadEntry

\* RxRing and the drain loop: what read returns comes out in the order of the
\* wire, also across errors and across a release and a fresh arming.
DeliveredInOrder ==
  \A i \in 1 .. Len(delivered \o queue) - 1 :
    (delivered \o queue)[i] < (delivered \o queue)[i + 1]

\* A receiver that has been armed answers its vector: the line does not stay
\* asserted for ever.
LineReleased == (driver = "buffered" /\ unmasked /\ Asserted) ~> ~ Asserted

\* BufferedRx::take_idle's documented pattern, "boundary consumed: this frame
\* is complete ... sound without any read-gating discipline": when the caller
\* holds bytes and takes the boundary, no byte of that frame is still in the
\* ring.
FrameComplete ==
  [][urPc = "latch" /\ urPc' = "armed" /\ idleSeen /\ got =>
       queue = << >> \/ Head(queue) > notedAt]_urVars

\* What the receive interrupt and its reader promise together: no character
\* lost and no boundary dropped without a trace on F1x0, no handler entered
\* that cannot clear its cause, and the characters in their order.
UrSafe ==
  /\ UrTypeOK
  /\ NoSilentLossF1x0
  /\ BoundaryKeptF1x0
  /\ NoDeadEntryBuffered
  /\ DeliveredInOrder
==============================================================================
