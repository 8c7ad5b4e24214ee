-------------------------------- MODULE Ports --------------------------------
(***************************************************************************)
(* Who holds which USART: bring-up and its claim, the handle's two halves, *)
(* the receivers and the transmitter built on them, and the statics they   *)
(* install themselves in: receive slots, rings, DMA channels and vectors.  *)
(* Calls run on the main thread, one after another; a half is named after  *)
(* its own USART.  What a driver does with its hardware is in UsartRxIsr,  *)
(* DmaRxRing and DmaTx.                                                    *)
(***************************************************************************)
EXTENDS Naturals, FiniteSets

CONSTANTS
  PtLayouts, \* interrupt layouts, within {"F1x0Grouped", "F10xSeparate"}
  PtRings,   \* the application's rings
  PtNone,    \* no ring
  PtCalls    \* calls (bound)

ASSUME PtAssumption ==
  /\ PtLayouts \subseteq {"F1x0Grouped", "F10xSeparate"}
  /\ PtNone \notin PtRings /\ PtCalls \in Nat

VARIABLES
  ptLayout,
  ptClaimed, \* BROUGHT_UP
  ptHeld,    \* [whole, tx, rx]: how many handles and halves of each USART are held
  ptRcv,     \* live receivers: [usart, kind, ring]
  ptSnd,     \* USARTs with a live DmaTx
  ptReg,     \* of each USART: interrupt sources and DMA requests enabled
  ptSlot,    \* receive slots: [installed, ring]
  ptCtx,     \* [rx, tx]: the DMA channel each installed context serves, 0 without
  ptChan,    \* running channels: channel -> [usart, way], [usart |-> "none"] if stopped
  ptTaken,   \* rings claimed
  ptOn,      \* vectors unmasked
  ptEnd,     \* a panic ended the program
  ptCount    \* calls made

ptVars == <<ptLayout, ptClaimed, ptHeld, ptRcv, ptSnd, ptReg, ptSlot, ptCtx, ptChan,
            ptTaken, ptOn, ptEnd, ptCount>>

---------------------------------------------------------------------------
(* The family's tables.                                                    *)

Usarts == {"Usart0", "Usart1", "Usart2"}
Exists(u) == ptLayout = "F10xSeparate" \/ u # "Usart2"

RxChan(layout, u) ==
  CASE u = "Usart1" -> IF layout = "F10xSeparate" THEN 5 ELSE 4
    [] u = "Usart2" -> 2
    [] u = "Usart0" -> IF layout = "F10xSeparate" THEN 4 ELSE 2
TxChan(layout, u) ==
  CASE u = "Usart1" -> IF layout = "F10xSeparate" THEN 6 ELSE 3
    [] u = "Usart2" -> 1
    [] u = "Usart0" -> IF layout = "F10xSeparate" THEN 3 ELSE 1
UsartIrq(layout, u) ==
  CASE u = "Usart0" -> IF layout = "F10xSeparate" THEN 37 ELSE 27
    [] u = "Usart1" -> IF layout = "F10xSeparate" THEN 38 ELSE 28
    [] u = "Usart2" -> 39
DmaIrqs(layout, u) ==
  CASE u = "Usart0" -> IF layout = "F10xSeparate" THEN [rx |-> 15, tx |-> 14] ELSE [rx |-> 10, tx |-> 10]
    [] u = "Usart1" -> IF layout = "F10xSeparate" THEN [rx |-> 16, tx |-> 17] ELSE [rx |-> 11, tx |-> 11]
    [] u = "Usart2" -> [rx |-> 13, tx |-> 12]
\* The vector a channel raises (external).
VectorOf(layout, c) ==
  IF layout = "F10xSeparate" THEN 11 + c ELSE IF c = 0 THEN 9 ELSE IF c <= 2 THEN 10 ELSE 11

PtStopped == [usart |-> "none", way |-> "none"]
PtInit ==
  /\ ptLayout \in PtLayouts
  /\ ptClaimed = {}
  /\ ptHeld = [u \in Usarts |-> [whole |-> 0, tx |-> 0, rx |-> 0]]
  /\ ptRcv = {} /\ ptSnd = {}
  /\ ptReg = [u \in Usarts |-> {}]
  /\ ptSlot = [u \in Usarts |-> [installed |-> FALSE, ring |-> PtNone]]
  /\ ptCtx = [u \in Usarts |-> [rx |-> 0, tx |-> 0]]
  /\ ptChan = [c \in 1..6 |-> PtStopped]
  /\ ptTaken = {} /\ ptOn = {} /\ ptEnd = FALSE /\ ptCount = 0

PtCalled == ~ptEnd /\ ptCount < PtCalls /\ ptCount' = ptCount + 1

---------------------------------------------------------------------------
(* Handles.                                                                *)

claim_instance(u) == u \notin ptClaimed
\* mapped: the USART the two pins form a port of, or none; Pins says which.
PtUsartNew(u, mapped) ==
  /\ PtCalled
  /\ IF mapped = u /\ Exists(u) /\ claim_instance(u)
     THEN ptClaimed' = ptClaimed \cup {u} /\ ptHeld' = [ptHeld EXCEPT ![u].whole = @ + 1]
     ELSE UNCHANGED <<ptClaimed, ptHeld>>
  /\ UNCHANGED <<ptLayout, ptRcv, ptSnd, ptReg, ptSlot, ptCtx, ptChan, ptTaken, ptOn, ptEnd>>
split(u) ==
  /\ PtCalled /\ ptHeld[u].whole > 0
  /\ ptHeld' = [ptHeld EXCEPT ![u] = [whole |-> @.whole - 1, tx |-> @.tx + 1, rx |-> @.rx + 1]]
  /\ UNCHANGED <<ptLayout, ptClaimed, ptRcv, ptSnd, ptReg, ptSlot, ptCtx, ptChan, ptTaken, ptOn, ptEnd>>
\* Halves of two USARTs panic.
rejoin(t, r) ==
  /\ PtCalled /\ ptHeld[t].tx > 0 /\ ptHeld[r].rx > 0
  /\ IF t = r THEN ptHeld' = [ptHeld EXCEPT ![t] = [whole |-> @.whole + 1, tx |-> @.tx - 1, rx |-> @.rx - 1]]
     ELSE ptHeld' = [ptHeld EXCEPT ![t].tx = @ - 1, ![r].rx = @ - 1]
  /\ ptEnd' = (t # r)
  /\ UNCHANGED <<ptLayout, ptClaimed, ptRcv, ptSnd, ptReg, ptSlot, ptCtx, ptChan, ptTaken, ptOn>>

---------------------------------------------------------------------------
(* Receivers.  A refused constructor has consumed the half.                *)

RingFree(ring) == ring \notin ptTaken
\* An own ring, or a panic.
BufferedNew(u, ring) ==
  /\ PtCalled /\ ptHeld[u].rx > 0
  /\ ptHeld' = [ptHeld EXCEPT ![u].rx = @ - 1]
  /\ ptEnd' = ~RingFree(ring)
  /\ ptTaken' = ptTaken \cup {ring}
  /\ IF RingFree(ring)
     THEN /\ ptRcv' = ptRcv \cup {[usart |-> u, kind |-> "buffered", ring |-> ring]}
          /\ ptSlot' = [ptSlot EXCEPT ![u] = [installed |-> TRUE, ring |-> ring]]
          /\ ptReg' = [ptReg EXCEPT ![u] = @ \cup {"rbneie", "idleie"}]
          /\ ptOn' = ptOn \cup {UsartIrq(ptLayout, u)}
     ELSE UNCHANGED <<ptRcv, ptSlot, ptReg, ptOn>>
  /\ UNCHANGED <<ptLayout, ptClaimed, ptSnd, ptCtx, ptChan>>
BufferedSources == {"rbneie", "idleie"}
BufferedRelease(r) ==
  /\ PtCalled /\ r \in ptRcv /\ r.kind = "buffered"
  /\ ptReg' = [ptReg EXCEPT ![r.usart] = @ \ BufferedSources]
  /\ ptSlot' = [ptSlot EXCEPT ![r.usart].installed = FALSE]
  /\ ptTaken' = ptTaken \ {r.ring}
  /\ ptRcv' = ptRcv \ {r}
  /\ ptHeld' = [ptHeld EXCEPT ![r.usart].rx = @ + 1]
  /\ UNCHANGED <<ptLayout, ptClaimed, ptSnd, ptCtx, ptChan, ptOn, ptEnd>>
\* The buffer fits the channel's counter or not; the channel answers or not.
RingNew(u, fits, answers) ==
  /\ PtCalled /\ ptHeld[u].rx > 0
  /\ ptHeld' = [ptHeld EXCEPT ![u].rx = @ - 1]
  /\ LET c == RxChan(ptLayout, u) IN
     /\ ptChan' = IF ~fits THEN ptChan ELSE [ptChan EXCEPT ![c] = IF answers THEN [usart |-> u, way |-> "rx"] ELSE PtStopped]
     /\ IF fits /\ answers
        THEN /\ ptRcv' = ptRcv \cup {[usart |-> u, kind |-> "ring", ring |-> PtNone]}
             /\ ptReg' = [ptReg EXCEPT ![u] = @ \cup {"denr", "idleie", "errie"}]
             /\ ptSlot' = [ptSlot EXCEPT ![u] = [installed |-> TRUE, ring |-> PtNone]]
             /\ ptCtx' = [ptCtx EXCEPT ![u].rx = c]
             /\ ptOn' = ptOn \cup {DmaIrqs(ptLayout, u).rx, UsartIrq(ptLayout, u)}
        ELSE UNCHANGED <<ptRcv, ptReg, ptSlot, ptCtx, ptOn>>
  /\ UNCHANGED <<ptLayout, ptClaimed, ptSnd, ptTaken, ptEnd>>
\* The channel's context stays installed.
RingRelease(r) ==
  /\ PtCalled /\ r \in ptRcv /\ r.kind = "ring"
  /\ ptChan' = [ptChan EXCEPT ![RxChan(ptLayout, r.usart)] = PtStopped]
  /\ ptReg' = [ptReg EXCEPT ![r.usart] = @ \ {"denr", "errie", "idleie"}]
  /\ ptSlot' = [ptSlot EXCEPT ![r.usart].installed = FALSE]
  /\ ptRcv' = ptRcv \ {r}
  /\ ptHeld' = [ptHeld EXCEPT ![r.usart].rx = @ + 1]
  /\ UNCHANGED <<ptLayout, ptClaimed, ptSnd, ptCtx, ptTaken, ptOn, ptEnd>>

---------------------------------------------------------------------------
(* The transmitter.                                                        *)

DmaTxNew(u, fits, answers) ==
  /\ PtCalled /\ ptHeld[u].tx > 0
  /\ ptHeld' = [ptHeld EXCEPT ![u].tx = @ - 1]
  /\ LET c == TxChan(ptLayout, u) IN
     /\ ptChan' = IF fits THEN [ptChan EXCEPT ![c] = PtStopped] ELSE ptChan
     /\ IF fits /\ answers
        THEN /\ ptSnd' = ptSnd \cup {u}
             /\ ptReg' = [ptReg EXCEPT ![u] = @ \cup {"dent"}]
             /\ ptCtx' = [ptCtx EXCEPT ![u].tx = c]
             /\ ptOn' = ptOn \cup {DmaIrqs(ptLayout, u).tx}
        ELSE UNCHANGED <<ptSnd, ptReg, ptCtx, ptOn>>
  /\ UNCHANGED <<ptLayout, ptClaimed, ptRcv, ptSlot, ptTaken, ptEnd>>
PtSend(u) ==
  /\ PtCalled /\ u \in ptSnd
  /\ ptChan' = [ptChan EXCEPT ![TxChan(ptLayout, u)] = [usart |-> u, way |-> "tx"]]
  /\ UNCHANGED <<ptLayout, ptClaimed, ptHeld, ptRcv, ptSnd, ptReg, ptSlot, ptCtx, ptTaken, ptOn, ptEnd>>
\* service_dma_tx at the end of a transfer.
PtSent(u) ==
  /\ ptCtx[u].tx # 0 /\ ptChan[ptCtx[u].tx].way = "tx"
  /\ ptChan' = [ptChan EXCEPT ![ptCtx[u].tx] = PtStopped]
  /\ UNCHANGED <<ptLayout, ptClaimed, ptHeld, ptRcv, ptSnd, ptReg, ptSlot, ptCtx, ptTaken, ptOn, ptEnd, ptCount>>
\* Mutant: the context outlives the driver.
DmaTxReleaseInstalled(u) ==
  /\ PtCalled /\ u \in ptSnd
  /\ ptReg' = [ptReg EXCEPT ![u] = @ \ {"dent"}]
  /\ ptSnd' = ptSnd \ {u}
  /\ ptHeld' = [ptHeld EXCEPT ![u].tx = @ + 1]
  /\ UNCHANGED <<ptLayout, ptClaimed, ptRcv, ptSlot, ptCtx, ptChan, ptTaken, ptOn, ptEnd>>

DmaTxRelease(u) ==
  /\ PtCalled /\ u \in ptSnd
  /\ ptChan' = [ptChan EXCEPT ![TxChan(ptLayout, u)] = PtStopped]
  /\ ptReg' = [ptReg EXCEPT ![u] = @ \ {"dent"}]
  /\ ptCtx' = [ptCtx EXCEPT ![u].tx = 0]
  /\ ptSnd' = ptSnd \ {u}
  /\ ptHeld' = [ptHeld EXCEPT ![u].tx = @ + 1]
  /\ UNCHANGED <<ptLayout, ptClaimed, ptRcv, ptSlot, ptTaken, ptOn, ptEnd>>

PtNext ==
  \/ \E u \in Usarts, mapped \in Usarts \cup {"none"} : PtUsartNew(u, mapped)
  \/ \E u \in Usarts : split(u) \/ PtSend(u) \/ PtSent(u) \/ DmaTxRelease(u)
  \/ \E t, r \in Usarts : rejoin(t, r)
  \/ \E u \in Usarts, ring \in PtRings : BufferedNew(u, ring)
  \/ \E r \in ptRcv : BufferedRelease(r) \/ RingRelease(r)
  \/ \E u \in Usarts, fits, answers \in BOOLEAN : RingNew(u, fits, answers) \/ DmaTxNew(u, fits, answers)
PtSpec == PtInit /\ [][PtNext]_ptVars

---------------------------------------------------------------------------
(* Properties.                                                             *)

\* Types; no refused bring-up has claimed a USART the family lacks.
PtTypeOK ==
  /\ \A u \in Usarts : ptHeld[u] \in [whole : Nat, tx : Nat, rx : Nat]
  /\ ptTaken \subseteq PtRings /\ ptOn \subseteq 0..47
  /\ ptClaimed \subseteq {u \in Usarts : Exists(u)}

\* Each direction of a USART is in one hand: that of a handle, of a half, or of
\* a driver, whatever sequence of bring-ups, splits and releases led here.
SoleHolder ==
  \A u \in Usarts :
    /\ ptHeld[u].whole + ptHeld[u].rx + Cardinality({r \in ptRcv : r.usart = u}) <= 1
    /\ ptHeld[u].whole + ptHeld[u].tx + Cardinality(ptSnd \cap {u}) <= 1

\* No ring feeds two receivers, and the slot of a live receiver holds its ring.
SlotServes ==
  /\ \A r \in ptRcv : ptSlot[r.usart] = [installed |-> TRUE, ring |-> r.ring]
  /\ \A r, s \in ptRcv : r # s /\ r.ring = s.ring => r.ring = PtNone

\* A running channel belongs to a live driver that enabled its request, and a
\* live receiver's channel runs for it: no port's bring-up or release touches
\* another's.
ChannelsSole ==
  /\ \A c \in 1..6 :
       CASE ptChan[c].way = "rx" -> [usart |-> ptChan[c].usart, kind |-> "ring", ring |-> PtNone] \in ptRcv
         [] ptChan[c].way = "tx" -> ptChan[c].usart \in ptSnd /\ "dent" \in ptReg[ptChan[c].usart]
         [] OTHER -> TRUE
  /\ \A r \in ptRcv : r.kind = "ring" =>
       ptChan[RxChan(ptLayout, r.usart)] = [usart |-> r.usart, way |-> "rx"]

\* A completion reaches its context: the vector of every channel in use is
\* unmasked, and no two contexts serve one channel.
VectorsServe ==
  /\ \A c \in 1..6 : ptChan[c] # PtStopped => VectorOf(ptLayout, c) \in ptOn
  /\ \A u, v \in Usarts :
       /\ ptCtx[u].rx # 0 => ptCtx[u].rx # ptCtx[v].tx
       /\ u # v => (ptCtx[u].rx # 0 => ptCtx[u].rx # ptCtx[v].rx) /\ (ptCtx[u].tx # 0 => ptCtx[u].tx # ptCtx[v].tx)

\* A USART whose receive vector is unmasked raises nothing unless a slot is
\* there to take it.
NothingUnserved ==
  \A u \in Usarts :
    UsartIrq(ptLayout, u) \in ptOn /\ ~ptSlot[u].installed => ptReg[u] \subseteq {"dent"}

\* What the claims of instances, rings and DMA channels promise over any order
\* of construction and release: one holder each, slots that serve the holder,
\* and no source enabled that no routine serves.
PtSafe ==
  /\ PtTypeOK
  /\ SoleHolder
  /\ SlotServes
  /\ ChannelsSole
  /\ VectorsServe
  /\ NothingUnserved
=============================================================================
