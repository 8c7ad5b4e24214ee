---------------------------- MODULE UsartProofs ----------------------------
(***************************************************************************)
(* The USART's receive interrupt and its DMA transmitter.                  *)
(*                                                                         *)
(* What the receive interrupt promises (UsartRxIsr), for every ring size,  *)
(* every number of characters and whichever families and receivers a board *)
(* may have. None of the promises is inductive as it stands: each one      *)
(* relies on what the arming order, the interrupt's position and the data  *)
(* register know between two steps.                                        *)
(*                                                                         *)
(* The transmitter's buffer contract (DmaTx) for any number of ports, any  *)
(* buffer length, any deadline and any counter width. RunningClaimed is    *)
(* not inductive: that a claim is not released under a channel that was    *)
(* just started needs FTFIF to be down from the claim to the start         *)
(* (FlagInv, CallInv), which is what the order stop, clear, release of the *)
(* force-restart establishes.                                              *)
(***************************************************************************)
EXTENDS UsartRxIsr, DmaTx, SequenceTheorems, TLAPS

---------------------------------------------------------------------------
(* The receive interrupt (UsartRxIsr).                                    *)

\* Every character on its way to the caller: what read returned, then the ring.
Stream == delivered \o queue

\* The buffered receiver's arming order: the sources come on under an installed
\* slot and go off before it is uninstalled.
ArmInv ==
  driver = "buffered" =>
    /\ ~ denr /\ ~ errie
    /\ urPc \in {"released", "listen", "unmask", "armed", "uninstall", "line", "pop", "latch"}
    /\ urInstalled <=> urPc # "released"
    /\ urPc \in {"released", "listen", "uninstall"} => ~ rbneie /\ ~ idleie

\* On F1x0 a lost character is remembered inside the interrupt too: the flag is
\* cleared only after it was recorded, and no clear reads the data register.
LossInv ==
  family = "F1x0" =>
    /\ unreported /\ urInstalled => err \/ overflow \/ lineErr
    /\ isr = "clearError" => lineErr
    /\ isr # "clearIdleData"

\* The data register holds a later character than any the ring ever took.
OrderInv ==
  /\ driver = "buffered" /\ isr = "take" => rbne
  /\ rbne => dr \in 1 .. arrived
  /\ driver = "ring" => Stream = << >>
  /\ \A i \in 1 .. Len(Stream) : Stream[i] <= arrived /\ (rbne => Stream[i] < dr)
  /\ \A i, j \in 1 .. Len(Stream) : i < j => Stream[i] < Stream[j]

UrIInv == UrTypeOK /\ ArmInv /\ LossInv /\ BoundaryKeptF1x0 /\ OrderInv

------------------------------------------------------------------------------
\* The interrupt leaves the wire, the enables and the main loop where they are.
LEMMA IsrKeeps == IsrEnter \/ IsrInert \/ IsrBody => UNCHANGED IsrSame
  BY DEF IsrEnter, IsrInert, IsrBody, IsrStatus, IsrClearError, IsrTest, IsrTake, IsrIdleTest,
         IsrClearIdle, IsrClearIdleData, IsrNote, IsrSame, urVars, regVars, enVars, board,
         slotVars, wireVars, readVars

\* The board is chosen once.
LEMMA BoardKept == [UrNext]_urVars => UNCHANGED board
<1> SUFFICES ASSUME [UrNext]_urVars PROVE UNCHANGED board
  OBVIOUS
<1>1. CASE Arrive \/ GoIdle \/ UNCHANGED urVars
  BY <1>1 DEF Arrive, GoIdle, urVars, enVars
<1>2. CASE IsrEnter \/ IsrInert \/ IsrBody
  BY <1>2, IsrKeeps DEF IsrSame, enVars
<1>3. CASE Arm
  BY <1>3 DEF Arm, BufferedInstall, BufferedListen, Unmask, RingEnableDma, RingListenIdle,
              RingListenErrors, RingInstall, Arming
<1>4. CASE UrRelease
  BY <1>4 DEF UrRelease, BufferedUnlisten, RingDisableDma, RingUnlistenIdle, Uninstall, Arming
<1>5. CASE Poll
  BY <1>5 DEF Poll, ReadOverflow, ReadStart, ReadLineError, ReadClean, PopByte, PopEmpty,
              TakeIdle, Polling, enVars
<1> QED BY <1>1, <1>2, <1>3, <1>4, <1>5 DEF UrNext

------------------------------------------------------------------------------
\* The sources of an armed buffered receiver imply its slot.
LEMMA NextArm == UrTypeOK /\ ArmInv /\ [UrNext]_urVars => ArmInv'
<1> SUFFICES ASSUME UrTypeOK, ArmInv, [UrNext]_urVars, driver' = "buffered" PROVE ArmInv'
  BY DEF ArmInv
<1>0. driver = "buffered"
  BY BoardKept DEF board
<1>1. CASE Arrive \/ GoIdle \/ UNCHANGED urVars
  BY <1>0, <1>1 DEF ArmInv, Arrive, GoIdle, urVars, enVars, slotVars
<1>2. CASE IsrEnter \/ IsrInert \/ IsrBody
  BY <1>0, <1>2, IsrKeeps DEF ArmInv, IsrSame, enVars
<1>3. CASE Arm
  <2>1. CASE BufferedInstall
    BY <1>0, <2>1 DEF ArmInv, BufferedInstall, MainAt, Install, Arming, enVars
  <2>2. CASE BufferedListen
    BY <1>0, <2>2 DEF ArmInv, BufferedListen, MainAt, Arming, slotVars
  <2>3. CASE Unmask
    BY <1>0, <2>3 DEF ArmInv, Unmask, MainAt, Arming, slotVars
  <2> QED BY <1>0, <1>3, <2>1, <2>2, <2>3
          DEF Arm, RingEnableDma, RingListenIdle, RingListenErrors, RingInstall
<1>4. CASE UrRelease
  <2>1. CASE BufferedUnlisten
    BY <1>0, <2>1 DEF ArmInv, BufferedUnlisten, MainAt, Arming, slotVars
  <2>2. CASE Uninstall
    BY <1>0, <2>2 DEF ArmInv, Uninstall, MainAt, Arming, enVars
  <2> QED BY <1>0, <1>4, <2>1, <2>2 DEF UrRelease, RingDisableDma, RingUnlistenIdle
<1>5. CASE Poll
  BY <1>0, <1>5 DEF ArmInv, Poll, ReadOverflow, ReadStart, ReadLineError, ReadClean, PopByte,
                    PopEmpty, TakeIdle, Polling, enVars, MainAt
<1> QED BY <1>1, <1>2, <1>3, <1>4, <1>5 DEF UrNext

------------------------------------------------------------------------------
\* On F1x0 a loss stays visible: no step clears the last trace of it.
LEMMA NextLoss == UrTypeOK /\ LossInv /\ [UrNext]_urVars => LossInv'
<1> SUFFICES ASSUME UrTypeOK, LossInv, [UrNext]_urVars, family' = "F1x0" PROVE LossInv'
  BY DEF LossInv
<1>0. family = "F1x0"
  BY BoardKept DEF board
<1>1. CASE Arrive \/ GoIdle \/ UNCHANGED urVars
  BY <1>0, <1>1 DEF LossInv, Arrive, GoIdle, urVars, regVars, slotVars, ghostVars
<1>2. CASE IsrEnter \/ IsrInert
  BY <1>0, <1>2 DEF LossInv, IsrEnter, IsrInert, IsrAt, IsrSame, urVars, regVars, slotVars,
                    ghostVars
<1>3. CASE IsrStatus
  BY <1>0, <1>3 DEF LossInv, UrTypeOK, IsrStatus, IsrAt, IsrSame, ghostVars
<1>4. CASE IsrClearError
  BY <1>0, <1>4 DEF LossInv, IsrClearError, IsrAt, IsrSame
<1>5. CASE IsrTest \/ IsrIdleTest \/ IsrNote
  BY <1>0, <1>5 DEF LossInv, IsrTest, IsrIdleTest, IsrNote, IsrAt, IsrSame, ghostVars
<1>6. CASE IsrTake
  BY <1>0, <1>6 DEF LossInv, UrTypeOK, IsrTake, ReadData, IsrSame
<1>7. CASE IsrClearIdle \/ IsrClearIdleData
  <2>1. CASE IsrClearIdle
    <3>1. isr' = "note" /\ UNCHANGED << unreported, urInstalled, err, overflow, lineErr >>
      BY <1>0, <2>1 DEF IsrClearIdle, IsrSame
    <3> QED BY <1>0, <3>1 DEF LossInv
  <2>2. CASE IsrClearIdleData
    BY <1>0, <2>2 DEF LossInv, IsrClearIdleData, IsrAt
  <2> QED BY <1>7, <2>1, <2>2
<1>8. CASE Arm
  BY <1>0, <1>8 DEF LossInv, Arm, BufferedInstall, BufferedListen, Unmask, RingEnableDma,
                    RingListenIdle, RingListenErrors, RingInstall, Install, Arming, slotVars,
                    MainAt
<1>9. CASE UrRelease
  BY <1>0, <1>9 DEF LossInv, UrRelease, BufferedUnlisten, RingDisableDma, RingUnlistenIdle,
                    Uninstall, Arming, slotVars, MainAt
<1>10. CASE Poll
  BY <1>0, <1>10 DEF LossInv, Poll, ReadOverflow, ReadStart, ReadLineError, ReadClean, PopByte,
                     PopEmpty, TakeIdle, Polling, regVars, MainAt
<1> QED BY <1>1, <1>2, <1>3, <1>4, <1>5, <1>6, <1>7, <1>8, <1>9, <1>10 DEF UrNext, IsrBody

------------------------------------------------------------------------------
\* On F1x0 a boundary is in the flag, on its way, or in the latch.
LEMMA NextBoundary == UrTypeOK /\ BoundaryKeptF1x0 /\ [UrNext]_urVars => BoundaryKeptF1x0'
<1> USE DEF BoundaryKeptF1x0, BoundaryKept
<1> SUFFICES ASSUME UrTypeOK, BoundaryKeptF1x0, [UrNext]_urVars, family' = "F1x0"
             PROVE  BoundaryKeptF1x0'
  OBVIOUS
<1>0. family = "F1x0"
  BY BoardKept DEF board
<1>1. CASE Arrive \/ GoIdle \/ UNCHANGED urVars
  BY <1>0, <1>1 DEF Arrive, GoIdle, urVars, regVars, slotVars, ghostVars
<1>2. CASE IsrEnter \/ IsrInert
  BY <1>0, <1>2 DEF IsrEnter, IsrInert, IsrAt, IsrSame, urVars, regVars, slotVars, ghostVars
<1>3. CASE IsrStatus \/ IsrTest \/ IsrIdleTest \/ IsrNote
  BY <1>0, <1>3 DEF IsrStatus, IsrTest, IsrIdleTest, IsrNote, IsrAt, IsrSame, ghostVars
<1>4. CASE IsrClearError \/ IsrTake
  BY <1>0, <1>4 DEF UrTypeOK, IsrClearError, IsrTake, ReadData, IsrAt, IsrSame
<1>5. CASE IsrClearIdle \/ IsrClearIdleData
  BY <1>0, <1>5 DEF UrTypeOK, IsrClearIdle, IsrClearIdleData, ReadData, IsrAt, IsrSame
<1>6. CASE Arm
  BY <1>0, <1>6 DEF Arm, BufferedInstall, BufferedListen, Unmask, RingEnableDma,
                    RingListenIdle, RingListenErrors, RingInstall, Install, Arming, slotVars
<1>7. CASE UrRelease
  BY <1>0, <1>7 DEF UrRelease, BufferedUnlisten, RingDisableDma, RingUnlistenIdle, Uninstall,
                    Arming, slotVars
<1>8. CASE Poll
  <2>1. CASE TakeIdle
    BY <1>0, <2>1 DEF TakeIdle, Polling, regVars, MainAt
  <2>2. CASE ~ TakeIdle
    BY <1>0, <1>8, <2>2 DEF Poll, ReadOverflow, ReadStart, ReadLineError, ReadClean, PopByte,
                            PopEmpty, Polling, regVars
  <2> QED BY <2>1, <2>2
<1> QED BY <1>1, <1>2, <1>3, <1>4, <1>5, <1>6, <1>7, <1>8 DEF UrNext, IsrBody
------------------------------------------------------------------------------
\* A byte the ring takes joins the end of the stream.
LEMMA TakeAppends ==
  ASSUME NEW S, NEW d \in Seq(S), NEW q \in Seq(S), NEW b \in S
  PROVE  d \o Append(q, b) = Append(d \o q, b)
<1>1. << b >> \in Seq(S)
  OBVIOUS
<1>2. d \o q \in Seq(S)
  BY ConcatProperties
<1>3. (d \o q) \o << b >> = d \o (q \o << b >>)
  BY <1>1, ConcatAssociative
<1> QED BY <1>2, <1>3, AppendIsConcat

\* A byte that leaves the ring for the caller stays where it was in the stream.
LEMMA PopMoves ==
  ASSUME NEW S, NEW d \in Seq(S), NEW q \in Seq(S), q # << >>
  PROVE  Append(d, Head(q)) \o Tail(q) = d \o q
<1>1. Head(q) \in S /\ Tail(q) \in Seq(S) /\ << Head(q) >> \in Seq(S)
  BY HeadTailProperties
<1>2. q = << Head(q) >> \o Tail(q)
  <2>1. << Head(q) >> \o Tail(q) \in Seq(S)
        /\ Len(<< Head(q) >> \o Tail(q)) = 1 + Len(Tail(q))
        /\ \A i \in 1 .. 1 + Len(Tail(q)) : (<< Head(q) >> \o Tail(q))[i] =
              IF i <= 1 THEN << Head(q) >>[i] ELSE Tail(q)[i - 1]
    BY <1>1, ConcatProperties
  <2>2. Len(Tail(q)) = Len(q) - 1 /\ \A i \in 1 .. Len(Tail(q)) : Tail(q)[i] = q[i + 1]
    BY HeadTailProperties
  <2>3. ASSUME NEW i \in 1 .. Len(q) PROVE q[i] = (<< Head(q) >> \o Tail(q))[i]
    <3>1. CASE i = 1
      BY <2>1, <2>2, <3>1
    <3>2. CASE i # 1
      <4>1. i - 1 \in 1 .. Len(Tail(q)) /\ i <= 1 + Len(Tail(q))
        BY <2>2, <3>2
      <4>2. Tail(q)[i - 1] = q[(i - 1) + 1]
        BY <2>2, <4>1
      <4> QED BY <2>1, <3>2, <4>1, <4>2
    <3> QED BY <3>1, <3>2
  <2>4. Len(q) = Len(<< Head(q) >> \o Tail(q))
    BY <2>1, <2>2
  <2> QED BY <2>1, <2>3, <2>4, SeqEqual
<1>3. (d \o << Head(q) >>) \o Tail(q) = d \o (<< Head(q) >> \o Tail(q))
  BY <1>1, ConcatAssociative
<1>4. Append(d, Head(q)) = d \o << Head(q) >>
  BY <1>1, AppendIsConcat
<1> QED BY <1>2, <1>3, <1>4

\* The stream is a sequence of characters of the wire.
LEMMA StreamType == UrTypeOK => Stream \in Seq(1 .. MaxBytes)
  BY ConcatProperties DEF UrTypeOK, Stream

\* A step that moves no character and refills no register keeps the order.
LEMMA OrderQuiet ==
  ASSUME OrderInv, UNCHANGED << Stream, driver, arrived, dr >>, rbne' => rbne,
         driver = "buffered" /\ isr' = "take" => rbne'
  PROVE  OrderInv'
  BY DEF OrderInv

\* Characters enter the register, the ring and the caller's buffer in order.
LEMMA NextOrder == UrTypeOK /\ ArmInv /\ OrderInv /\ [UrNext]_urVars => OrderInv'
<1> SUFFICES ASSUME UrTypeOK, ArmInv, OrderInv, [UrNext]_urVars PROVE OrderInv'
  OBVIOUS
<1>0. UNCHANGED driver
  BY BoardKept DEF board
<1>1. CASE Arrive
  <2>1. Stream' = Stream /\ arrived' = arrived + 1 /\ UNCHANGED isr
        /\ rbne' = ~ denr /\ dr' = (IF rbne THEN dr ELSE arrived + 1)
    BY <1>1 DEF Arrive, readVars, Stream
  <2>2. Stream \in Seq(1 .. MaxBytes) /\ arrived \in Nat
    BY StreamType DEF UrTypeOK
  <2>3. driver = "buffered" => rbne'
    BY <2>1 DEF ArmInv
  <2>4. dr' \in 1 .. arrived'
    BY <2>1, <2>2 DEF OrderInv
  <2>5. ASSUME NEW i \in 1 .. Len(Stream) PROVE Stream[i] <= arrived' /\ Stream[i] < dr'
    <3>1. Stream[i] \in 1 .. MaxBytes /\ Stream[i] <= arrived /\ (rbne => Stream[i] < dr)
      <4>1. Stream[i] \in 1 .. MaxBytes
        BY <2>2, CapacityAssumption, ElementOfSeq
      <4> QED BY <4>1 DEF OrderInv
    <3> QED BY <2>1, <2>2, <3>1
  <2> QED BY <1>0, <2>1, <2>3, <2>4, <2>5 DEF OrderInv
<1>2. CASE GoIdle \/ UNCHANGED urVars
  <2>1. UNCHANGED << Stream, driver, arrived, dr, rbne, isr >>
    BY <1>2 DEF GoIdle, urVars, regVars, enVars, board, readVars, wireVars, Stream
  <2> QED BY <2>1, OrderQuiet DEF OrderInv
<1>3. CASE IsrTake /\ driver = "buffered" /\ Len(queue) < Capacity
  <2>1. rbne /\ dr \in 1 .. MaxBytes /\ dr \in 1 .. arrived
    BY <1>3 DEF OrderInv, UrTypeOK, IsrTake
  <2>2. queue' = Append(queue, dr) /\ ~ rbne' /\ isr' = "test"
        /\ UNCHANGED << delivered, arrived, dr >>
    BY <1>3 DEF IsrTake, ReadData, IsrSame, readVars
  <2>3. Stream' = Append(Stream, dr)
    BY <2>1, <2>2, TakeAppends DEF UrTypeOK, Stream
  <2>4. Stream \in Seq(1 .. MaxBytes) /\ Len(Stream) \in Nat /\ arrived \in Nat
    BY StreamType DEF UrTypeOK
  <2>5. Len(Stream') = Len(Stream) + 1 /\ Stream'[Len(Stream) + 1] = dr
        /\ \A i \in 1 .. Len(Stream) : Stream'[i] = Stream[i]
    BY <2>1, <2>3, <2>4, AppendProperties
  <2>6. ASSUME NEW i \in 1 .. Len(Stream') PROVE Stream'[i] <= arrived
    <3>1. i \in 1 .. Len(Stream) \/ i = Len(Stream) + 1
      BY <2>4, <2>5
    <3> QED BY <2>1, <2>5, <3>1 DEF OrderInv
  <2>7. ASSUME NEW i \in 1 .. Len(Stream'), NEW j \in 1 .. Len(Stream'), i < j
        PROVE  Stream'[i] < Stream'[j]
    <3>1. i \in 1 .. Len(Stream)
      BY <2>4, <2>5, <2>7
    <3>2. CASE j \in 1 .. Len(Stream)
      BY <2>5, <2>7, <3>1, <3>2 DEF OrderInv
    <3>3. CASE j = Len(Stream) + 1
      BY <2>1, <2>5, <3>1, <3>3 DEF OrderInv
    <3>4. j \in 1 .. Len(Stream) \/ j = Len(Stream) + 1
      BY <2>4, <2>5
    <3> QED BY <3>2, <3>3, <3>4
  <2> QED BY <1>0, <1>3, <2>2, <2>6, <2>7 DEF OrderInv
<1>4. CASE (IsrEnter \/ IsrInert \/ IsrBody)
           /\ ~ (IsrTake /\ driver = "buffered" /\ Len(queue) < Capacity)
  <2>1. UNCHANGED << arrived, dr, delivered >>
    BY <1>4, IsrKeeps DEF IsrSame, readVars
  <2>2. UNCHANGED queue /\ (rbne' => rbne) /\ (isr' = "take" /\ isr # "take" => rbne')
        /\ (isr = "take" => isr' = "idle" \/ UNCHANGED << isr, rbne >>)
    BY <1>4 DEF IsrEnter, IsrInert, IsrBody, IsrStatus, IsrClearError, IsrTest, IsrTake,
       IsrIdleTest, IsrClearIdle, IsrClearIdleData, IsrNote, ReadData, IsrAt, urVars, regVars
  <2>3. driver = "buffered" /\ isr' = "take" => rbne'
    BY <2>2 DEF OrderInv
  <2> QED BY <1>0, <2>1, <2>2, <2>3, OrderQuiet DEF Stream
<1>5. CASE Arm \/ UrRelease
  <2>1. UNCHANGED << arrived, dr, queue, isr, delivered >> /\ isr = "out" /\ (rbne' => rbne)
    BY <1>5 DEF Arm, UrRelease, BufferedInstall, BufferedListen, Unmask, RingEnableDma,
       RingListenIdle, RingListenErrors, RingInstall, BufferedUnlisten, RingDisableDma,
       RingUnlistenIdle, Uninstall, Arming, readVars, MainAt
  <2> QED BY <1>0, <2>1, OrderQuiet DEF Stream
<1>6. CASE PopByte
  <2>1. queue # << >> /\ queue' = Tail(queue) /\ delivered' = Append(delivered, Head(queue))
        /\ UNCHANGED << arrived, dr, rbne, isr >>
    BY <1>6 DEF PopByte, Polling, regVars
  <2>2. Stream' = Stream
    BY <2>1, PopMoves DEF UrTypeOK, Stream
  <2> QED BY <1>0, <2>1, <2>2, OrderQuiet DEF OrderInv
<1>7. CASE Poll /\ ~ PopByte
  <2>1. UNCHANGED << arrived, dr, rbne, isr, queue, delivered >>
    BY <1>7 DEF Poll, ReadOverflow, ReadStart, ReadLineError, ReadClean, PopEmpty, TakeIdle,
                Polling, regVars, readVars
  <2> QED BY <1>0, <2>1, OrderQuiet DEF OrderInv, Stream
<1> QED BY <1>1, <1>2, <1>3, <1>4, <1>5, <1>6, <1>7 DEF UrNext
------------------------------------------------------------------------------
\* The slot, the registers and the ring keep their types; what the drain loop
\* takes from the data register is a character.
LEMMA NextType == UrTypeOK /\ OrderInv /\ [UrNext]_urVars => UrTypeOK'
<1> USE FamilyAssumption, DriverAssumption, CapacityAssumption
<1> SUFFICES ASSUME UrTypeOK, OrderInv, [UrNext]_urVars PROVE UrTypeOK'
  OBVIOUS
<1>0. UNCHANGED board
  BY BoardKept
<1>1. CASE Arrive
  BY <1>0, <1>1 DEF UrTypeOK, Arrive, enVars, slotVars, readVars, board
<1>2. CASE GoIdle
  BY <1>0, <1>2 DEF UrTypeOK, GoIdle, enVars, slotVars, readVars, board
<1>3. CASE UNCHANGED urVars
  BY <1>3 DEF UrTypeOK, urVars, regVars, enVars, slotVars, wireVars, readVars, ghostVars, board
<1>4. CASE IsrEnter \/ IsrInert \/ IsrStatus
  BY <1>0, <1>4 DEF UrTypeOK, IsrEnter, IsrInert, IsrStatus, ReadStat, IsrAt, IsrSame, urVars,
     regVars, enVars, slotVars, wireVars, readVars, ghostVars, board
<1>5. CASE IsrClearError
  BY <1>0, <1>5 DEF UrTypeOK, IsrClearError, ReadData, IsrAt, IsrSame, enVars, readVars, board
<1>6. CASE IsrTest \/ IsrIdleTest
  BY <1>0, <1>6 DEF UrTypeOK, IsrTest, IsrIdleTest, ReadStat, IsrAt, IsrSame, enVars, readVars,
     ghostVars, board
<1>7. CASE IsrTake
  <2>1. queue' \in Seq(1 .. MaxBytes) /\ Len(queue') <= Capacity
    <3>1. CASE driver = "buffered" /\ Len(queue) < Capacity
      <4>1. dr \in 1 .. MaxBytes
        BY <1>7, <3>1 DEF IsrTake, OrderInv, UrTypeOK
      <4>2. queue' = Append(queue, dr)
        BY <1>7, <3>1 DEF IsrTake
      <4> QED BY <3>1, <4>1, <4>2 DEF UrTypeOK
    <3>2. CASE ~ (driver = "buffered" /\ Len(queue) < Capacity)
      BY <1>7, <3>2 DEF IsrTake, UrTypeOK
    <3> QED BY <3>1, <3>2
  <2>2. UNCHANGED << IsrSame, idleSeen, lineErr, boundary, notedAt >> /\ ReadData
        /\ (overflow' = overflow \/ overflow' = TRUE)
        /\ (unreported' = unreported \/ unreported' = TRUE)
        /\ isr' \in {"test", "idle"}
    BY <1>7 DEF IsrTake
  <2> QED BY <1>0, <2>1, <2>2 DEF UrTypeOK, ReadData, IsrSame, enVars, readVars, board
<1>8. CASE IsrClearIdle
  BY <1>0, <1>8 DEF UrTypeOK, IsrClearIdle, ReadStat, IsrSame, enVars, readVars, board
<1>9. CASE IsrClearIdleData \/ IsrNote
  BY <1>0, <1>9 DEF UrTypeOK, IsrClearIdleData, IsrNote, ReadData, IsrAt, IsrSame, enVars,
     readVars, ghostVars, board
<1>10. CASE BufferedInstall \/ BufferedListen \/ Unmask
  BY <1>0, <1>10 DEF UrTypeOK, BufferedInstall, BufferedListen, Unmask, Install, Arming, MainAt,
     enVars, slotVars, readVars, board
<1>11. CASE RingEnableDma \/ RingListenIdle \/ RingListenErrors \/ RingInstall
  BY <1>0, <1>11 DEF UrTypeOK, RingEnableDma, RingListenIdle, RingListenErrors, RingInstall,
     Install, Arming, MainAt, enVars, slotVars, readVars, board
<1>12. CASE BufferedUnlisten \/ RingDisableDma \/ RingUnlistenIdle \/ Uninstall
  BY <1>0, <1>12 DEF UrTypeOK, BufferedUnlisten, RingDisableDma, RingUnlistenIdle, Uninstall,
     Arming, MainAt, enVars, slotVars, readVars, board
<1>13. CASE PopByte
  <2>1. queue' \in Seq(1 .. MaxBytes) /\ Len(queue') <= Capacity
        /\ delivered' \in Seq(1 .. MaxBytes)
    <3>1. queue \in Seq(1 .. MaxBytes) /\ queue # << >> /\ Len(queue) <= Capacity
          /\ delivered \in Seq(1 .. MaxBytes)
      BY <1>13 DEF PopByte, UrTypeOK
    <3>2. Head(queue) \in 1 .. MaxBytes /\ Tail(queue) \in Seq(1 .. MaxBytes)
          /\ Len(Tail(queue)) = Len(queue) - 1
      BY <3>1, HeadTailProperties
    <3> QED BY <1>13, <3>1, <3>2 DEF PopByte
  <2> QED BY <1>0, <1>13, <2>1 DEF UrTypeOK, PopByte, Polling, MainAt, regVars, enVars, board
<1>14. CASE TakeIdle
  BY <1>0, <1>14 DEF UrTypeOK, TakeIdle, Polling, MainAt, regVars, enVars, board
<1>15. CASE ReadOverflow \/ ReadStart \/ ReadLineError \/ ReadClean \/ PopEmpty
  BY <1>0, <1>15 DEF UrTypeOK, ReadOverflow, ReadStart, ReadLineError, ReadClean, PopEmpty,
     Polling, MainAt, regVars, enVars, readVars, board
<1> QED BY <1>1, <1>2, <1>3, <1>4, <1>5, <1>6, <1>7, <1>8, <1>9, <1>10, <1>11, <1>12, <1>13,
           <1>14, <1>15 DEF UrNext, IsrBody, Arm, UrRelease, Poll

------------------------------------------------------------------------------
\* A board out of reset, nothing armed and nothing received.
LEMMA UrInitInv == UrInit => UrIInv
<1> SUFFICES ASSUME UrInit PROVE UrIInv
  OBVIOUS
<1>1. UrTypeOK
  <2>1. << >> \in Seq(1 .. MaxBytes) /\ Len(<< >>) <= Capacity /\ 0 \in 0 .. MaxBytes
    BY CapacityAssumption
  <2> QED BY <2>1 DEF UrInit, UrTypeOK
<1>2. Stream = << >>
  BY DEF UrInit, Stream
<1> QED BY <1>1, <1>2 DEF UrInit, UrIInv, ArmInv, LossInv, BoundaryKeptF1x0, BoundaryKept, OrderInv

\* Every step keeps the five parts together.
LEMMA UrNextInv == UrIInv /\ [UrNext]_urVars => UrIInv'
  BY NextType, NextArm, NextLoss, NextBoundary, NextOrder DEF UrIInv

\* The inductive invariant holds in every reachable state.
LEMMA UrIInvAlways == UrSpec => []UrIInv
  BY UrInitInv, UrNextInv, PTL DEF UrSpec

\* BufferedRx::read on F1x0: no character is lost without a condition that the
\* interrupt or a later read surfaces.
THEOREM LossReportedF1x0 == UrSpec => []NoSilentLossF1x0
<1>1. UrIInv => NoSilentLossF1x0
  BY DEF UrIInv, LossInv, NoSilentLossF1x0, NoSilentLoss
<1> QED BY <1>1, UrIInvAlways, PTL

\* on_usart_rx_irq under BufferedRx: the vector is never left unmasked and
\* asserted with nobody to clear it.
THEOREM NoStormBuffered == UrSpec => []NoDeadEntryBuffered
<1>1. UrIInv => NoDeadEntryBuffered
  BY DEF UrIInv, ArmInv, NoDeadEntryBuffered, NoDeadEntry, Asserted
<1> QED BY <1>1, UrIInvAlways, PTL

\* RxRing and the drain loop: read returns the characters in the order of the
\* wire, on both families, across errors, releases and fresh armings.
THEOREM ReadInOrder == UrSpec => []DeliveredInOrder
<1>1. ASSUME UrIInv PROVE DeliveredInOrder
  <2>1. Stream \in Seq(1 .. MaxBytes) /\ Len(Stream) \in Nat
    BY <1>1, StreamType DEF UrIInv
  <2>2. ASSUME NEW i \in 1 .. Len(Stream) - 1 PROVE Stream[i] < Stream[i + 1]
    <3>1. i \in 1 .. Len(Stream) /\ i + 1 \in 1 .. Len(Stream) /\ i < i + 1
      BY <2>1
    <3> QED BY <1>1, <3>1 DEF UrIInv, OrderInv
  <2> QED BY <2>2 DEF DeliveredInOrder, Stream
<1> QED BY <1>1, UrIInvAlways, PTL

\* Everything the receive interrupt and its reader promise together, for every
\* ring capacity and any number of characters.
THEOREM UsartRxSafety == UrSpec => []UrSafe
<1>1. UrIInv => UrTypeOK /\ BoundaryKeptF1x0
  BY DEF UrIInv
<1> QED BY <1>1, UrIInvAlways, LossReportedF1x0, NoStormBuffered, ReadInOrder, PTL DEF UrSafe

---------------------------------------------------------------------------
(* The transmitter (DmaTx).                                               *)

USE SizesAssumption, BoundsAssumption, FrameAssumption

\* A completion flag belongs to a claimed channel that has fetched everything.
FlagInv ==
  \A p \in Port :
    /\ ftf[p] => inFlight[p] /\ cnt[p] = 0
    /\ ~ installed[p] => ~ inFlight[p]

\* What a call has established so far for its port.
CallInv ==
  /\ pc # "idle" => call.port \in Port /\ installed[call.port]
  /\ pc \in {"deadline", "stop", "flags", "unclaim", "copy", "stamp", "claim", "configure", "start"} =>
       call.n \in Slot /\ call.frame \in Frame
  /\ pc \in {"flags", "unclaim", "start", "release.flags", "release.dent", "release.uninstall"} =>
       ~ chen[call.port]
  /\ pc \in {"unclaim", "configure", "start", "release.dent", "release.uninstall"} =>
       ~ ftf[call.port]
  /\ pc \in {"copy", "stamp", "claim"} => ~ inFlight[call.port]
  /\ pc \in {"configure", "start"} => inFlight[call.port] /\ ~ Running(call.port)
  /\ pc = "start" => cnt[call.port] = call.n
  /\ pc \in {"stamp", "claim", "configure", "start"} =>
       \A s \in 1 .. call.n : txbuf[call.port][s] = call.frame

IInv == TypeOK /\ RunningClaimed /\ FlagInv /\ CallInv /\ BufferUnmodified

------------------------------------------------------------------------------
\* The cycle counter wraps at a positive width.
LEMMA CounterType == W \in Nat \ {0}
<1>1. BufLen * PerByte \in Nat
  OBVIOUS
<1> QED BY <1>1

\* The record of the call in progress when none is has the type of such records.
LEMMA NoCallType ==
  NoCall \in [port : Port \cup {None}, frame : Frame \cup {None}, n : 0 .. BufLen]
  BY DEF NoCall

\* Before any port is brought up the inductive invariant holds.
LEMMA InitIInv == Init => IInv
<1> SUFFICES ASSUME Init PROVE IInv
  OBVIOUS
<1>1. TypeOK
  <2>1. call \in [port : Port \cup {None}, frame : Frame \cup {None}, n : 0 .. BufLen]
    BY NoCallType DEF Init
  <2>2. armed \in [Port -> [frame : Frame \cup {None}, n : 0 .. BufLen]]
    BY DEF Init
  <2>3. txbuf \in [Port -> [Slot -> Frame \cup {None}]]
    BY DEF Init
  <2>4. /\ started \in [Port -> 0 .. W - 1] /\ budget \in [Port -> 0 .. W - 1]
        /\ now \in 0 .. W - 1 /\ age \in [Port -> 0 .. W]
    BY CounterType DEF Init
  <2> QED BY <2>1, <2>2, <2>3, <2>4 DEF Init, TypeOK
<1>2. RunningClaimed /\ FlagInv /\ CallInv /\ BufferUnmodified
  BY DEF Init, RunningClaimed, FlagInv, CallInv, BufferUnmodified, Running
<1> QED BY <1>1, <1>2 DEF IInv

\* Cycle arithmetic, which wraps, stays within the counter's range.
LEMMA CycleType == \A x \in Int : x % W \in 0 .. W - 1
  OBVIOUS

\* Time changes nothing the contract is about.
LEMMA TickStep == ASSUME IInv, Tick PROVE IInv'
<1> USE DEF IInv, Tick, Step, Disable, ctxVars, chanVars, portVars
<1>1. TypeOK'
  <2>1. now' \in 0 .. W - 1
    BY DEF TypeOK
  <2>2. age' \in [Port -> 0 .. W]
    BY DEF TypeOK
  <2> QED BY <2>1, <2>2 DEF TypeOK, NoCall
<1>2. RunningClaimed'
  BY DEF RunningClaimed, Running, FlagInv, CallInv, TypeOK
<1>3. FlagInv'
  BY DEF RunningClaimed, Running, FlagInv, CallInv, TypeOK
<1>4. CallInv'
  BY DEF RunningClaimed, Running, FlagInv, CallInv, TypeOK, NoCall, Slot
<1>5. BufferUnmodified'
  BY DEF RunningClaimed, Running, FlagInv, CallInv, BufferUnmodified, TypeOK, Slot
<1> QED BY <1>1, <1>2, <1>3, <1>4, <1>5

\* The last fetch raises FTFIF on a channel that is claimed.
LEMMA FetchStep == ASSUME IInv, NEW p \in Port, Fetch(p) PROVE IInv'
<1> USE DEF IInv, Fetch, Step, Disable, ctxVars, chanVars, portVars
<1>1. TypeOK'
  <2>1. cnt' \in [Port -> 0 .. BufLen]
    BY DEF TypeOK, Running
  <2>2. ftf' \in [Port -> BOOLEAN] /\ pend' \in [Port -> BOOLEAN]
    BY DEF TypeOK
  <2> QED BY <2>1, <2>2 DEF TypeOK, NoCall
<1>2. RunningClaimed'
  BY DEF RunningClaimed, Running, FlagInv, CallInv, TypeOK
<1>3. FlagInv'
  BY DEF RunningClaimed, Running, FlagInv, CallInv, TypeOK
<1>4. CallInv'
  BY DEF RunningClaimed, Running, FlagInv, CallInv, TypeOK, NoCall, Slot
<1>5. BufferUnmodified'
  <2> SUFFICES ASSUME NEW q \in Port, Running(q)', NEW s \in armed[q].n - cnt'[q] + 1 .. armed[q].n
               PROVE  txbuf[q][s] = armed[q].frame
    BY DEF BufferUnmodified
  <2>1. cnt[q] \in Nat /\ cnt'[q] \in Nat /\ cnt'[q] <= cnt[q] /\ armed[q].n \in Nat
    BY DEF TypeOK, Running
  <2>2. Running(q)
    BY <2>1 DEF Running
  <2>3. s \in armed[q].n - cnt[q] + 1 .. armed[q].n
    BY <2>1
  <2> QED BY <2>2, <2>3 DEF BufferUnmodified
<1> QED BY <1>1, <1>2, <1>3, <1>4, <1>5

\* A transfer that stops making progress changes no claim and no buffer.
LEMMA WedgeStep == ASSUME IInv, NEW p \in Port, Wedge(p) PROVE IInv'
<1> USE DEF IInv, Wedge, Step, Disable, ctxVars, chanVars, portVars
<1>1. TypeOK'
  BY DEF TypeOK, NoCall, Slot
<1>2. RunningClaimed'
  BY DEF RunningClaimed, Running, FlagInv, CallInv, TypeOK
<1>3. FlagInv'
  BY DEF RunningClaimed, Running, FlagInv, CallInv, TypeOK
<1>4. CallInv'
  BY DEF RunningClaimed, Running, FlagInv, CallInv, TypeOK, NoCall, Slot
<1>5. BufferUnmodified'
  BY DEF RunningClaimed, Running, FlagInv, CallInv, BufferUnmodified, TypeOK, Slot
<1> QED BY <1>1, <1>2, <1>3, <1>4, <1>5

\* An interrupt with nothing to do (service_dma_tx's early return) keeps the invariant.
LEMMA IsrReturnStep == ASSUME IInv, NEW p \in Port, IsrReturn(p) PROVE IInv'
<1> USE DEF IInv, IsrReturn, Step, Disable, ctxVars, chanVars, portVars
<1>1. TypeOK'
  BY DEF TypeOK, NoCall, Slot
<1>2. RunningClaimed'
  BY DEF RunningClaimed, Running, FlagInv, CallInv, TypeOK
<1>3. FlagInv'
  BY DEF RunningClaimed, Running, FlagInv, CallInv, TypeOK
<1>4. CallInv'
  BY DEF RunningClaimed, Running, FlagInv, CallInv, TypeOK, NoCall, Slot
<1>5. BufferUnmodified'
  BY DEF RunningClaimed, Running, FlagInv, CallInv, BufferUnmodified, TypeOK, Slot
<1> QED BY <1>1, <1>2, <1>3, <1>4, <1>5

\* The flag shows that nothing is left to fetch.
LEMMA IsrCompleteStep == ASSUME IInv, NEW p \in Port, IsrComplete(p) PROVE IInv'
<1> USE DEF IInv, IsrComplete, Step, Disable, ctxVars, chanVars, portVars
<1>1. TypeOK'
  BY DEF TypeOK, NoCall, Slot
<1>2. RunningClaimed'
  BY DEF RunningClaimed, Running, FlagInv, CallInv, TypeOK
<1>3. FlagInv'
  BY DEF RunningClaimed, Running, FlagInv, CallInv, TypeOK
<1>4. CallInv'
  BY DEF RunningClaimed, Running, FlagInv, CallInv, TypeOK, NoCall, Slot
<1>5. BufferUnmodified'
  BY DEF RunningClaimed, Running, FlagInv, CallInv, BufferUnmodified, TypeOK, Slot
<1> QED BY <1>1, <1>2, <1>3, <1>4, <1>5

\* Bringing a port up (DmaTx::new) installs an unclaimed context on an idle channel.
LEMMA NewStep == ASSUME IInv, NEW p \in Port, New(p) PROVE IInv'
<1> USE DEF IInv, New, Step, Disable, ctxVars, chanVars, portVars
<1>1. TypeOK'
  <2>1. /\ now' \in 0 .. W - 1 /\ started' \in [Port -> 0 .. W - 1]
        /\ budget' \in [Port -> 0 .. W - 1]
    BY CounterType DEF TypeOK
  <2>2. /\ timeouts' \in [Port -> 0 .. MaxTimeouts] /\ news' \in 0 .. MaxNew
        /\ installed' \in [Port -> BOOLEAN] /\ inFlight' \in [Port -> BOOLEAN]
        /\ chen' \in [Port -> BOOLEAN] /\ wedged' \in [Port -> BOOLEAN]
        /\ dent' \in [Port -> BOOLEAN]
    BY DEF TypeOK
  <2> QED BY <2>1, <2>2 DEF TypeOK, NoCall
<1>2. RunningClaimed'
  BY DEF RunningClaimed, Running, FlagInv, CallInv, TypeOK
<1>3. FlagInv'
  BY DEF RunningClaimed, Running, FlagInv, CallInv, TypeOK
<1>4. CallInv'
  BY DEF RunningClaimed, Running, FlagInv, CallInv, TypeOK, NoCall, Slot
<1>5. BufferUnmodified'
  BY DEF RunningClaimed, Running, FlagInv, CallInv, BufferUnmodified, TypeOK, Slot
<1> QED BY <1>1, <1>2, <1>3, <1>4, <1>5

\* Stopping the channel in DmaTx::release leaves no engine reading the buffer.
LEMMA ReleaseStopStep == ASSUME IInv, NEW p \in Port, ReleaseStop(p) PROVE IInv'
<1> USE DEF IInv, ReleaseStop, Step, Disable, ctxVars, chanVars, portVars
<1>1. TypeOK'
  <2>1. call' \in [port : Port \cup {None}, frame : Frame \cup {None}, n : 0 .. BufLen]
    <3>1. call' = [port |-> p, frame |-> None, n |-> 0]
      BY DEF ReleaseStop
    <3>2. p \in Port \cup {None} /\ None \in Frame \cup {None} /\ 0 \in 0 .. BufLen
      OBVIOUS
    <3> QED BY ONLY <3>1, <3>2
  <2>2. chen' \in [Port -> BOOLEAN] /\ wedged' \in [Port -> BOOLEAN]
    BY DEF TypeOK
  <2> QED BY <2>1, <2>2 DEF TypeOK, NoCall
<1>2. RunningClaimed'
  BY DEF RunningClaimed, Running, FlagInv, CallInv, TypeOK
<1>3. FlagInv'
  BY DEF RunningClaimed, Running, FlagInv, CallInv, TypeOK
<1>4. CallInv'
  BY DEF RunningClaimed, Running, FlagInv, CallInv, TypeOK, NoCall, Slot
<1>5. BufferUnmodified'
  BY DEF RunningClaimed, Running, FlagInv, CallInv, BufferUnmodified, TypeOK, Slot
<1> QED BY <1>1, <1>2, <1>3, <1>4, <1>5

\* Clearing the channel's flags on release keeps the invariant.
LEMMA ReleaseFlagsStep == ASSUME IInv, ReleaseFlags PROVE IInv'
<1> USE DEF IInv, ReleaseFlags, Step, Disable, ctxVars, chanVars, portVars
<1>1. TypeOK'
  BY DEF TypeOK, NoCall, Slot
<1>2. RunningClaimed'
  BY DEF RunningClaimed, Running, FlagInv, CallInv, TypeOK
<1>3. FlagInv'
  BY DEF RunningClaimed, Running, FlagInv, CallInv, TypeOK
<1>4. CallInv'
  BY DEF RunningClaimed, Running, FlagInv, CallInv, TypeOK, NoCall, Slot
<1>5. BufferUnmodified'
  BY DEF RunningClaimed, Running, FlagInv, CallInv, BufferUnmodified, TypeOK, Slot
<1> QED BY <1>1, <1>2, <1>3, <1>4, <1>5

\* Dropping the USART's DMA request on release keeps the invariant.
LEMMA ReleaseDentStep == ASSUME IInv, ReleaseDent PROVE IInv'
<1> USE DEF IInv, ReleaseDent, Step, Disable, ctxVars, chanVars, portVars
<1>1. TypeOK'
  BY DEF TypeOK, NoCall, Slot
<1>2. RunningClaimed'
  BY DEF RunningClaimed, Running, FlagInv, CallInv, TypeOK
<1>3. FlagInv'
  BY DEF RunningClaimed, Running, FlagInv, CallInv, TypeOK
<1>4. CallInv'
  BY DEF RunningClaimed, Running, FlagInv, CallInv, TypeOK, NoCall, Slot
<1>5. BufferUnmodified'
  BY DEF RunningClaimed, Running, FlagInv, CallInv, BufferUnmodified, TypeOK, Slot
<1> QED BY <1>1, <1>2, <1>3, <1>4, <1>5

\* Uninstalling the context on release unclaims a channel that is already stopped.
LEMMA ReleaseUninstallStep == ASSUME IInv, ReleaseUninstall PROVE IInv'
<1> USE DEF IInv, ReleaseUninstall, Step, Disable, ctxVars, chanVars, portVars
<1>1. TypeOK'
  <2>1. call' \in [port : Port \cup {None}, frame : Frame \cup {None}, n : 0 .. BufLen]
    BY NoCallType
  <2>2. installed' \in [Port -> BOOLEAN] /\ inFlight' \in [Port -> BOOLEAN]
    BY DEF TypeOK
  <2> QED BY <2>1, <2>2 DEF TypeOK, NoCall
<1>2. RunningClaimed'
  BY DEF RunningClaimed, Running, FlagInv, CallInv, TypeOK
<1>3. FlagInv'
  BY DEF RunningClaimed, Running, FlagInv, CallInv, TypeOK
<1>4. CallInv'
  BY DEF RunningClaimed, Running, FlagInv, CallInv, TypeOK, NoCall, Slot
<1>5. BufferUnmodified'
  BY DEF RunningClaimed, Running, FlagInv, CallInv, BufferUnmodified, TypeOK, Slot
<1> QED BY <1>1, <1>2, <1>3, <1>4, <1>5

\* A send refused while a transfer is in flight changes neither buffer nor claim.
LEMMA RefuseStep == ASSUME IInv, Refuse PROVE IInv'
<1> USE DEF IInv, Refuse, Step, Disable, ctxVars, chanVars, portVars
<1>1. TypeOK'
  BY DEF TypeOK, NoCall, Slot
<1>2. RunningClaimed'
  BY DEF RunningClaimed, Running, FlagInv, CallInv, TypeOK
<1>3. FlagInv'
  BY DEF RunningClaimed, Running, FlagInv, CallInv, TypeOK
<1>4. CallInv'
  BY DEF RunningClaimed, Running, FlagInv, CallInv, TypeOK, NoCall, Slot
<1>5. BufferUnmodified'
  BY DEF RunningClaimed, Running, FlagInv, CallInv, BufferUnmodified, TypeOK, Slot
<1> QED BY <1>1, <1>2, <1>3, <1>4, <1>5

\* Deciding to abandon an expired transfer only starts the force-restart.
LEMMA AbandonStep == ASSUME IInv, Abandon PROVE IInv'
<1> USE DEF IInv, Abandon, Step, Disable, ctxVars, chanVars, portVars
<1>1. TypeOK'
  BY DEF TypeOK, NoCall, Slot
<1>2. RunningClaimed'
  BY DEF RunningClaimed, Running, FlagInv, CallInv, TypeOK
<1>3. FlagInv'
  BY DEF RunningClaimed, Running, FlagInv, CallInv, TypeOK
<1>4. CallInv'
  BY DEF RunningClaimed, Running, FlagInv, CallInv, TypeOK, NoCall, Slot
<1>5. BufferUnmodified'
  BY DEF RunningClaimed, Running, FlagInv, CallInv, BufferUnmodified, TypeOK, Slot
<1> QED BY <1>1, <1>2, <1>3, <1>4, <1>5

\* The force-restart stops the channel before anything else is touched.
LEMMA StopChannelStep == ASSUME IInv, StopChannel PROVE IInv'
<1> USE DEF IInv, StopChannel, Step, Disable, ctxVars, chanVars, portVars
<1>1. TypeOK'
  BY DEF TypeOK, NoCall, Slot
<1>2. RunningClaimed'
  BY DEF RunningClaimed, Running, FlagInv, CallInv, TypeOK
<1>3. FlagInv'
  BY DEF RunningClaimed, Running, FlagInv, CallInv, TypeOK
<1>4. CallInv'
  BY DEF RunningClaimed, Running, FlagInv, CallInv, TypeOK, NoCall, Slot
<1>5. BufferUnmodified'
  BY DEF RunningClaimed, Running, FlagInv, CallInv, BufferUnmodified, TypeOK, Slot
<1> QED BY <1>1, <1>2, <1>3, <1>4, <1>5

\* The force-restart clears the flags of a stopped channel.
LEMMA ClearFlagsStep == ASSUME IInv, ClearFlags PROVE IInv'
<1> USE DEF IInv, ClearFlags, Step, Disable, ctxVars, chanVars, portVars
<1>1. TypeOK'
  BY DEF TypeOK, NoCall, Slot
<1>2. RunningClaimed'
  BY DEF RunningClaimed, Running, FlagInv, CallInv, TypeOK
<1>3. FlagInv'
  BY DEF RunningClaimed, Running, FlagInv, CallInv, TypeOK
<1>4. CallInv'
  BY DEF RunningClaimed, Running, FlagInv, CallInv, TypeOK, NoCall, Slot
<1>5. BufferUnmodified'
  BY DEF RunningClaimed, Running, FlagInv, CallInv, BufferUnmodified, TypeOK, Slot
<1> QED BY <1>1, <1>2, <1>3, <1>4, <1>5

\* The force-restart gives the claim up only with the channel stopped.
LEMMA UnclaimStep == ASSUME IInv, Unclaim PROVE IInv'
<1> USE DEF IInv, Unclaim, Step, Disable, ctxVars, chanVars, portVars
<1>1. TypeOK'
  <2>1. timeouts' \in [Port -> 0 .. MaxTimeouts]
    <3>1. \A q \in Port : timeouts[q] \in 0 .. MaxTimeouts
      BY DEF TypeOK
    <3>2. (IF timeouts[call.port] < MaxTimeouts THEN timeouts[call.port] + 1
           ELSE timeouts[call.port]) \in 0 .. MaxTimeouts
      BY <3>1 DEF CallInv
    <3> QED BY <3>2 DEF TypeOK
  <2>2. inFlight' \in [Port -> BOOLEAN]
    BY DEF TypeOK
  <2> QED BY <2>1, <2>2 DEF TypeOK, NoCall
<1>2. RunningClaimed'
  BY DEF RunningClaimed, Running, FlagInv, CallInv, TypeOK
<1>3. FlagInv'
  BY DEF RunningClaimed, Running, FlagInv, CallInv, TypeOK
<1>4. CallInv'
  BY DEF RunningClaimed, Running, FlagInv, CallInv, TypeOK, NoCall, Slot
<1>5. BufferUnmodified'
  BY DEF RunningClaimed, Running, FlagInv, CallInv, BufferUnmodified, TypeOK, Slot
<1> QED BY <1>1, <1>2, <1>3, <1>4, <1>5

\* The CPU writes the buffer of a port whose channel is not running.
LEMMA CopyStep == ASSUME IInv, Copy PROVE IInv'
<1> USE DEF IInv, Copy, Step, Disable, ctxVars, chanVars, portVars
<1>1. TypeOK'
  <2>1. txbuf' \in [Port -> [Slot -> Frame \cup {None}]]
    <3>1. [s \in Slot |-> IF s <= call.n THEN call.frame ELSE txbuf[call.port][s]]
            \in [Slot -> Frame \cup {None}]
      BY DEF TypeOK, CallInv
    <3> QED BY <3>1 DEF TypeOK
  <2>2. pc' = "stamp"
    OBVIOUS
  <2> QED BY <2>1, <2>2 DEF TypeOK, NoCall
<1>2. RunningClaimed'
  BY DEF RunningClaimed, Running, FlagInv, CallInv, TypeOK
<1>3. FlagInv'
  BY DEF RunningClaimed, Running, FlagInv, CallInv, TypeOK
<1>4. CallInv'
  <2>1. call.port \in Port /\ call.n \in Slot /\ call.frame \in Frame /\ installed[call.port]
        /\ ~ inFlight[call.port]
    BY DEF CallInv
  <2>2. \A s \in 1 .. call.n : txbuf'[call.port][s] = call.frame
    <3>1. txbuf'[call.port] = [s \in Slot |-> IF s <= call.n THEN call.frame ELSE txbuf[call.port][s]]
      BY <2>1 DEF TypeOK
    <3>2. \A s \in 1 .. call.n : s \in Slot /\ s <= call.n
      BY <2>1 DEF Slot
    <3> QED BY <3>1, <3>2
  <2>3. pc' = "stamp" /\ call' = call /\ installed' = installed /\ inFlight' = inFlight
    OBVIOUS
  <2> QED BY <2>1, <2>2, <2>3 DEF CallInv
<1>5. BufferUnmodified'
  <2>1. call.port \in Port /\ ~ Running(call.port)
    BY DEF CallInv, RunningClaimed
  <2>2. \A p \in Port \ {call.port} : txbuf'[p] = txbuf[p]
    BY DEF TypeOK
  <2>3. UNCHANGED << chen, cnt, armed >>
    OBVIOUS
  <2> QED BY <2>1, <2>2, <2>3 DEF BufferUnmodified, Running
<1> QED BY <1>1, <1>2, <1>3, <1>4, <1>5

\* Stamping the start time follows the copy and precedes the claim.
LEMMA StampStep == ASSUME IInv, Stamp PROVE IInv'
<1> USE DEF IInv, Stamp, Step, Disable, ctxVars, chanVars, portVars
<1>1. TypeOK'
  <2>1. budget' \in [Port -> 0 .. W - 1]
    <3>1. BudgetCycles(call.n) \in 0 .. W - 1
      <4>1. call.n \in 1 .. BufLen
        BY DEF CallInv, Slot
      <4>2. call.n * PerByte <= BufLen * PerByte /\ call.n * PerByte \in Nat
        BY <4>1
      <4>3. PerByte * call.n = call.n * PerByte
        BY <4>1
      <4> QED BY <4>2, <4>3 DEF BudgetCycles
    <3> QED BY <3>1 DEF TypeOK
  <2>2. started' \in [Port -> 0 .. W - 1] /\ age' \in [Port -> 0 .. W]
    <3>1. now \in 0 .. W - 1 /\ 0 \in 0 .. W
      BY CounterType DEF TypeOK
    <3> QED BY <3>1 DEF TypeOK
  <2> QED BY <2>1, <2>2 DEF TypeOK, NoCall
<1>2. RunningClaimed'
  BY DEF RunningClaimed, Running, FlagInv, CallInv, TypeOK
<1>3. FlagInv'
  BY DEF RunningClaimed, Running, FlagInv, CallInv, TypeOK
<1>4. CallInv'
  BY DEF RunningClaimed, Running, FlagInv, CallInv, TypeOK, NoCall, Slot
<1>5. BufferUnmodified'
  BY DEF RunningClaimed, Running, FlagInv, CallInv, BufferUnmodified, TypeOK, Slot
<1> QED BY <1>1, <1>2, <1>3, <1>4, <1>5

\* Claiming the buffer happens with the channel still stopped.
LEMMA ClaimStep == ASSUME IInv, Claim PROVE IInv'
<1> USE DEF IInv, Claim, Step, Disable, ctxVars, chanVars, portVars
<1>1. TypeOK'
  BY DEF TypeOK, NoCall, Slot
<1>2. RunningClaimed'
  BY DEF RunningClaimed, Running, FlagInv, CallInv, TypeOK
<1>3. FlagInv'
  BY DEF RunningClaimed, Running, FlagInv, CallInv, TypeOK
<1>4. CallInv'
  BY DEF RunningClaimed, Running, FlagInv, CallInv, TypeOK, NoCall, Slot
<1>5. BufferUnmodified'
  BY DEF RunningClaimed, Running, FlagInv, CallInv, BufferUnmodified, TypeOK, Slot
<1> QED BY <1>1, <1>2, <1>3, <1>4, <1>5

\* Writing the channel's address and count happens with it claimed and stopped.
LEMMA ConfigureStep == ASSUME IInv, Configure PROVE IInv'
<1> USE DEF IInv, Configure, Step, Disable, ctxVars, chanVars, portVars
<1>1. TypeOK'
  <2>1. cnt' \in [Port -> 0 .. BufLen]
    BY DEF TypeOK
  <2>2. chen' \in [Port -> BOOLEAN] /\ wedged' \in [Port -> BOOLEAN]
    BY DEF TypeOK
  <2> QED BY <2>1, <2>2 DEF TypeOK, NoCall
<1>2. RunningClaimed'
  BY DEF RunningClaimed, Running, FlagInv, CallInv, TypeOK
<1>3. FlagInv'
  BY DEF RunningClaimed, Running, FlagInv, CallInv, TypeOK
<1>4. CallInv'
  BY DEF RunningClaimed, Running, FlagInv, CallInv, TypeOK, NoCall, Slot
<1>5. BufferUnmodified'
  BY DEF RunningClaimed, Running, FlagInv, CallInv, BufferUnmodified, TypeOK, Slot
<1> QED BY <1>1, <1>2, <1>3, <1>4, <1>5

\* From here on the channel reads the frame just copied.
LEMMA StartStep == ASSUME IInv, Start PROVE IInv'
<1> USE DEF IInv, Start, Step, Disable, ctxVars, chanVars, portVars
<1>1. TypeOK'
  <2>1. call' \in [port : Port \cup {None}, frame : Frame \cup {None}, n : 0 .. BufLen]
    BY DEF NoCall
  <2>2. chen' \in [Port -> BOOLEAN]
        /\ armed' \in [Port -> [frame : Frame \cup {None}, n : 0 .. BufLen]]
    BY DEF TypeOK, CallInv
  <2> QED BY <2>1, <2>2 DEF TypeOK, NoCall
<1>2. RunningClaimed'
  BY DEF RunningClaimed, Running, FlagInv, CallInv, TypeOK
<1>3. FlagInv'
  BY DEF RunningClaimed, Running, FlagInv, CallInv, TypeOK
<1>4. CallInv'
  BY DEF RunningClaimed, Running, FlagInv, CallInv, TypeOK, NoCall, Slot
<1>5. BufferUnmodified'
  <2> SUFFICES ASSUME NEW q \in Port, Running(q)', NEW s \in armed'[q].n - cnt[q] + 1 .. armed'[q].n
               PROVE  txbuf[q][s] = armed'[q].frame
    BY DEF BufferUnmodified
  <2>1. CASE q = call.port
    <3>1. armed'[q] = [frame |-> call.frame, n |-> call.n] /\ cnt[q] = call.n
      BY <2>1 DEF TypeOK, CallInv
    <3>2. s \in 1 .. call.n
      BY <3>1 DEF TypeOK
    <3> QED BY <2>1, <3>1, <3>2 DEF CallInv
  <2>2. CASE q # call.port
    BY <2>2 DEF BufferUnmodified, Running, TypeOK
  <2> QED BY <2>1, <2>2
<1> QED BY <1>1, <1>2, <1>3, <1>4, <1>5

\* The start of try_send, whichever branch it takes, keeps the invariant.
LEMMA TrySendStep ==
  ASSUME IInv, NEW p \in Port, NEW f \in Frame, NEW n \in Slot, TrySend(p, f, n)
  PROVE  IInv'
<1> USE DEF IInv, TrySend, ctxVars, chanVars, portVars
<1>1. TypeOK'
  <2>1. call' \in [port : Port \cup {None}, frame : Frame \cup {None}, n : 0 .. BufLen]
    BY DEF Slot
  <2>2. pc' \in {"deadline", "copy"}
    OBVIOUS
  <2> QED BY <2>1, <2>2 DEF TypeOK
<1>2. RunningClaimed' /\ FlagInv' /\ BufferUnmodified'
  BY DEF RunningClaimed, Running, FlagInv, BufferUnmodified
<1>3. CallInv'
  BY DEF CallInv, FlagInv, TypeOK
<1> QED BY <1>1, <1>2, <1>3

\* Every step of the specification keeps the inductive invariant.
LEMMA NextIInv == IInv /\ [Next]_vars => IInv'
<1> SUFFICES ASSUME IInv, [Next]_vars PROVE IInv'
  OBVIOUS
<1>1. CASE UNCHANGED vars
  BY <1>1 DEF vars, ctxVars, chanVars, portVars, IInv, TypeOK, RunningClaimed, Running,
              FlagInv, CallInv, BufferUnmodified
<1>2. CASE Tick
  BY <1>2, TickStep
<1>3. CASE InCall
  BY <1>3, ReleaseFlagsStep, ReleaseDentStep, ReleaseUninstallStep, RefuseStep,
     AbandonStep, StopChannelStep, ClearFlagsStep, UnclaimStep, CopyStep, StampStep,
     ClaimStep, ConfigureStep, StartStep DEF InCall, Release, Send
<1>4. CASE \E p \in Port : Fetch(p) \/ Wedge(p) \/ Isr(p) \/ New(p) \/ ReleaseStop(p)
  BY <1>4, FetchStep, WedgeStep, IsrReturnStep, IsrCompleteStep, NewStep,
     ReleaseStopStep DEF Isr
<1>5. CASE \E p \in Port, f \in Frame, n \in Slot : TrySend(p, f, n)
  BY <1>5, TrySendStep
<1> QED BY <1>1, <1>2, <1>3, <1>4, <1>5 DEF Next

\* The inductive invariant holds in every reachable state.
LEMMA IInvAlways == Spec => []IInv
  BY InitIInv, NextIInv, PTL DEF Spec
------------------------------------------------------------------------------
\* The transmitter's state keeps its types.
THEOREM TypeCorrect == Spec => []TypeOK
<1>1. IInv => TypeOK
  BY DEF IInv
<1> QED BY <1>1, IInvAlways, PTL

\* DmaTx::try_send, the in-flight refusal: a channel with bytes left to fetch
\* is claimed.
THEOREM ClaimCoversChannel == Spec => []RunningClaimed
<1>1. IInv => RunningClaimed
  BY DEF IInv
<1> QED BY <1>1, IInvAlways, PTL

\* configure_oneshot's safety contract: nobody modifies what a channel has
\* still to fetch.
THEOREM BufferStaysUnmodified == Spec => []BufferUnmodified
<1>1. IInv => BufferUnmodified
  BY DEF IInv
<1> QED BY <1>1, IInvAlways, PTL

\* service_dma_tx releases a claim only when the channel has nothing left to
\* fetch: no stale completion ends the transfer after it.
THEOREM CompletionsAreReal == Spec => CompletionIsReal
<1>1. ASSUME IInv, [Next]_vars, NEW p \in Port, inFlight[p], ~ inFlight'[p], pc' = pc
      PROVE  cnt[p] = 0
  <2>1. pc \in {"idle", "deadline", "stop", "flags", "unclaim", "copy", "stamp", "claim",
             "configure", "start", "release.flags", "release.dent", "release.uninstall"}
        /\ inFlight \in [Port -> BOOLEAN]
    BY <1>1 DEF IInv, TypeOK
  <2>2. CASE \E q \in Port : Isr(q) \/ New(q)
    <3>1. PICK q \in Port : Isr(q) \/ New(q)
      BY <2>2
    <3>2. CASE IsrReturn(q)
      BY <1>1, <3>2 DEF IsrReturn, ctxVars
    <3>3. CASE IsrComplete(q)
      BY <1>1, <2>1, <3>3 DEF IsrComplete, IInv, FlagInv
    <3>4. CASE New(q)
      BY <1>1, <2>1, <3>4 DEF New, IInv, FlagInv
    <3> QED BY <3>1, <3>2, <3>3, <3>4 DEF Isr
  <2>3. CASE ~ \E q \in Port : Isr(q) \/ New(q)
    <3>1. CASE InCall
      BY <1>1, <2>1, <3>1 DEF InCall, Release, Send, Step, ReleaseFlags, ReleaseDent,
        ReleaseUninstall, Refuse, Abandon, StopChannel, ClearFlags, Unclaim, Copy, Stamp,
        Claim, Configure, Start
    <3>2. CASE ~ InCall
      BY <1>1, <2>3, <3>2 DEF Next, vars, ctxVars, Tick, Fetch, Wedge, ReleaseStop, TrySend
    <3> QED BY <3>1, <3>2
  <2> QED BY <2>2, <2>3
<1>2. IInv /\ [Next]_vars =>
        [\A p \in Port : inFlight[p] /\ ~ inFlight'[p] /\ pc' = pc => cnt[p] = 0]_vars
  BY <1>1
<1> QED BY <1>2, IInvAlways, PTL DEF Spec, CompletionIsReal

\* All of what the transmitter promises at every moment, for every number of
\* ports, buffer length and counter width.
THEOREM DmaTxSafety == Spec => []DmaTxSafe
  BY TypeCorrect, BufferStaysUnmodified, ClaimCoversChannel, PTL DEF DmaTxSafe

------------------------------------------------------------------------------
(* The deadline.  The cycles gone by since a transfer was stamped are at    *)
(* least the wrapped difference try_send compares with the budget, because  *)
(* nothing but a bring-up sets the counter back; bringing a port up while   *)
(* another one is sending does (run dma_tx_bring_up), hence the hypothesis. *)

\* The wrapping difference of two readings of the counter.
Elapsed(p) == (now - started[p]) % W

\* The ports whose stamp a deadline may still be measured from.
Timed(p) == inFlight[p] \/ (pc \in {"deadline", "claim"} /\ call.port = p)

TimeInv == \A p \in Port : Timed(p) => age[p] >= Elapsed(p)

\* A wrapping difference is the plain one, or one range more once the counter has wrapped.
LEMMA WrappedDifference ==
  ASSUME NEW x \in 0 .. W - 1, NEW y \in 0 .. W - 1
  PROVE  (x - y) % W = IF y <= x THEN x - y ELSE x - y + W
<1>1. W \in Nat \ {0}
  BY CounterType
<1>2. CASE y <= x
  <2>1. x - y \in 0 .. W - 1
    BY <1>1, <1>2
  <2>2. (x - y) % W = x - y
    BY <1>1, <2>1
  <2> QED BY <1>2, <2>2
<1>3. CASE x < y
  <2>1. x - y + W \in 0 .. W - 1
    BY <1>1, <1>3
  <2>2. (x - y) % W = x - y + W
    BY <1>1, <2>1
  <2> QED BY <1>1, <1>3, <2>2
<1> QED BY <1>1, <1>2, <1>3

\* A tick moves the counter on by one, around its range.
LEMMA NextReading ==
  ASSUME NEW x \in 0 .. W - 1
  PROVE  (x + 1) % W = IF x + 1 = W THEN 0 ELSE x + 1
<1>1. W \in Nat \ {0}
  BY CounterType
<1>2. CASE x + 1 = W
  BY <1>1, <1>2
<1>3. CASE x + 1 # W
  <2>1. x + 1 \in 0 .. W - 1
    BY <1>1, <1>3
  <2>2. (x + 1) % W = x + 1
    BY <1>1, <2>1
  <2> QED BY <1>3, <2>2
<1> QED BY <1>2, <1>3

\* A cycle adds at most one to the difference, and takes it to zero when the
\* counter comes round to the stamp.
LEMMA TickElapsed ==
  ASSUME TypeOK, Tick, NEW p \in Port
  PROVE  Elapsed(p)' <= Elapsed(p) + 1 /\ Elapsed(p)' \in 0 .. W - 1 /\ Elapsed(p) \in 0 .. W - 1
<1> DEFINE s == started[p]
           m == now'
<1>1. W \in Nat \ {0} /\ now \in 0 .. W - 1 /\ s \in 0 .. W - 1
  BY CounterType DEF TypeOK
<1>2. m = IF now + 1 = W THEN 0 ELSE now + 1
  BY <1>1, NextReading DEF Tick
<1>3. m \in 0 .. W - 1
  BY <1>1, <1>2
<1>4. started'[p] = s
  BY DEF Tick, portVars
<1> HIDE DEF s, m
<1>5. (now - s) % W = IF s <= now THEN now - s ELSE now - s + W
  BY <1>1, WrappedDifference
<1>6. (m - s) % W = IF s <= m THEN m - s ELSE m - s + W
  BY <1>1, <1>3, WrappedDifference
<1>7. (m - s) % W <= ((now - s) % W) + 1
      /\ (m - s) % W \in 0 .. W - 1 /\ (now - s) % W \in 0 .. W - 1
  BY <1>1, <1>2, <1>3, <1>5, <1>6
<1>8. Elapsed(p) = (now - s) % W
  BY DEF Elapsed, s
<1>9. Elapsed(p)' = (m - s) % W
  BY <1>4 DEF Elapsed, m
<1> QED BY <1>7, <1>8, <1>9

\* A tick ages a timed transfer by one, and what is measured of it by no more.
LEMMA TickTime == ASSUME TypeOK, TimeInv, Tick PROVE TimeInv'
<1> SUFFICES ASSUME NEW p \in Port, Timed(p)' PROVE age'[p] >= Elapsed(p)'
  BY DEF TimeInv
<1>1. Timed(p)
  BY DEF Tick, Timed, ctxVars
<1>2. age[p] >= Elapsed(p)
  BY <1>1 DEF TimeInv
<1>3. age'[p] = (IF age[p] < W THEN age[p] + 1 ELSE age[p]) /\ age[p] \in 0 .. W
  BY DEF Tick, TypeOK
<1>4. W \in Nat
  BY CounterType
<1> QED BY <1>2, <1>3, <1>4, TickElapsed

\* The stamp itself starts the difference and the age at zero.
LEMMA StampTime == ASSUME IInv, TimeInv, Stamp PROVE TimeInv'
<1> SUFFICES ASSUME NEW p \in Port, Timed(p)' PROVE age'[p] >= Elapsed(p)'
  BY DEF TimeInv
<1>1. /\ started \in [Port -> 0 .. W - 1] /\ age \in [Port -> 0 .. W] /\ now \in 0 .. W - 1
  BY DEF IInv, TypeOK
<1>2. /\ started' = [started EXCEPT ![call.port] = now]
      /\ age' = [age EXCEPT ![call.port] = 0]
      /\ now' = now
  BY DEF Stamp
<1>3. CASE p = call.port
  <2>1. age'[p] = 0 /\ started'[p] = now
    BY <1>1, <1>2, <1>3
  <2>2. (now - now) % W = 0
    BY <1>1, WrappedDifference
  <2> QED BY <1>2, <2>1, <2>2 DEF Elapsed
<1>4. CASE p # call.port
  <2>1. age'[p] = age[p] /\ started'[p] = started[p]
    BY <1>1, <1>2, <1>4
  <2>2. Timed(p)
    BY <1>4 DEF Stamp, Step, Timed, ctxVars
  <2>3. Elapsed(p)' = Elapsed(p)
    BY <1>2, <2>1 DEF Elapsed
  <2> QED BY <2>1, <2>2, <2>3 DEF TimeInv
<1> QED BY <1>3, <1>4

\* Where the clock and the stamps stand still, no port becomes timed that was not.
LEMMA StillTime ==
  ASSUME TimeInv, UNCHANGED << now, started, age >>, \A p \in Port : Timed(p)' => Timed(p)
  PROVE  TimeInv'
<1> SUFFICES ASSUME NEW p \in Port, Timed(p)' PROVE age'[p] >= Elapsed(p)'
  BY DEF TimeInv
<1>1. Timed(p) /\ age' = age
  OBVIOUS
<1>2. Elapsed(p)' = Elapsed(p)
  BY DEF Elapsed
<1> QED BY <1>1, <1>2 DEF TimeInv

\* Every step of a call except the stamp.
LEMMA InCallTime == ASSUME IInv, TimeInv, InCall PROVE TimeInv'
<1>1. inFlight \in [Port -> BOOLEAN]
  BY DEF IInv, TypeOK
<1>2. CASE Stamp
  BY <1>2, StampTime
<1>3. CASE Claim
  <2>1. \A p \in Port : Timed(p)' => Timed(p)
    BY <1>1, <1>3 DEF Claim, Step, Timed
  <2> QED BY <1>3, <2>1, StillTime DEF Claim, portVars
<1>4. CASE Unclaim \/ ReleaseUninstall
  <2>1. \A p \in Port : Timed(p)' => Timed(p)
    BY <1>1, <1>4 DEF Unclaim, ReleaseUninstall, Step, Timed
  <2> QED BY <1>4, <2>1, StillTime DEF Unclaim, ReleaseUninstall, portVars
<1>5. CASE \/ ReleaseFlags \/ ReleaseDent \/ Refuse \/ Abandon \/ StopChannel \/ ClearFlags
           \/ Copy \/ Configure \/ Start
  <2>1. UNCHANGED << now, started, age, inFlight >> /\ pc' \notin {"deadline", "claim"}
    BY <1>5 DEF ReleaseFlags, ReleaseDent, Refuse, Abandon, StopChannel, ClearFlags, Copy,
       Configure, Start, Step, ctxVars, portVars
  <2>2. \A p \in Port : Timed(p)' => Timed(p)
    BY <2>1 DEF Timed
  <2> QED BY <2>1, <2>2, StillTime
<1> QED BY <1>2, <1>3, <1>4, <1>5 DEF InCall, Release, Send

\* The steps of the hardware, the interrupt, a bring-up and a new call.
LEMMA PortTime ==
  ASSUME ~ LateBringUp, IInv, TimeInv, NEW p \in Port,
         Fetch(p) \/ Wedge(p) \/ Isr(p) \/ New(p) \/ ReleaseStop(p)
  PROVE  TimeInv'
<1>1. inFlight \in [Port -> BOOLEAN]
  BY DEF IInv, TypeOK
<1>2. CASE Fetch(p) \/ Wedge(p) \/ IsrReturn(p)
  <2>1. UNCHANGED << now, started, age, inFlight, pc, call >>
    BY <1>2 DEF Fetch, Wedge, IsrReturn, ctxVars, portVars
  <2> QED BY <2>1, StillTime DEF Timed
<1>3. CASE IsrComplete(p)
  <2>1. UNCHANGED << now, started, age, pc, call >>
        /\ inFlight' = [inFlight EXCEPT ![p] = FALSE]
    BY <1>3 DEF IsrComplete, portVars
  <2>2. \A q \in Port : Timed(q)' => Timed(q)
    BY <1>1, <2>1 DEF Timed
  <2> QED BY <2>1, <2>2, StillTime
<1>4. CASE New(p)
  <2>1. \A q \in Port : ~ Timed(q)'
    BY <1>1, <1>4 DEF New, Timed
  <2> QED BY <2>1 DEF TimeInv
<1>5. CASE ReleaseStop(p)
  <2>1. UNCHANGED << now, started, age, inFlight >> /\ pc' = "release.flags"
    BY <1>5 DEF ReleaseStop, Step, ctxVars, portVars
  <2>2. \A q \in Port : Timed(q)' => Timed(q)
    BY <2>1 DEF Timed
  <2> QED BY <2>1, <2>2, StillTime
<1> QED BY <1>2, <1>3, <1>4, <1>5 DEF Isr

\* The look at a transfer in flight changes no time.
LEMMA TrySendTime ==
  ASSUME IInv, TimeInv, NEW p \in Port, NEW f \in Frame, NEW n \in Slot, TrySend(p, f, n)
  PROVE  TimeInv'
<1>1. UNCHANGED << now, started, age, inFlight >>
  BY DEF TrySend, ctxVars, portVars
<1>2. call'.port = p /\ pc' = IF inFlight[p] THEN "deadline" ELSE "copy"
  BY DEF TrySend
<1>3. \A q \in Port : Timed(q)' => Timed(q)
  BY <1>1, <1>2 DEF Timed
<1> QED BY <1>1, <1>3, StillTime

\* No step leaves what the invariant says of time, while no port is brought up late.
LEMMA NextTime == ~ LateBringUp => (IInv /\ TimeInv /\ [Next]_vars => TimeInv')
<1> SUFFICES ASSUME ~ LateBringUp, IInv, TimeInv, [Next]_vars PROVE TimeInv'
  OBVIOUS
<1>1. CASE UNCHANGED vars
  BY <1>1, StillTime DEF vars, ctxVars, portVars, Timed
<1>2. CASE Tick
  BY <1>2, TickTime DEF IInv
<1>3. CASE InCall
  BY <1>3, InCallTime
<1>4. CASE \E p \in Port : Fetch(p) \/ Wedge(p) \/ Isr(p) \/ New(p) \/ ReleaseStop(p)
  BY <1>4, PortTime
<1>5. CASE \E p \in Port, f \in Frame, n \in Slot : TrySend(p, f, n)
  BY <1>5, TrySendTime
<1> QED BY <1>1, <1>2, <1>3, <1>4, <1>5 DEF Next

\* No time has passed at first.
LEMMA InitTime == Init => TimeInv
  BY DEF Init, TimeInv, Timed

\* try_send gives a transfer up only when as many cycles as its deadline have
\* gone by, for every width of the counter, provided that no port is brought up
\* while another one is sending.
THEOREM AbandonIsLate == ~ LateBringUp => (Spec => NoEarlyAbandon)
<1> SUFFICES ASSUME ~ LateBringUp PROVE Spec => NoEarlyAbandon
  OBVIOUS
<1>1. IInv /\ TimeInv /\ [Next]_vars => TimeInv'
  BY NextTime
<1>2. IInv /\ TimeInv /\ [Next]_vars =>
        [pc = "deadline" /\ pc' = "stop" => age[call.port] >= budget[call.port]]_vars
  <2> SUFFICES ASSUME IInv, TimeInv, [Next]_vars, pc = "deadline", pc' = "stop"
               PROVE  age[call.port] >= budget[call.port]
    OBVIOUS
  <2>1. Abandon
    BY DEF Next, vars, Tick, InCall, Release, Send, Step, ReleaseFlags, ReleaseDent,
       ReleaseUninstall, Refuse, Abandon, StopChannel, ClearFlags, Unclaim, Copy, Stamp, Claim,
       Configure, Start, Fetch, Wedge, Isr, IsrReturn, IsrComplete, New, ReleaseStop, TrySend
  <2>2. call.port \in Port
    BY DEF IInv, CallInv
  <2>3. age[call.port] >= Elapsed(call.port)
    BY <2>2 DEF TimeInv, Timed
  <2>4. Elapsed(call.port) >= budget[call.port]
    BY <2>1 DEF Abandon, Expired, Elapsed
  <2>5. age[call.port] \in Nat /\ budget[call.port] \in Nat /\ Elapsed(call.port) \in Int
    <3>1. now \in Int /\ started[call.port] \in Int
      BY <2>2 DEF IInv, TypeOK
    <3>2. (now - started[call.port]) \in Int
      BY <3>1
    <3>3. (now - started[call.port]) % W \in 0 .. W - 1
      BY <3>2, CycleType
    <3> QED BY <2>2, <3>3, CounterType DEF IInv, TypeOK, Elapsed
  <2> QED BY <2>3, <2>4, <2>5
<1> QED BY <1>1, <1>2, InitTime, IInvAlways, PTL DEF Spec, NoEarlyAbandon

\* Neither of what no step of the transmitter does happens.
THEOREM DmaTxStepsHold == ~ LateBringUp => (Spec => DmaTxSteps)
  BY AbandonIsLate, CompletionsAreReal, PTL DEF DmaTxSteps
=============================================================================
