---------------------------- MODULE DmaRxProofs ----------------------------
(***************************************************************************)
(* The DMA receiver.                                                       *)
(*                                                                         *)
(* RingBufferedRx's snapshot (DmaRxRing) is exact for every buffer length  *)
(* and any number of characters. Laps counted plus the lap FTFIF announces *)
(* are the laps made (LapInv); while the counter still shows what the      *)
(* first load read, the flag can only go up, so each later load fixes the  *)
(* lap the loads before it belong to (SnapInv).                            *)
(*                                                                         *)
(* Its life (DmaLap) holds for every buffer length, every width of the     *)
(* wrap counter, every slice and any number of characters. The inductive   *)
(* invariant ties the position to the laps the channel has ended since it  *)
(* was configured and to its progress in the current one, and compares the *)
(* code's count of laps with theirs: it never exceeds it, and equals it    *)
(* under the premises of ExactUnlessLate.                                  *)
(***************************************************************************)
EXTENDS DmaRxRing, DmaLap, TLAPS

---------------------------------------------------------------------------
(* The snapshot (DmaRxRing).                                              *)

USE LAssumption, ReadSizesAssumption, MaxBytesAssumption

\* The interrupt has counted the lap whose flag it is about to clear.
Counted == isr = "clear" /\ intf.ftf

\* The laps the channel has made.
Laps == IF ftf /\ ~ Counted THEN wraps + 1 ELSE wraps

LapInv ==
  /\ written = Position(Laps, cnt)
  /\ isr # "idle" /\ intf.ftf => ftf

\* While the counter shows w1, what has been loaded so far says where the
\* channel was.
SnapInv ==
  /\ rd \in {"remA", "ftf", "remB", "w2"} =>
       snap.w1 <= wraps /\ (Counted => snap.w1 < wraps)
  /\ rd = "ftf" /\ snap.w1 = wraps =>
       \/ startPos <= Position(snap.w1, snap.remA)
       \/ ftf
  /\ rd \in {"remB", "w2"} /\ snap.w1 = wraps /\ ~ snap.ftf =>
       startPos <= Position(snap.w1, snap.remA)
  /\ rd = "remB" /\ snap.w1 = wraps /\ snap.ftf => ftf
  /\ rd = "w2" /\ snap.w1 = wraps =>
       /\ Position(LapSeen, snap.remB) <= written
       /\ snap.ftf => startPos <= Position(LapSeen, snap.remB)

\* The cursor is behind where the channel was as the call began.
CallInv ==
  /\ startPos <= written /\ cursor <= written
  /\ rd # "idle" => cursor <= startPos /\ outcome = "none"
  /\ rd \in {"decide", "copy"} => startPos <= seen /\ seen <= written
  /\ rd = "copy" => op = "read" /\ Len(out) <= ToCopy /\ seen - cursor <= L
  /\ rd # "copy" => out = << >>

\* A true ready leaves something for the next read to return.
ReadyInv ==
  /\ outcome = "notReady" => cursor = startPos
  /\ outcome = "ready" => lineErr \/ cursor < written
  /\ promised /\ rd # "idle" => op = "heal" \/ (op = "read" /\ cursor < startPos /\ want > 0)
  /\ promised => outcome # "Empty"

IInv == TypeOK /\ LapInv /\ SnapInv /\ CallInv /\ ReadyInv

------------------------------------------------------------------------------
\* The engine's position in the buffer and its remaining count stay in range.
LEMMA PositionType ==
  ASSUME NEW w \in Nat, NEW r \in 1 .. L PROVE Position(w, r) \in Nat
<1>1. w * L \in Nat
  OBVIOUS
<1>2. L - r \in Nat
  OBVIOUS
<1> QED BY <1>1, <1>2 DEF Position

\* Within a lap, a lower count is a later position.
LEMMA PositionDown ==
  ASSUME NEW w \in Nat, NEW r \in 1 .. L, NEW s \in 1 .. L, s <= r
  PROVE  Position(w, r) <= Position(w, s)
<1>1. w * L \in Nat
  OBVIOUS
<1> QED BY <1>1 DEF Position

\* One stored byte short of the end moves the position on by one within a lap.
LEMMA PositionStep ==
  ASSUME NEW w \in Nat, NEW r \in 1 .. L, r # 1
  PROVE  Position(w, r - 1) = Position(w, r) + 1
<1>1. w * L \in Nat
  OBVIOUS
<1> QED BY <1>1 DEF Position

\* The store that fills the last slot reloads the count and returns the position to the start.
LEMMA PositionReload ==
  ASSUME NEW w \in Nat PROVE Position(w + 1, L) = Position(w, 1) + 1
<1>1. w * L \in Nat /\ (w + 1) * L = w * L + L
  OBVIOUS
<1> QED BY <1>1 DEF Position

\* Any position of a lap comes before every position of the next.
LEMMA PositionNextLap ==
  ASSUME NEW w \in Nat, NEW r \in 1 .. L, NEW s \in 1 .. L
  PROVE  Position(w, r) <= Position(w + 1, s)
<1>1. w * L \in Nat /\ (w + 1) * L = w * L + L
  OBVIOUS
<1> QED BY <1>1 DEF Position

------------------------------------------------------------------------------
\* The freshly armed receiver (RingBufferedRx::new) satisfies the inductive invariant.
LEMMA InitIInv == Init => IInv
<1> SUFFICES ASSUME Init PROVE IInv
  OBVIOUS
<1>1. TypeOK
  <2>1. L \in 1 .. L /\ 0 \in Nat
    OBVIOUS
  <2>2. buf \in [0 .. L - 1 -> Nat]
    BY DEF Init
  <2>3. snap \in [w1 : Nat, remA : 1 .. L, ftf : BOOLEAN, remB : 1 .. L]
    BY <2>1 DEF Init, NoSnap
  <2>4. intf \in [ftf : BOOLEAN, htf : BOOLEAN] /\ out \in Seq(Nat)
    BY DEF Init, NoFlags
  <2> QED BY <2>1, <2>2, <2>3, <2>4 DEF Init, TypeOK
<1>2. LapInv
  BY DEF Init, LapInv, Laps, Position
<1>3. SnapInv /\ CallInv /\ ReadyInv
  BY DEF Init, SnapInv, CallInv, ReadyInv
<1> QED BY <1>1, <1>2, <1>3 DEF IInv

\* A byte stored by the engine, at any point of a reader's call, keeps the invariant.
LEMMA DmaStoreStep == ASSUME IInv, DmaStore PROVE IInv'
<1>1. TypeOK'
  BY DEF IInv, TypeOK, DmaStore, flagVars, isrVars, mainVars, callVars
<1>2. LapInv' /\ SnapInv' /\ CallInv' /\ ReadyInv'
  BY DEF IInv, LapInv, SnapInv, CallInv, ReadyInv, Laps, Counted, LapSeen, ToCopy,
         DmaStore, flagVars, isrVars, mainVars, callVars
<1> QED BY <1>1, <1>2 DEF IInv

\* The only step that moves the channel: one position further, into the next
\* lap when the flag goes up.
LEMMA DmaCountStep == ASSUME IInv, DmaCount PROVE IInv'
<1> USE DEF IInv
<1>1. TypeOK'
  BY DEF TypeOK, DmaCount, isrVars, mainVars, callVars
<1>2. /\ written' = written + 1 /\ (ftf => ftf')
      /\ UNCHANGED << isrVars, lineErr, mainVars >>
  BY DEF DmaCount
<1>3. LapInv'
  <2>1. CASE cnt = 1
    <3>1. ~ ftf /\ ftf' /\ cnt' = L
      BY <2>1 DEF DmaCount, IsrWithinLap
    <3>2. ~ Counted /\ ~ Counted' /\ ~ (isr # "idle" /\ intf.ftf)
      BY <1>2, <3>1 DEF LapInv, Counted, isrVars
    <3>3. Laps = wraps /\ Laps' = wraps + 1
      BY <1>2, <3>1, <3>2 DEF Laps, isrVars
    <3>4. written + 1 = Position(wraps + 1, L)
      BY <2>1, <3>3, PositionReload DEF LapInv, TypeOK
    <3> QED BY <1>2, <3>1, <3>2, <3>3, <3>4 DEF LapInv, isrVars
  <2>2. CASE cnt # 1
    <3>1. cnt' = cnt - 1 /\ ftf' = ftf
      BY <2>2 DEF DmaCount, TypeOK
    <3>2. Laps' = Laps /\ Laps \in Nat
      BY <1>2, <3>1 DEF Laps, Counted, isrVars, TypeOK
    <3>3. written + 1 = Position(Laps, cnt - 1)
      BY <2>2, <3>2, PositionStep DEF LapInv, TypeOK
    <3> QED BY <1>2, <3>1, <3>2, <3>3 DEF LapInv, isrVars
  <2> QED BY <2>1, <2>2
<1>4. SnapInv'
  <2>1. Position(LapSeen, snap.remB) \in Nat
    <3>1. LapSeen \in Nat /\ snap.remB \in 1 .. L
      BY DEF TypeOK, LapSeen
    <3> QED BY <3>1, PositionType
  <2> QED BY <1>2, <2>1 DEF SnapInv, Counted, LapSeen, TypeOK, isrVars, mainVars, callVars
<1>5. CallInv' /\ ReadyInv'
  BY <1>2 DEF CallInv, ReadyInv, ToCopy, TypeOK, mainVars, callVars
<1> QED BY <1>1, <1>3, <1>4, <1>5

\* Recording a line error touches nothing the invariant relates.
LEMMA LineErrorStep == ASSUME IInv, LineError PROVE IInv'
<1>1. TypeOK'
  BY DEF IInv, TypeOK, LineError, dmaVars, flagVars, isrVars, mainVars, callVars
<1>2. LapInv' /\ SnapInv' /\ CallInv' /\ ReadyInv'
  BY DEF IInv, LapInv, SnapInv, CallInv, ReadyInv, Laps, Counted, LapSeen, ToCopy,
         LineError, dmaVars, flagVars, isrVars, mainVars, callVars
<1> QED BY <1>1, <1>2 DEF IInv

\* Entering service_dma_rx changes only which handler runs.
LEMMA IsrEnterStep == ASSUME IInv, IsrEnter PROVE IInv'
<1>1. TypeOK'
  BY DEF IInv, TypeOK, IsrEnter, dmaVars, flagVars, mainVars, callVars
<1>2. LapInv' /\ SnapInv' /\ CallInv' /\ ReadyInv'
  BY DEF IInv, LapInv, SnapInv, CallInv, ReadyInv, Laps, Counted, LapSeen, ToCopy,
         IsrEnter, dmaVars, flagVars, mainVars, callVars
<1> QED BY <1>1, <1>2 DEF IInv

\* Counting the lap the flag announces leaves the laps made as they are, and
\* takes the counter past what a snapshot in progress has loaded.
LEMMA IsrCountStep == ASSUME IInv, IsrCount PROVE IInv'
<1> USE DEF IInv
<1>1. TypeOK'
  BY DEF TypeOK, IsrCount, dmaVars, flagVars, mainVars, callVars
<1>2. Laps' = Laps
  BY DEF Laps, Counted, LapInv, IsrCount, dmaVars, flagVars, TypeOK
<1>3. LapInv'
  BY <1>2 DEF LapInv, IsrCount, dmaVars, flagVars
<1>4. SnapInv'
  BY DEF SnapInv, Counted, LapSeen, TypeOK, IsrCount, dmaVars, flagVars, mainVars, callVars
<1>5. CallInv' /\ ReadyInv'
  BY DEF CallInv, ReadyInv, ToCopy, IsrCount, dmaVars, mainVars, callVars
<1> QED BY <1>1, <1>3, <1>4, <1>5

\* Clearing the channel's flags after the lap was counted keeps laps and flag in step.
LEMMA IsrClearStep == ASSUME IInv, IsrClear PROVE IInv'
<1> USE DEF IInv
<1>1. TypeOK'
  BY DEF TypeOK, IsrClear, NoFlags, dmaVars, mainVars, callVars
<1>2. Laps' = Laps
  BY DEF Laps, Counted, LapInv, IsrClear, dmaVars, TypeOK
<1>3. LapInv'
  BY <1>2 DEF LapInv, IsrClear, dmaVars
<1>4. SnapInv'
  BY DEF SnapInv, Counted, LapSeen, TypeOK, IsrClear, dmaVars, mainVars, callVars
<1>5. CallInv' /\ ReadyInv'
  BY DEF CallInv, ReadyInv, ToCopy, IsrClear, dmaVars, mainVars, callVars
<1> QED BY <1>1, <1>3, <1>4, <1>5

\* A call begins where the channel is; what ready promised still stands.
LEMMA CallSteps ==
  ASSUME IInv, ReadyCall \/ ReadyAtOnce \/ \E k \in ReadSizes : ReadCall(k)
  PROVE  IInv'
<1> USE DEF IInv
<1>1. CASE ReadyCall
  <2>1. TypeOK'
    BY <1>1 DEF TypeOK, ReadyCall, BeginCall, dmaVars, flagVars, isrVars
  <2>2. LapInv' /\ SnapInv' /\ CallInv' /\ ReadyInv'
    BY <1>1 DEF TypeOK, LapInv, SnapInv, CallInv, ReadyInv, Laps, Counted, ReadyCall,
                BeginCall, MainAt, dmaVars, flagVars, isrVars
  <2> QED BY <2>1, <2>2
<1>2. CASE ReadyAtOnce
  <2>1. TypeOK'
    BY <1>2 DEF TypeOK, ReadyAtOnce, dmaVars, flagVars, isrVars
  <2>2. LapInv' /\ SnapInv' /\ CallInv' /\ ReadyInv'
    BY <1>2 DEF TypeOK, LapInv, SnapInv, CallInv, ReadyInv, Laps, Counted, ReadyAtOnce,
                MainAt, dmaVars, flagVars, isrVars
  <2> QED BY <2>1, <2>2
<1>3. ASSUME NEW k \in ReadSizes, ReadCall(k) PROVE IInv'
  <2>1. TypeOK'
    <3>1. k \in Nat /\ promised' \in BOOLEAN /\ op' \in {"read", "heal", "ready"}
      BY <1>3 DEF ReadCall, BeginCall
    <3>2. want' \in Nat /\ out' \in Seq(Nat) /\ outcome' = "none" /\ startPos' = written
          /\ lineErr' = FALSE /\ rd' = "w1"
          /\ UNCHANGED << dmaVars, flagVars, isrVars, cursor, seen, snap >>
      BY <1>3, <3>1 DEF ReadCall, BeginCall
    <3> HIDE ReadSizesAssumption
    <3> QED BY <3>1, <3>2 DEF TypeOK, dmaVars, flagVars, isrVars
  <2>2. LapInv' /\ SnapInv' /\ CallInv' /\ ReadyInv'
    BY <1>3 DEF TypeOK, LapInv, SnapInv, CallInv, ReadyInv, Laps, Counted, ReadCall,
                BeginCall, MainAt, dmaVars, flagVars, isrVars
  <2> QED BY <2>1, <2>2
<1> QED BY <1>1, <1>2, <1>3

\* A load is taken outside the interrupt: the laps made are the laps counted,
\* and one more exactly when the flag is up.
LEMMA AtLoad ==
  ASSUME IInv, isr = "idle"
  PROVE  /\ ~ Counted
         /\ ftf => written = Position(wraps + 1, cnt)
         /\ ~ ftf => written = Position(wraps, cnt)
  BY DEF IInv, LapInv, Laps, Counted

\* Each of the reader's register reads records a value that the invariant bounds by the engine's.
LEMMA SnapshotSteps == ASSUME IInv, Snapshot PROVE IInv'
<1> USE DEF IInv
<1>1. /\ UNCHANGED Loc /\ isr = "idle" /\ rd' # "idle" /\ rd # "idle" /\ rd' # "copy"
      /\ rd # "copy"
  BY DEF Snapshot, SnapWraps1, SnapRemA, SnapFtf, SnapRemB, SnapDone, SnapRetry, MainAt
<1>2. LapInv'
  BY <1>1 DEF LapInv, Laps, Counted, Loc, dmaVars, flagVars, isrVars
<1>3. ReadyInv'
  BY <1>1 DEF ReadyInv, Loc, dmaVars, callVars
<1>4. ~ Counted'
  BY <1>1 DEF Counted, Loc, isrVars
<1>5. CASE SnapWraps1
  <2>1. TypeOK'
    BY <1>1, <1>5 DEF TypeOK, SnapWraps1, Loc, dmaVars, flagVars, isrVars, callVars
  <2>2. SnapInv' /\ CallInv'
    BY <1>1, <1>4, <1>5 DEF SnapInv, CallInv, TypeOK, SnapWraps1, MainAt, Loc,
                            dmaVars, flagVars, isrVars, callVars
  <2> QED BY <1>2, <1>3, <2>1, <2>2
<1>6. CASE SnapRemA
  <2>1. TypeOK'
    BY <1>1, <1>6 DEF TypeOK, SnapRemA, Loc, dmaVars, flagVars, isrVars, callVars
  <2>2. snap'.w1 = snap.w1 /\ snap'.remA = cnt /\ rd = "remA" /\ rd' = "ftf"
    BY <1>6 DEF SnapRemA, MainAt, TypeOK
  <2>3. ftf \/ written = Position(wraps, cnt)
    BY <1>1, AtLoad
  <2>4. SnapInv'
    BY <1>1, <1>4, <2>2, <2>3 DEF SnapInv, CallInv, Loc, dmaVars, flagVars, isrVars, callVars
  <2>5. CallInv'
    BY <1>1, <2>2 DEF CallInv, Loc, dmaVars, callVars
  <2> QED BY <1>2, <1>3, <2>1, <2>4, <2>5
<1>7. CASE SnapFtf
  <2>1. TypeOK'
    BY <1>1, <1>7 DEF TypeOK, SnapFtf, Loc, dmaVars, flagVars, isrVars, callVars
  <2>2. snap'.w1 = snap.w1 /\ snap'.remA = snap.remA /\ snap'.ftf = ftf
        /\ rd = "ftf" /\ rd' = "remB"
    BY <1>7 DEF SnapFtf, MainAt, TypeOK
  <2>3. SnapInv'
    BY <1>1, <1>4, <2>2 DEF SnapInv, Loc, dmaVars, flagVars, isrVars, callVars
  <2>4. CallInv'
    BY <1>1, <2>2 DEF CallInv, Loc, dmaVars, callVars
  <2> QED BY <1>2, <1>3, <2>1, <2>3, <2>4
<1>8. CASE SnapRemB
  <2>1. TypeOK'
    BY <1>1, <1>8 DEF TypeOK, SnapRemB, Loc, dmaVars, flagVars, isrVars, callVars
  <2>2. snap'.w1 = snap.w1 /\ snap'.remA = snap.remA /\ snap'.ftf = snap.ftf
        /\ snap'.remB = cnt /\ rd = "remB" /\ rd' = "w2"
    BY <1>8 DEF SnapRemB, MainAt, TypeOK
  <2>3. ASSUME snap.w1 = wraps
        PROVE  /\ Position(LapSeen', cnt) <= written
               /\ snap.ftf => startPos <= Position(LapSeen', cnt)
    <3>1. CASE snap.ftf
      <4>1. LapSeen' = wraps + 1 /\ ftf
        BY <2>2, <2>3, <3>1 DEF LapSeen, SnapInv
      <4>2. written = Position(wraps + 1, cnt)
        BY <1>1, <4>1, AtLoad
      <4> QED BY <4>1, <4>2 DEF CallInv, TypeOK
    <3>2. CASE ~ snap.ftf
      <4>1. LapSeen' = wraps
        BY <2>2, <2>3, <3>2 DEF LapSeen
      <4>2. Position(wraps, cnt) <= written
        <5>1. CASE ftf
          <6>1. Position(wraps, cnt) <= Position(wraps + 1, cnt)
            BY PositionNextLap DEF TypeOK
          <6> QED BY <1>1, <5>1, <6>1, AtLoad
        <5>2. CASE ~ ftf
          BY <1>1, <5>2, AtLoad DEF TypeOK
        <5> QED BY <5>1, <5>2
      <4> QED BY <3>2, <4>1, <4>2
    <3> QED BY <3>1, <3>2
  <2>4. SnapInv'
    BY <1>1, <1>4, <2>2, <2>3 DEF SnapInv, Loc, dmaVars, flagVars, isrVars, callVars
  <2>5. CallInv'
    BY <1>1, <2>2 DEF CallInv, Loc, dmaVars, callVars
  <2> QED BY <1>2, <1>3, <2>1, <2>4, <2>5
<1>9. CASE SnapDone
  <2>1. LapSeen \in Nat /\ snap.remA \in 1 .. L /\ snap.remB \in 1 .. L
        /\ snap.w1 \in Nat /\ snap.ftf \in BOOLEAN
    BY DEF TypeOK, LapSeen
  <2>2. seen' = Position(LapSeen, snap.remB) /\ rd = "w2" /\ rd' = "decide"
        /\ snap' = NoSnap /\ snap.w1 = wraps /\ (snap.ftf \/ snap.remB <= snap.remA)
    BY <1>9 DEF SnapDone, MainAt, Consistent
  <2>3. seen' \in Nat
    BY <2>1, <2>2, PositionType
  <2>4. TypeOK'
    BY <1>1, <2>2, <2>3 DEF TypeOK, NoSnap, Loc, dmaVars, flagVars, isrVars, callVars
  <2>5. seen' <= written
    BY <2>2 DEF SnapInv
  <2>6. startPos <= seen'
    <3>1. CASE snap.ftf
      BY <2>2, <3>1 DEF SnapInv
    <3>2. CASE ~ snap.ftf
      <4>1. startPos <= Position(snap.w1, snap.remA)
        BY <2>2, <3>2 DEF SnapInv
      <4>2. Position(snap.w1, snap.remA) <= seen'
        BY <2>1, <2>2, <3>2, PositionDown DEF LapSeen
      <4>3. Position(snap.w1, snap.remA) \in Nat
        BY <2>1, PositionType
      <4> QED BY <2>3, <4>1, <4>2, <4>3 DEF TypeOK
    <3> QED BY <3>1, <3>2
  <2>7. SnapInv' /\ CallInv'
    BY <1>1, <2>2, <2>5, <2>6 DEF SnapInv, CallInv, Loc, dmaVars, callVars
  <2> QED BY <1>2, <1>3, <2>4, <2>7
<1>10. CASE SnapRetry
  <2>1. TypeOK'
    BY <1>1, <1>10 DEF TypeOK, SnapRetry, NoSnap, Loc, dmaVars, flagVars, isrVars, callVars
  <2>2. SnapInv' /\ CallInv'
    BY <1>1, <1>10 DEF SnapInv, CallInv, SnapRetry, Loc, dmaVars, callVars
  <2> QED BY <1>2, <1>3, <2>1, <2>2
<1> QED BY <1>5, <1>6, <1>7, <1>8, <1>9, <1>10 DEF Snapshot

\* A call ends with the cursor no further than what its snapshot reported.
LEMMA ReadSteps == ASSUME IInv, Read \/ ReadyReturn PROVE IInv'
<1> USE DEF IInv
<1>1. CASE Heal
  <2>1. cursor' = seen /\ outcome' = "LineError" /\ rd = "decide"
        /\ rd' = "idle" /\ seen' = 0 /\ out' = << >> /\ want' = 0
        /\ UNCHANGED << dmaVars, flagVars, isrVars, lineErr, snap, op, startPos, promised >>
    BY <1>1 DEF Heal, Return, MainAt
  <2>2. TypeOK'
    BY <2>1 DEF TypeOK, dmaVars, flagVars, isrVars
  <2>3. LapInv' /\ SnapInv' /\ CallInv' /\ ReadyInv'
    BY <2>1 DEF LapInv, SnapInv, CallInv, ReadyInv, Laps, Counted, dmaVars, flagVars, isrVars
  <2> QED BY <2>2, <2>3
<1>2. CASE Overrun
  <2>1. cursor' = seen /\ outcome' = "RingOverrun" /\ rd = "decide"
        /\ rd' = "idle" /\ seen' = 0 /\ out' = << >> /\ want' = 0
        /\ UNCHANGED << dmaVars, flagVars, isrVars, lineErr, snap, op, startPos, promised >>
    BY <1>2 DEF Overrun, Return, MainAt
  <2>2. TypeOK'
    BY <2>1 DEF TypeOK, dmaVars, flagVars, isrVars
  <2>3. LapInv' /\ SnapInv' /\ CallInv' /\ ReadyInv'
    BY <2>1 DEF LapInv, SnapInv, CallInv, ReadyInv, Laps, Counted, dmaVars, flagVars, isrVars
  <2> QED BY <2>2, <2>3
<1>3. CASE CopyBegin
  <2>1. rd = "decide" /\ rd' = "copy" /\ op = "read" /\ ~ Lapped
        /\ UNCHANGED << Loc, seen, snap >>
    BY <1>3 DEF CopyBegin, MainAt
  <2>2. TypeOK'
    BY <2>1 DEF TypeOK, Loc, dmaVars, flagVars, isrVars, callVars
  <2>3. LapInv' /\ SnapInv' /\ ReadyInv'
    BY <2>1 DEF LapInv, SnapInv, ReadyInv, Laps, Counted, Loc,
                dmaVars, flagVars, isrVars, callVars
  <2>4. CallInv'
    BY <2>1 DEF CallInv, TypeOK, Lapped, ToCopy, Min2, Loc, dmaVars, callVars
  <2> QED BY <2>2, <2>3, <2>4
<1>4. CASE CopyByte
  <2>1. rd = "copy" /\ Len(out) < ToCopy
        /\ out' = Append(out, buf[(cursor + Len(out)) % L])
        /\ UNCHANGED << dmaVars, flagVars, isrVars, lineErr, cursor, rd, seen, snap,
                        op, want, outcome, startPos, promised >>
    BY <1>4 DEF CopyByte, MainAt
  <2>2. out' \in Seq(Nat) /\ Len(out') = Len(out) + 1
    <3>1. Len(out) \in Nat /\ (cursor + Len(out)) % L \in 0 .. L - 1
      BY DEF TypeOK
    <3> QED BY <2>1, <3>1 DEF TypeOK
  <2>3. TypeOK'
    BY <2>1, <2>2 DEF TypeOK, dmaVars, flagVars, isrVars
  <2>4. LapInv' /\ SnapInv' /\ ReadyInv'
    BY <2>1 DEF LapInv, SnapInv, ReadyInv, Laps, Counted, dmaVars, flagVars, isrVars
  <2>5. CallInv'
    BY <2>1, <2>2 DEF CallInv, TypeOK, ToCopy, Min2, dmaVars
  <2> QED BY <2>3, <2>4, <2>5
<1>5. CASE CopyEnd
  <2>1. rd = "copy" /\ Len(out) = ToCopy /\ cursor' = cursor + Len(out)
        /\ outcome' = (IF out = << >> THEN "Empty" ELSE "Ok")
        /\ rd' = "idle" /\ seen' = 0 /\ out' = << >> /\ want' = 0
        /\ UNCHANGED << dmaVars, flagVars, isrVars, lineErr, snap, op, startPos, promised >>
    BY <1>5 DEF CopyEnd, Return, MainAt
  <2>2. cursor + Len(out) <= seen /\ cursor + Len(out) \in Nat
    BY <2>1 DEF CallInv, TypeOK, ToCopy, Min2
  <2>3. TypeOK'
    BY <2>1, <2>2 DEF TypeOK, dmaVars, flagVars, isrVars
  <2>4. promised => out # << >>
    <3>1. promised => ToCopy > 0
      BY <2>1 DEF ReadyInv, CallInv, TypeOK, ToCopy, Min2
    <3> QED BY <2>1, <3>1 DEF TypeOK
  <2>5. LapInv' /\ SnapInv' /\ CallInv' /\ ReadyInv'
    BY <2>1, <2>2, <2>4 DEF LapInv, SnapInv, CallInv, ReadyInv, Laps, Counted, TypeOK,
                            dmaVars, flagVars, isrVars
  <2> QED BY <2>3, <2>5
<1>6. CASE ReadyReturn
  <2>1. rd = "decide" /\ outcome' = (IF seen > cursor THEN "ready" ELSE "notReady")
        /\ op = "ready" /\ rd' = "idle" /\ seen' = 0 /\ out' = << >> /\ want' = 0
        /\ UNCHANGED << dmaVars, flagVars, isrVars, lineErr, cursor, snap, op, startPos,
                        promised >>
    BY <1>6 DEF ReadyReturn, Return, MainAt
  <2>2. TypeOK'
    BY <2>1 DEF TypeOK, dmaVars, flagVars, isrVars
  <2>3. LapInv' /\ SnapInv' /\ CallInv' /\ ReadyInv'
    BY <2>1 DEF LapInv, SnapInv, CallInv, ReadyInv, Laps, Counted, TypeOK,
                dmaVars, flagVars, isrVars
  <2> QED BY <2>2, <2>3
<1> QED BY <1>1, <1>2, <1>3, <1>4, <1>5, <1>6 DEF Read

\* Every step of the specification keeps the inductive invariant.
LEMMA NextIInv == IInv /\ [Next]_vars => IInv'
<1> SUFFICES ASSUME IInv, [Next]_vars PROVE IInv'
  OBVIOUS
<1>1. CASE UNCHANGED vars
  BY <1>1 DEF vars, mainVars, callVars, dmaVars, flagVars, isrVars, IInv, TypeOK, LapInv,
              SnapInv, CallInv, ReadyInv, Laps, Counted, LapSeen, ToCopy
<1>2. CASE Isr
  BY <1>2, IsrEnterStep, IsrCountStep, IsrClearStep DEF Isr
<1>3. CASE InCall
  BY <1>3, SnapshotSteps, ReadSteps DEF InCall
<1> QED BY <1>1, <1>2, <1>3, DmaStoreStep, DmaCountStep, LineErrorStep, CallSteps DEF Next

\* The inductive invariant holds in every reachable state.
LEMMA IInvAlways == Spec => []IInv
  BY InitIInv, NextIInv, PTL DEF Spec
------------------------------------------------------------------------------
\* The receiver's state keeps its types.
THEOREM TypeCorrect == Spec => []TypeOK
<1>1. IInv => TypeOK
  BY DEF IInv
<1> QED BY <1>1, IInvAlways, PTL

\* RingBufferedRx::snapshot reports a position the channel had during the call.
THEOREM SnapshotIsExact == Spec => []SnapshotExact
<1>1. IInv => SnapshotExact
  BY DEF IInv, CallInv, SnapshotExact
<1> QED BY <1>1, IInvAlways, PTL

\* RingBufferedRx::read: write_total - cursor does not underflow.
THEOREM CursorStaysBehind == Spec => []CursorBehind
<1>1. IInv => CursorBehind
  BY DEF IInv, TypeOK, CallInv, CursorBehind
<1> QED BY <1>1, IInvAlways, PTL

\* RingBufferedRx::ready and the read that follows it agree.
THEOREM ReadyIsHonest == Spec => []ReadyHonest
<1>1. IInv => ReadyHonest
  BY DEF IInv, ReadyInv, ReadyHonest
<1> QED BY <1>1, IInvAlways, PTL

\* RingBufferedRx::read returns RingOverrun for a real lap, and for every one
\* that had happened when it was called.
THEOREM OverrunIsExact == Spec => OverrunExact
<1>1. ASSUME IInv, [Next]_vars, rd = "decide", op = "read", rd' # rd
      PROVE  /\ rd' = "idle" => written - cursor > L
             /\ startPos - cursor > L => rd' = "idle"
  <2>1. Overrun \/ CopyBegin
    BY <1>1 DEF Next, Isr, InCall, Snapshot, Read, vars, mainVars, callVars, MainAt, DmaStore,
      DmaCount, LineError, IsrEnter, IsrCount, IsrClear, SnapWraps1, SnapRemA, SnapFtf,
      SnapRemB, SnapDone, SnapRetry, Heal, CopyByte, CopyEnd, ReadyReturn, ReadyCall,
      ReadyAtOnce, ReadCall, Loc
  <2>2. CASE Overrun
    BY <1>1, <2>2 DEF Overrun, Return, Lapped, IInv, TypeOK, CallInv
  <2>3. CASE CopyBegin
    BY <1>1, <2>3 DEF CopyBegin, Lapped, IInv, TypeOK, CallInv
  <2> QED BY <2>1, <2>2, <2>3
<1> QED BY <1>1, IInvAlways, PTL DEF Spec, OverrunExact

------------------------------------------------------------------------------
(* The bytes.  Slot by slot, the buffer holds the character of this lap up  *)
(* to the engine's position and of the lap before from there on; the slot   *)
(* at the position is the one the engine may have stored and not counted.   *)
BufInv ==
  \A i \in 0 .. L - 1 :
    /\ i < L - cnt \/ (i = L - cnt /\ dma = "count") => buf[i] = Laps * L + i + 1
    /\ (i > L - cnt \/ (i = L - cnt /\ dma = "idle")) /\ Laps > 0 =>
         buf[i] = Laps * L - L + i + 1

\* The laps of the ring are a count.
LEMMA LapsType == ASSUME IInv PROVE Laps \in Nat
  BY DEF IInv, TypeOK, Laps

\* Only the engine's countdown makes a lap.
LEMMA LapsSteady == ASSUME IInv, [Next]_vars, ~ DmaCount PROVE Laps' = Laps
<1>1. CASE UNCHANGED << flagVars, isrVars >>
  BY <1>1 DEF Laps, Counted, flagVars, isrVars
<1>2. CASE IsrEnter
  BY <1>2 DEF Laps, Counted, IsrEnter, flagVars
<1>3. CASE IsrCount
  BY <1>3 DEF IInv, TypeOK, LapInv, Laps, Counted, IsrCount, flagVars
<1>4. CASE IsrClear
  BY <1>4 DEF IInv, TypeOK, LapInv, Laps, Counted, IsrClear
<1>5. [Next]_vars /\ ~ DmaCount /\ ~ IsrEnter /\ ~ IsrCount /\ ~ IsrClear
        => UNCHANGED << flagVars, isrVars >>
  BY DEF Next, Isr, InCall, Snapshot, Read, vars, DmaStore, LineError, SnapWraps1, SnapRemA,
     SnapFtf, SnapRemB, SnapDone, SnapRetry, Heal, Overrun, CopyBegin, CopyByte, CopyEnd,
     ReadyReturn, Return, ReadyCall, ReadyAtOnce, ReadCall, Loc
<1> QED BY <1>1, <1>2, <1>3, <1>4, <1>5

\* The countdown: the slot just stored becomes the last of the bytes behind the
\* position, and at the end of a lap the whole buffer is of the lap before.
LEMMA DmaCountBuf == ASSUME IInv, BufInv, DmaCount PROVE BufInv'
<1> DEFINE made == Laps * L
<1>1. cnt \in 1 .. L /\ Laps \in Nat /\ made \in Nat
  BY LapsType DEF IInv, TypeOK
<1>2. dma = "count" /\ dma' = "idle" /\ buf' = buf /\ UNCHANGED isrVars
      /\ cnt' = (IF cnt = 1 THEN L ELSE cnt - 1) /\ ~ (cnt = 1 /\ ftf)
      /\ (ftf' <=> (ftf \/ cnt = 1))
  BY DEF DmaCount, IsrWithinLap
<1>3. SUFFICES ASSUME NEW i \in 0 .. L - 1
               PROVE  /\ i < L - cnt' => buf[i] = Laps' * L + i + 1
                      /\ i >= L - cnt' /\ Laps' > 0 => buf[i] = Laps' * L - L + i + 1
  <2>1. cnt' \in 1 .. L
    BY <1>1, <1>2
  <2> QED BY <1>2, <2>1 DEF BufInv
<1>4. CASE cnt = 1
  <2>1. Laps' = Laps + 1 /\ cnt' = L
    <3>1. ~ ftf /\ ftf'
      BY <1>2, <1>4
    <3>2. ~ Counted' /\ wraps' = wraps
      BY <1>2, <3>1 DEF IInv, LapInv, Counted, isrVars
    <3> QED BY <1>2, <1>4, <3>1, <3>2 DEF Laps
  <2>2. Laps' * L = made + L
    BY <1>1, <2>1
  <2>3. buf[i] = made + i + 1
    BY <1>1, <1>2, <1>4 DEF BufInv
  <2> HIDE DEF made
  <2> QED BY <1>1, <2>1, <2>2, <2>3
<1>5. CASE cnt # 1
  <2>1. Laps' = Laps /\ cnt' = cnt - 1
    BY <1>2, <1>5 DEF Laps, Counted, isrVars, IInv, TypeOK
  <2>2. i <= L - cnt => buf[i] = made + i + 1
    BY <1>1, <1>2 DEF BufInv
  <2>3. i > L - cnt /\ Laps > 0 => buf[i] = made - L + i + 1
    BY <1>1, <1>2 DEF BufInv
  <2>4. Laps' * L = made
    BY <2>1
  <2> HIDE DEF made
  <2> QED BY <1>1, <2>1, <2>2, <2>3, <2>4
<1> QED BY <1>4, <1>5

\* The store: the next character of the stream, at the position.
LEMMA DmaStoreBuf == ASSUME IInv, BufInv, DmaStore PROVE BufInv'
<1> DEFINE made == Laps * L
<1>1. cnt \in 1 .. L /\ Laps \in Nat /\ made \in Nat /\ buf \in [0 .. L - 1 -> Nat]
  BY LapsType DEF IInv, TypeOK
<1>2. Laps' = Laps /\ cnt' = cnt /\ dma = "idle" /\ dma' = "count"
      /\ buf' = [buf EXCEPT ![L - cnt] = written + 1]
  BY DEF DmaStore, Laps, Counted, flagVars, isrVars
<1>3. written = made + (L - cnt)
  BY DEF IInv, LapInv, Position
<1>4. SUFFICES ASSUME NEW i \in 0 .. L - 1
               PROVE  /\ i <= L - cnt => buf'[i] = made + i + 1
                      /\ i > L - cnt /\ Laps > 0 => buf'[i] = made - L + i + 1
  BY <1>1, <1>2 DEF BufInv
<1>5. CASE i = L - cnt
  <2>1. buf'[i] = written + 1
    BY <1>1, <1>2, <1>5
  <2> HIDE DEF made
  <2> QED BY <1>1, <1>3, <1>5, <2>1
<1>6. CASE i # L - cnt
  <2>1. buf'[i] = buf[i]
    BY <1>1, <1>2, <1>6
  <2>2. /\ i < L - cnt => buf[i] = made + i + 1
        /\ i > L - cnt /\ Laps > 0 => buf[i] = made - L + i + 1
    BY DEF BufInv
  <2> HIDE DEF made
  <2> QED BY <1>1, <1>6, <2>1, <2>2
<1> QED BY <1>5, <1>6

\* No step leaves what the invariant says of the buffer.
LEMMA NextBuf == IInv /\ BufInv /\ [Next]_vars => BufInv'
<1> SUFFICES ASSUME IInv, BufInv, [Next]_vars PROVE BufInv'
  OBVIOUS
<1>1. CASE DmaStore
  BY <1>1, DmaStoreBuf
<1>2. CASE DmaCount
  BY <1>2, DmaCountBuf
<1>3. CASE ~ DmaStore /\ ~ DmaCount
  <2>1. UNCHANGED << buf, cnt, dma >>
    BY <1>3 DEF Next, Isr, InCall, Snapshot, Read, vars, dmaVars, LineError, IsrEnter, IsrCount,
       IsrClear, SnapWraps1, SnapRemA, SnapFtf, SnapRemB, SnapDone, SnapRetry, Heal, Overrun,
       CopyBegin, CopyByte, CopyEnd, ReadyReturn, Return, ReadyCall, ReadyAtOnce, ReadCall, Loc
  <2>2. Laps' = Laps
    BY <1>3, LapsSteady
  <2> QED BY <2>1, <2>2 DEF BufInv
<1> QED BY <1>1, <1>2, <1>3

\* The buffer is empty at first.
LEMMA InitBuf == Init => BufInv
  BY DEF Init, BufInv, Laps

\* A character already counted, at the slot the copy loop takes it from, is
\* still there unless the engine is a whole lap further.
LEMMA ByteThere ==
  ASSUME IInv, BufInv, NEW q \in Nat, q < written
  PROVE  buf[q % L] = q + 1 \/ written + 1 >= q + 1 + L
<1> DEFINE d == q \div L
           r == q % L
           turned == d * L
           made == Laps * L
<1>1. L \in Nat \ {0} /\ d \in Nat /\ r \in 0 .. L - 1 /\ q = L * d + r
  OBVIOUS
<1>2. Laps \in Nat /\ cnt \in 1 .. L
  BY LapsType DEF IInv, TypeOK
<1>3. written = made + (L - cnt)
  BY DEF IInv, LapInv, Position
<1>4. /\ r < L - cnt \/ (r = L - cnt /\ dma = "count") => buf[r] = made + r + 1
      /\ (r > L - cnt \/ (r = L - cnt /\ dma = "idle")) /\ Laps > 0 => buf[r] = made - L + r + 1
  BY <1>1 DEF BufInv
<1>5. dma \in {"idle", "count"}
  BY DEF IInv, TypeOK
<1> HIDE DEF d, r
<1>6. turned \in Nat /\ made \in Nat /\ turned = L * d
  BY <1>1, <1>2
<1>7. d = Laps => turned = made
  OBVIOUS
<1>8. d + 1 = Laps => turned + L = made
  BY <1>1, <1>2
<1>9. d + 2 <= Laps => turned + L + L <= made
  <2> SUFFICES ASSUME d + 2 <= Laps PROVE turned + L + L <= made
    OBVIOUS
  <2>1. PICK e \in Nat : Laps = d + 2 + e
    <3>1. Laps - d - 2 \in Nat /\ Laps = d + 2 + (Laps - d - 2)
      BY <1>1, <1>2
    <3> QED BY <3>1
  <2>2. made = d * L + L + L + e * L /\ e * L \in Nat
    BY <1>1, <2>1
  <2> QED BY <1>6, <2>2
<1>10. Laps < d => made + L <= turned
  <2> SUFFICES ASSUME Laps < d PROVE made + L <= turned
    OBVIOUS
  <2>1. PICK e \in Nat : d = Laps + 1 + e
    <3>1. d - Laps - 1 \in Nat /\ d = Laps + 1 + (d - Laps - 1)
      BY <1>1, <1>2
    <3> QED BY <3>1
  <2>2. turned = Laps * L + L + e * L /\ e * L \in Nat
    BY <1>1, <1>2, <2>1
  <2> QED BY <1>6, <2>2
<1> HIDE DEF turned, made
<1>11. d <= Laps
  BY <1>1, <1>2, <1>3, <1>6, <1>10
<1>12. buf[r] = q + 1 \/ written + 1 >= q + 1 + L
  <2>1. CASE d = Laps
    BY <1>1, <1>2, <1>3, <1>4, <1>6, <1>7, <2>1
  <2>2. CASE d + 1 = Laps
    BY <1>1, <1>2, <1>3, <1>4, <1>5, <1>6, <1>8, <2>2
  <2>3. CASE d + 2 <= Laps
    BY <1>1, <1>2, <1>3, <1>6, <1>9, <2>3
  <2> QED BY <1>1, <1>2, <1>11, <2>1, <2>2, <2>3
<1> QED BY <1>12 DEF r

\* The copy loop takes the byte it is owed.
LEMMA NextIntact ==
  IInv /\ BufInv /\ IntactUnlessLapped /\ [Next]_vars => IntactUnlessLapped'
<1> SUFFICES ASSUME IInv, BufInv, IntactUnlessLapped, [Next]_vars,
                    rd' = "copy", NEW i \in 1 .. Len(out')
             PROVE  out'[i] = cursor' + i \/ written' + 1 >= cursor' + i + L
  BY DEF IntactUnlessLapped
<1>1. out \in Seq(Nat) /\ cursor \in Nat /\ written \in Nat /\ L \in Nat
  BY DEF IInv, TypeOK
<1>2. CASE CopyByte
  <2>1. rd = "copy" /\ Len(out) < ToCopy /\ UNCHANGED cursor /\ UNCHANGED written
        /\ out' = Append(out, buf[(cursor + Len(out)) % L])
    BY <1>2 DEF CopyByte, MainAt, dmaVars
  <2>2. Len(out') = Len(out) + 1 /\ Len(out) \in Nat
    BY <1>1, <2>1
  <2>3. CASE i <= Len(out)
    <3>1. out'[i] = out[i]
      BY <1>1, <2>1, <2>3
    <3> QED BY <2>1, <2>3, <3>1 DEF IntactUnlessLapped
  <2>4. CASE i = Len(out) + 1
    <3> DEFINE q == cursor + Len(out)
    <3>1. q \in Nat /\ q < written
      <4>1. seen \in Nat /\ want \in Nat /\ startPos \in Nat
        BY DEF IInv, TypeOK
      <4>2. cursor <= startPos /\ startPos <= seen /\ seen <= written
        BY <2>1 DEF IInv, CallInv
      <4>3. ToCopy <= seen - cursor
        BY <1>1, <4>1 DEF ToCopy, Min2
      <4>4. Len(out) < seen - cursor
        <5>1. ToCopy \in Int
          BY <1>1, <4>1 DEF ToCopy, Min2
        <5> QED BY <1>1, <2>1, <2>2, <4>1, <4>3, <5>1
      <4> QED BY <1>1, <2>2, <4>1, <4>2, <4>4
    <3>2. out'[i] = buf[q % L]
      BY <1>1, <2>1, <2>4
    <3>3. buf[q % L] = q + 1 \/ written + 1 >= q + 1 + L
      BY <3>1, ByteThere
    <3> QED BY <1>1, <2>1, <2>2, <2>4, <3>2, <3>3
  <2> QED BY <2>2, <2>3, <2>4
<1>3. CASE CopyBegin
  <2>1. out' = << >>
    BY <1>3 DEF CopyBegin, MainAt, Loc, callVars, IInv, CallInv
  <2> QED BY <2>1
<1>4. CASE ~ CopyByte /\ ~ CopyBegin
  <2>1. rd = "copy" /\ UNCHANGED << cursor, out >> /\ (written' = written \/ written' = written + 1)
    BY <1>4 DEF Next, Isr, InCall, Snapshot, Read, vars, dmaVars, mainVars, callVars, DmaStore,
       DmaCount, LineError, IsrEnter, IsrCount, IsrClear, SnapWraps1, SnapRemA, SnapFtf, SnapRemB,
       SnapDone, SnapRetry, Heal, Overrun, CopyEnd, ReadyReturn, Return, ReadyCall, BeginCall,
       ReadyAtOnce, ReadCall, Loc, MainAt
  <2>2. out[i] = cursor + i \/ written + 1 >= cursor + i + L
    BY <2>1 DEF IntactUnlessLapped
  <2> QED BY <1>1, <2>1, <2>2
<1> QED BY <1>2, <1>3, <1>4

\* The copy loop of RingBufferedRx::read: every byte copied is the byte owed,
\* unless the engine came a full lap further before the loop reached it.
THEOREM CopiesAreIntact == Spec => []IntactUnlessLapped
<1>1. Init => IntactUnlessLapped
  BY DEF Init, IntactUnlessLapped
<1> QED BY <1>1, InitBuf, NextBuf, NextIntact, IInvAlways, PTL DEF Spec

\* Everything RingBufferedRx promises at every moment, for every buffer length,
\* every slice and any number of characters.
THEOREM DmaRxSafety == Spec => []DmaRxSafe
  BY TypeCorrect, SnapshotIsExact, CursorStaysBehind, CopiesAreIntact, ReadyIsHonest, PTL
     DEF DmaRxSafe

---------------------------------------------------------------------------
(* The receiver from bring-up to release (DmaLap).                        *)

ChanType == [chen : BOOLEAN, cnt : 0..LapLen, ftf : BOOLEAN, htf : BOOLEAN, denr : BOOLEAN]
CtxType == [installed : BOOLEAN, wraps : 0..LapWords - 1, unmasked : BOOLEAN]
AppType == [pc : {"none", "configure", "route", "install", "unmask", "live"},
            cursor : Nat, res : {"none", "Ok", "LineError", "RingOverrun"}]
HistType == [pos : Nat, laps : Nat, bytes : 0..LapBytes, folded : BOOLEAN, stale : BOOLEAN,
             over : BOOLEAN]

Armed == lapApp.pc \in {"route", "install", "unmask", "live"}
Installed == lapApp.pc \in {"unmask", "live"}
Pending == IF lapChan.ftf THEN 1 ELSE 0
Progress == LapLen - lapChan.cnt
OnTime == ~lapHist.folded /\ ~lapHist.stale /\ ~lapHist.over

\* Where the channel is, and what the wrap counter makes of it.
PositionInv == Armed => lapHist.pos = lapHist.laps * LapLen + Progress
CountInv ==
  Installed =>
    /\ ~lapHist.stale => lapCtx.wraps + Pending <= lapHist.laps
    /\ OnTime => lapCtx.wraps + Pending = lapHist.laps

LapIInv ==
  /\ LapTypeOK
  /\ lapChan.chen <=> Armed
  /\ lapChan.chen => lapChan.cnt \in 1 .. LapLen
  /\ PositionInv /\ CountInv
  /\ NeverAhead

------------------------------------------------------------------------------
\* All the arithmetic asks of the buffer's length; the bound of the 16-bit
\* counter is kept out of it, a literal of that size being costly to carry.
LEMMA LapLenPositive == LapLen \in Nat \ {0}
  BY LapLenAssumption, SMTT(60)

\* What the updates of the records leave, and that they stay of their type.
LEMMA CharChan ==
  ASSUME lapChan \in ChanType, lapChan.cnt \in 1 .. LapLen, Char
  PROVE  /\ lapChan' \in ChanType
         /\ lapChan'.chen = lapChan.chen
         /\ lapChan'.cnt = IF lapChan.cnt = 1 THEN LapLen ELSE lapChan.cnt - 1
         /\ lapChan'.ftf <=> (lapChan.ftf \/ lapChan.cnt = 1)
<1> DEFINE n == IF lapChan.cnt = 1 THEN LapLen ELSE lapChan.cnt - 1
           f == lapChan.ftf \/ lapChan.cnt = 1
           h == lapChan.htf \/ lapChan.cnt - 1 = LapLen \div 2
<1>1. lapChan' = [lapChan EXCEPT !.cnt = n, !.ftf = f, !.htf = h]
  BY DEF Char
<1>2. n \in 0 .. LapLen
  BY LapLenPositive
<1>3. f \in BOOLEAN /\ h \in BOOLEAN
  OBVIOUS
<1> HIDE DEF n, f, h
<1>4. lapChan' \in ChanType
  BY <1>1, <1>2, <1>3 DEF ChanType
<1>5. lapChan'.chen = lapChan.chen
  BY <1>1 DEF ChanType
<1>6. lapChan'.cnt = n
  BY <1>1 DEF ChanType
<1>7. lapChan'.ftf = f
  BY <1>1 DEF ChanType
<1> QED BY <1>4, <1>5, <1>6, <1>7 DEF n, f

\* The history a character leaves: one more byte, one more lap at the end of one.
LEMMA CharHist ==
  ASSUME lapHist \in HistType, Char
  PROVE  /\ lapHist' \in HistType
         /\ lapHist'.pos = lapHist.pos + 1
         /\ lapHist'.laps = IF lapChan.cnt = 1 THEN lapHist.laps + 1 ELSE lapHist.laps
         /\ lapHist'.folded <=> (lapHist.folded \/ (lapChan.cnt = 1 /\ lapChan.ftf))
         /\ lapHist'.stale = lapHist.stale /\ lapHist'.over = lapHist.over
<1> DEFINE q == IF lapChan.cnt = 1 THEN lapHist.laps + 1 ELSE lapHist.laps
           f == lapHist.folded \/ (lapChan.cnt = 1 /\ lapChan.ftf)
           p == lapHist.pos + 1
           b == lapHist.bytes + 1
<1>1. lapHist' = [lapHist EXCEPT !.pos = p, !.bytes = b, !.laps = q, !.folded = f]
      /\ lapHist.bytes < LapBytes
  BY DEF Char
<1>2. lapHist.laps \in Nat /\ lapHist.pos \in Nat /\ lapHist.bytes \in 0 .. LapBytes
  BY DEF HistType
<1>3. f \in BOOLEAN
  OBVIOUS
<1>4. q \in Nat /\ p \in Nat /\ b \in 0 .. LapBytes
  BY <1>1, <1>2, LapBytesAssumption
<1> HIDE DEF q, f, p, b
<1>5. lapHist' \in HistType
  BY <1>1, <1>3, <1>4 DEF HistType
<1>6. lapHist'.pos = p
  BY <1>1 DEF HistType
<1>7. lapHist'.laps = q
  BY <1>1 DEF HistType
<1>8. lapHist'.folded = f
  BY <1>1 DEF HistType
<1>9. lapHist'.stale = lapHist.stale
  BY <1>1 DEF HistType
<1>10. lapHist'.over = lapHist.over
  BY <1>1 DEF HistType
<1> QED BY <1>5, <1>6, <1>7, <1>8, <1>9, <1>10 DEF q, f, p

\* The interrupt: one lap counted, the flags down.
LEMMA ServiceRecords ==
  ASSUME lapChan \in ChanType, lapCtx \in CtxType, lapHist \in HistType, ServiceDmaRx
  PROVE  /\ lapChan' \in ChanType /\ lapCtx' \in CtxType /\ lapHist' \in HistType
         /\ lapChan'.chen = lapChan.chen /\ lapChan'.cnt = lapChan.cnt /\ ~lapChan'.ftf
         /\ lapCtx'.wraps = IF lapChan.ftf THEN (lapCtx.wraps + 1) % LapWords ELSE lapCtx.wraps
         /\ lapHist'.pos = lapHist.pos /\ lapHist'.laps = lapHist.laps
         /\ lapHist'.folded = lapHist.folded /\ lapHist'.stale = lapHist.stale
         /\ lapHist'.over <=> (lapHist.over \/ (lapChan.ftf /\ lapCtx.wraps + 1 = LapWords))
<1> DEFINE w == IF lapChan.ftf THEN (lapCtx.wraps + 1) % LapWords ELSE lapCtx.wraps
           o == lapHist.over \/ (lapChan.ftf /\ lapCtx.wraps + 1 = LapWords)
<1>1. lapCtx' = [lapCtx EXCEPT !.wraps = w]
  BY DEF ServiceDmaRx
<1>2. lapChan' = [lapChan EXCEPT !.ftf = FALSE, !.htf = FALSE]
  BY DEF ServiceDmaRx
<1>3. lapHist' = [lapHist EXCEPT !.over = o]
  BY DEF ServiceDmaRx
<1>4. w \in 0 .. LapWords - 1
  <2>1. lapCtx.wraps \in 0 .. LapWords - 1
    BY DEF CtxType
  <2> QED BY <2>1, LapWordsAssumption
<1>5. o \in BOOLEAN
  OBVIOUS
<1> HIDE DEF w, o
<1>6. lapCtx' \in CtxType /\ lapCtx'.wraps = w
  BY <1>1, <1>4 DEF CtxType
<1>7. lapHist' \in HistType
  BY <1>3, <1>5 DEF HistType
<1>8. lapHist'.over = o
  BY <1>3 DEF HistType
<1>9. lapHist'.pos = lapHist.pos /\ lapHist'.laps = lapHist.laps
  BY <1>3 DEF HistType
<1>10. lapHist'.folded = lapHist.folded /\ lapHist'.stale = lapHist.stale
  BY <1>3 DEF HistType
<1>11. lapChan' \in ChanType
  BY <1>2 DEF ChanType
<1>12. lapChan'.chen = lapChan.chen
  BY <1>2 DEF ChanType
<1>13. lapChan'.cnt = lapChan.cnt
  BY <1>2 DEF ChanType
<1>14. lapChan'.ftf = FALSE
  BY <1>2 DEF ChanType
<1> QED BY <1>6, <1>7, <1>8, <1>9, <1>10, <1>11, <1>12, <1>13, <1>14 DEF w, o

\* The steps of new and release.
LEMMA ProbeRecords ==
  ASSUME lapChan \in ChanType, lapApp \in AppType, NewProbe
  PROVE  /\ lapChan' \in ChanType /\ lapApp' \in AppType
         /\ ~lapChan'.chen /\ lapApp'.pc \in {"configure", "none"}
<1>1. lapChan' = [lapChan EXCEPT !.chen = FALSE]
  BY DEF NewProbe
<1>2. PICK pc \in {"configure", "none"} : lapApp' = [lapApp EXCEPT !.pc = pc]
  BY DEF NewProbe, LapGoto
<1>3. lapChan' \in ChanType
  BY <1>1 DEF ChanType
<1>4. lapChan'.chen = FALSE
  BY <1>1 DEF ChanType
<1>5. lapApp' \in AppType /\ lapApp'.pc = pc
  BY <1>2 DEF AppType
<1> QED BY <1>3, <1>4, <1>5

\* Arming the channel starts the position and the laps anew.
LEMMA ConfigureRecords ==
  ASSUME lapChan \in ChanType, lapApp \in AppType, lapHist \in HistType, NewConfigure
  PROVE  /\ lapChan' \in ChanType /\ lapApp' \in AppType /\ lapHist' \in HistType
         /\ lapChan'.chen /\ lapChan'.cnt = LapLen /\ lapApp'.pc = "route"
         /\ lapHist'.pos = 0 /\ lapHist'.laps = 0
<1>1. lapChan' = [lapChan EXCEPT !.chen = TRUE, !.cnt = LapLen]
  BY DEF NewConfigure
<1>2. lapHist' = [lapHist EXCEPT !.pos = 0, !.laps = 0, !.folded = FALSE]
  BY DEF NewConfigure
<1>3. lapApp' = [lapApp EXCEPT !.pc = "route"]
  BY DEF NewConfigure, LapGoto
<1>4. LapLen \in 0 .. LapLen
  BY LapLenPositive
<1>5. lapChan' \in ChanType
  BY <1>1, <1>4 DEF ChanType
<1>6. lapChan'.chen = TRUE
  BY <1>1 DEF ChanType
<1>7. lapChan'.cnt = LapLen
  BY <1>1 DEF ChanType
<1>8. lapHist' \in HistType
  BY <1>2 DEF HistType
<1>9. lapHist'.pos = 0 /\ lapHist'.laps = 0
  BY <1>2 DEF HistType
<1>10. lapApp' \in AppType /\ lapApp'.pc = "route"
  BY <1>3 DEF AppType
<1> QED BY <1>5, <1>6, <1>7, <1>8, <1>9, <1>10

\* Routing the request changes nothing the position depends on.
LEMMA RouteRecords ==
  ASSUME lapChan \in ChanType, lapApp \in AppType, NewRoute
  PROVE  /\ lapChan' \in ChanType /\ lapApp' \in AppType
         /\ lapChan'.chen = lapChan.chen /\ lapChan'.cnt = lapChan.cnt
         /\ lapApp'.pc = "install"
<1>1. lapChan' = [lapChan EXCEPT !.denr = TRUE]
  BY DEF NewRoute
<1>2. lapApp' = [lapApp EXCEPT !.pc = "install"]
  BY DEF NewRoute, LapGoto
<1>3. lapChan' \in ChanType
  BY <1>1 DEF ChanType
<1>4. lapChan'.chen = lapChan.chen /\ lapChan'.cnt = lapChan.cnt
  BY <1>1 DEF ChanType
<1>5. lapApp' \in AppType /\ lapApp'.pc = "install"
  BY <1>2 DEF AppType
<1> QED BY <1>3, <1>4, <1>5

\* Installing the slot sets the count of laps to zero.
LEMMA InstallRecords ==
  ASSUME lapCtx \in CtxType, lapApp \in AppType, lapHist \in HistType, NewInstall
  PROVE  /\ lapCtx' \in CtxType /\ lapApp' \in AppType /\ lapHist' \in HistType
         /\ lapCtx'.wraps = 0 /\ lapApp'.pc = "unmask"
         /\ lapHist'.pos = lapHist.pos /\ lapHist'.laps = lapHist.laps
         /\ lapHist'.stale <=> (lapChan.ftf /\ lapHist.laps = 0)
         /\ lapHist'.folded <=> lapHist.laps > IF lapChan.ftf THEN 1 ELSE 0
<1> DEFINE st == lapChan.ftf /\ lapHist.laps = 0
           fo == lapHist.laps > IF lapChan.ftf THEN 1 ELSE 0
<1>1. lapCtx' = [lapCtx EXCEPT !.installed = TRUE, !.wraps = 0]
  BY DEF NewInstall
<1>2. lapHist' = [lapHist EXCEPT !.stale = st, !.folded = fo, !.over = FALSE]
  BY DEF NewInstall
<1>3. lapApp' = [lapApp EXCEPT !.pc = "unmask"]
  BY DEF NewInstall, LapGoto
<1>4. st \in BOOLEAN /\ fo \in BOOLEAN
  OBVIOUS
<1>5. 0 \in 0 .. LapWords - 1
  BY LapWordsAssumption
<1> HIDE DEF st, fo
<1>6. lapCtx' \in CtxType
  BY <1>1, <1>5 DEF CtxType
<1>7. lapCtx'.wraps = 0
  BY <1>1 DEF CtxType
<1>8. lapHist' \in HistType
  BY <1>2, <1>4 DEF HistType
<1>9. lapHist'.pos = lapHist.pos /\ lapHist'.laps = lapHist.laps
  BY <1>2 DEF HistType
<1>10. lapHist'.stale = st
  BY <1>2 DEF HistType
<1>11. lapHist'.folded = fo
  BY <1>2 DEF HistType
<1>12. lapApp' \in AppType /\ lapApp'.pc = "unmask"
  BY <1>3 DEF AppType
<1> QED BY <1>6, <1>7, <1>8, <1>9, <1>10, <1>11, <1>12 DEF st, fo

\* Unmasking the line makes the receiver live.
LEMMA UnmaskRecords ==
  ASSUME lapCtx \in CtxType, NewUnmask
  PROVE  /\ lapCtx' \in CtxType /\ lapApp' \in AppType
         /\ lapCtx'.wraps = lapCtx.wraps /\ lapApp'.pc = "live" /\ lapApp'.cursor = 0
<1>1. lapCtx' = [lapCtx EXCEPT !.unmasked = TRUE]
  BY DEF NewUnmask
<1>2. lapApp' = [pc |-> "live", cursor |-> 0, res |-> "none"]
  BY DEF NewUnmask
<1>3. lapCtx' \in CtxType
  BY <1>1 DEF CtxType
<1>4. lapCtx'.wraps = lapCtx.wraps
  BY <1>1 DEF CtxType
<1>5. lapApp' \in AppType /\ lapApp'.pc = "live" /\ lapApp'.cursor = 0
  BY <1>2 DEF AppType
<1> QED BY <1>3, <1>4, <1>5

\* Releasing stops the channel.
LEMMA ReleaseRecords ==
  ASSUME lapChan \in ChanType, lapApp \in AppType, LapRelease
  PROVE  /\ lapChan' \in ChanType /\ lapApp' \in AppType
         /\ ~lapChan'.chen /\ lapApp'.pc = "none"
<1>1. lapChan' = [lapChan EXCEPT !.chen = FALSE, !.denr = FALSE]
  BY DEF LapRelease
<1>2. lapApp' = [lapApp EXCEPT !.pc = "none"]
  BY DEF LapRelease, LapGoto
<1>3. lapChan' \in ChanType
  BY <1>1 DEF ChanType
<1>4. lapChan'.chen = FALSE
  BY <1>1 DEF ChanType
<1>5. lapApp' \in AppType /\ lapApp'.pc = "none"
  BY <1>2 DEF AppType
<1> QED BY <1>3, <1>4, <1>5

\* No error is recorded at first, nor after new and read, which take it.
LEMMA FirstError == LapInit => lapErr \in BOOLEAN
  BY DEF LapInit

\* A read and a new installation leave the error a flag.
LEMMA ErrorCleared == (NewInstall \/ LapRead) => lapErr' \in BOOLEAN
<1>1. NewInstall => lapErr' \in BOOLEAN
  BY DEF NewInstall
<1>2. LapRead => lapErr' \in BOOLEAN
  BY DEF LapRead
<1> QED BY <1>1, <1>2

\* What read leaves alone.
LEMMA ReadLeaves ==
  LapRead => UNCHANGED lapChan /\ UNCHANGED lapCtx /\ UNCHANGED lapHist /\ LapAt("live")
<1> SUFFICES ASSUME LapRead
             PROVE  UNCHANGED lapChan /\ UNCHANGED lapCtx /\ UNCHANGED lapHist /\ LapAt("live")
  OBVIOUS
<1>1. LapAt("live")
  BY DEF LapRead
<1>2. UNCHANGED <<lapChan, lapCtx, lapHist>>
  BY DEF LapRead
<1> QED BY <1>1, <1>2

\* What read makes of the cursor: the total after an error or an overrun,
\* and otherwise what was delivered further on, at most the total.
LEMMA ReadRecords ==
  ASSUME lapApp \in AppType, WriteTotal \in Nat, LapRead
  PROVE  /\ lapApp' \in AppType /\ lapApp'.pc = lapApp.pc
         /\ \/ lapApp'.cursor = WriteTotal
            \/ /\ ~LapWrapped
               /\ lapApp'.cursor >= lapApp.cursor /\ lapApp'.cursor <= WriteTotal
<1> DEFINE total == WriteTotal
           lapped == LapWrapped
<1>1. \/ lapApp' = [lapApp EXCEPT !.cursor = total,
                                  !.res = IF lapErr THEN "LineError" ELSE "RingOverrun"]
      \/ /\ ~lapped
         /\ \E k \in LapSlices :
              lapApp' = [lapApp EXCEPT
                 !.cursor = lapApp.cursor + (IF total - lapApp.cursor <= k
                                             THEN total - lapApp.cursor ELSE k),
                 !.res = "Ok"]
  BY DEF LapRead
<1>2. total \in Nat /\ lapApp.cursor \in Nat
  BY DEF AppType
<1>3. ~lapped => lapApp.cursor <= total
  BY <1>2 DEF LapWrapped
<1> HIDE DEF total, lapped
<1>4. ASSUME lapApp' = [lapApp EXCEPT !.cursor = total,
                                      !.res = IF lapErr THEN "LineError" ELSE "RingOverrun"]
      PROVE  lapApp' \in AppType /\ lapApp'.pc = lapApp.pc /\ lapApp'.cursor = total
  <2> DEFINE r == IF lapErr THEN "LineError" ELSE "RingOverrun"
  <2>1. r \in {"none", "Ok", "LineError", "RingOverrun"}
    OBVIOUS
  <2>2. lapApp' = [lapApp EXCEPT !.cursor = total, !.res = r]
    BY <1>4
  <2> HIDE DEF r
  <2>3. lapApp' \in AppType
    BY <1>2, <2>1, <2>2 DEF AppType
  <2>4. lapApp'.pc = lapApp.pc /\ lapApp'.cursor = total
    BY <2>2 DEF AppType
  <2> QED BY <2>3, <2>4
<1>5. ASSUME ~lapped, NEW k \in LapSlices,
             lapApp' = [lapApp EXCEPT
                 !.cursor = lapApp.cursor + (IF total - lapApp.cursor <= k
                                             THEN total - lapApp.cursor ELSE k),
                 !.res = "Ok"]
      PROVE  /\ lapApp' \in AppType /\ lapApp'.pc = lapApp.pc
             /\ lapApp'.cursor >= lapApp.cursor /\ lapApp'.cursor <= total
  <2> DEFINE c == lapApp.cursor + (IF total - lapApp.cursor <= k
                                   THEN total - lapApp.cursor ELSE k)
  <2>1. k \in Nat
    BY LapSlicesAssumption
  <2>2. c \in Nat /\ c >= lapApp.cursor /\ c <= total
    BY <1>2, <1>3, <1>5, <2>1
  <2>3. lapApp' = [lapApp EXCEPT !.cursor = c, !.res = "Ok"]
    BY <1>5
  <2> HIDE DEF c
  <2>4. lapApp' \in AppType
    BY <2>2, <2>3 DEF AppType
  <2>5. lapApp'.pc = lapApp.pc /\ lapApp'.cursor = c
    BY <2>3 DEF AppType
  <2> QED BY <2>2, <2>4, <2>5
<1> QED BY <1>1, <1>4, <1>5 DEF total, lapped

------------------------------------------------------------------------------
USE LapLenPositive, LapWordsAssumption, LapSlicesAssumption, LapBytesAssumption

\* The type invariant, variable by variable.
LEMMA Types ==
  LapTypeOK <=> /\ lapChan \in ChanType /\ lapCtx \in CtxType /\ lapApp \in AppType
                /\ lapErr \in BOOLEAN /\ lapHist \in HistType
  BY DEF LapTypeOK, ChanType, CtxType, AppType, HistType

\* The arithmetic of laps.
LEMMA NextLap ==
  ASSUME NEW w \in 0 .. LapWords - 1
  PROVE  (w + 1) % LapWords = IF w + 1 = LapWords THEN 0 ELSE w + 1
<1>1. CASE w + 1 = LapWords
  BY <1>1
<1>2. CASE w + 1 # LapWords
  <2>1. w + 1 \in Nat /\ w + 1 < LapWords
    BY <1>2
  <2>2. (w + 1) % LapWords = w + 1
    BY <2>1
  <2> QED BY <2>2, <1>2
<1> QED BY <1>1, <1>2

\* More laps, no fewer bytes.
LEMMA LapsMonotone ==
  ASSUME NEW a \in Nat, NEW q \in Nat, a <= q
  PROVE  a * LapLen <= q * LapLen /\ a * LapLen \in Nat /\ q * LapLen \in Nat
<1>1. LapLen \in Nat
  OBVIOUS
<1>2. (q - a) * LapLen >= 0
  BY <1>1
<1>3. q * LapLen = a * LapLen + (q - a) * LapLen
  BY <1>1
<1> QED BY <1>1, <1>2, <1>3

\* One more lap is one more buffer.
LEMMA LapsSucc ==
  ASSUME NEW q \in Nat
  PROVE  (q + 1) * LapLen = q * LapLen + LapLen /\ q * LapLen \in Nat
  OBVIOUS

\* The fields the arithmetic is about, in the ranges their types give them.
LEMMA Fields ==
  ASSUME LapTypeOK
  PROVE  /\ lapChan.cnt \in 0 .. LapLen /\ lapChan.ftf \in BOOLEAN
         /\ lapCtx.wraps \in 0 .. LapWords - 1
         /\ lapHist.pos \in Nat /\ lapHist.laps \in Nat /\ lapApp.cursor \in Nat
<1>1. lapChan \in ChanType /\ lapCtx \in CtxType /\ lapApp \in AppType /\ lapHist \in HistType
  BY Types
<1>2. lapChan.cnt \in 0 .. LapLen /\ lapChan.ftf \in BOOLEAN
  BY <1>1 DEF ChanType
<1>3. lapCtx.wraps \in 0 .. LapWords - 1
  BY <1>1 DEF CtxType
<1>4. lapHist.pos \in Nat /\ lapHist.laps \in Nat
  BY <1>1 DEF HistType
<1>5. lapApp.cursor \in Nat
  BY <1>1 DEF AppType
<1> QED BY <1>2, <1>3, <1>4, <1>5

\* The total as the code computes it, in terms of the laps it has counted.
LEMMA TotalValue ==
  ASSUME LapTypeOK
  PROVE  LET laps == IF lapChan.ftf THEN (lapCtx.wraps + 1) % LapWords ELSE lapCtx.wraps
         IN laps \in Nat /\ laps <= lapCtx.wraps + Pending /\ WriteTotal = laps * LapLen + Progress
<1> DEFINE w == lapCtx.wraps
           m == (w + 1) % LapWords
           laps == IF lapChan.ftf THEN m ELSE w
<1>1. w \in 0 .. LapWords - 1
  BY Fields
<1>2. m \in Nat /\ m <= w + 1
  <2> HIDE DEF w
  <2>1. m = IF w + 1 = LapWords THEN 0 ELSE w + 1
    BY <1>1, NextLap
  <2> HIDE DEF m
  <2> QED BY <1>1, <2>1
<1>3. WriteTotal = laps * LapLen + Progress
  BY DEF WriteTotal, Progress
<1>4. w \in Nat
  BY <1>1
<1> HIDE DEF w, m
<1>5. laps = IF lapChan.ftf THEN m ELSE w
  OBVIOUS
<1>6. Pending = IF lapChan.ftf THEN 1 ELSE 0
  BY DEF Pending
<1> HIDE DEF laps
<1>7. laps \in Nat /\ laps <= w + Pending
  <2>1. CASE lapChan.ftf
    BY <1>2, <1>5, <1>6, <2>1
  <2>2. CASE ~lapChan.ftf
    BY <1>4, <1>5, <1>6, <2>2
  <2> QED BY <2>1, <2>2
<1> QED BY <1>3, <1>7, Zenon DEF w, m, laps

\* The progress in a lap is at most a buffer's length.
LEMMA ProgressType == ASSUME LapTypeOK PROVE Progress \in 0 .. LapLen
<1>1. lapChan.cnt \in 0 .. LapLen
  BY Fields
<1> QED BY <1>1 DEF Progress

\* The total is a count.
LEMMA TotalType == ASSUME LapTypeOK PROVE WriteTotal \in Nat
<1> DEFINE laps == IF lapChan.ftf THEN (lapCtx.wraps + 1) % LapWords ELSE lapCtx.wraps
<1>1. laps \in Nat /\ WriteTotal = laps * LapLen + Progress
  BY TotalValue
<1>2. Progress \in Nat
  BY ProgressType
<1> HIDE DEF laps
<1> DEFINE ended == laps * LapLen
<1>3. ended \in Nat
  <2>1. laps \in Nat
    BY <1>1
  <2> QED BY <2>1
<1>4. WriteTotal = ended + Progress
  BY <1>1
<1> HIDE DEF ended
<1> QED BY <1>2, <1>3, <1>4

\* The total is never more than the position, the late and the lapped included.
LEMMA TotalBehind ==
  ASSUME LapIInv, Installed, ~lapHist.stale
  PROVE  WriteTotal <= lapHist.pos
<1> DEFINE laps == IF lapChan.ftf THEN (lapCtx.wraps + 1) % LapWords ELSE lapCtx.wraps
           q == lapHist.laps
<1>1. lapHist.pos = q * LapLen + Progress /\ lapCtx.wraps + Pending <= q
  BY DEF LapIInv, PositionInv, CountInv, Armed, Installed
<1>2. laps \in Nat /\ laps <= lapCtx.wraps + Pending /\ WriteTotal = laps * LapLen + Progress
  BY TotalValue DEF LapIInv
<1>3. q \in Nat /\ lapCtx.wraps + Pending \in Nat
  <2>1. q \in Nat /\ lapCtx.wraps \in 0 .. LapWords - 1
    BY Fields DEF LapIInv
  <2>2. Pending \in {0, 1}
    BY DEF Pending
  <2> QED BY <2>1, <2>2
<1>4. Progress \in Nat
  BY ProgressType DEF LapIInv
<1> HIDE DEF laps, q
<1>5. laps <= q
  BY <1>1, <1>2, <1>3
<1>6. laps * LapLen <= q * LapLen /\ laps * LapLen \in Nat /\ q * LapLen \in Nat
  BY <1>2, <1>3, <1>5, LapsMonotone
<1> QED BY <1>1, <1>2, <1>4, <1>6

\* On time, before the counter runs out, the total is the position.
LEMMA TotalExact ==
  ASSUME LapIInv, Installed, OnTime, lapHist.pos < LapLen * LapWords
  PROVE  WriteTotal = lapHist.pos
<1> DEFINE laps == IF lapChan.ftf THEN (lapCtx.wraps + 1) % LapWords ELSE lapCtx.wraps
           q == lapHist.laps
<1>1. lapHist.pos = q * LapLen + Progress /\ lapCtx.wraps + Pending = q
  BY DEF LapIInv, PositionInv, CountInv, Armed, Installed
<1>2. WriteTotal = laps * LapLen + Progress
  BY TotalValue DEF LapIInv
<1>3. q \in Nat /\ Progress \in Nat
  BY ProgressType, Fields DEF LapIInv
<1>4. q < LapWords
  <2> HIDE DEF q
  <2> SUFFICES ASSUME LapWords <= q PROVE FALSE
    BY <1>3
  <2> DEFINE ended == q * LapLen
             room == LapWords * LapLen
  <2>1. room <= ended /\ room \in Nat /\ ended \in Nat
    BY <1>3, LapsMonotone
  <2>2. lapHist.pos < room
    <3>1. LapLen * LapWords = LapWords * LapLen
      OBVIOUS
    <3> QED BY <3>1
  <2>3. lapHist.pos = ended + Progress
    BY <1>1
  <2> HIDE DEF ended, room
  <2> QED BY <1>3, <2>1, <2>2, <2>3
<1>5. laps = q
  <2> DEFINE w == lapCtx.wraps
             m == (w + 1) % LapWords
  <2>1. w \in 0 .. LapWords - 1 /\ lapChan.ftf \in BOOLEAN
    BY Fields DEF LapIInv
  <2>2. m = IF w + 1 = LapWords THEN 0 ELSE w + 1
    <3> HIDE DEF w
    <3> QED BY <2>1, NextLap
  <2>3. w + Pending = q
    BY <1>1
  <2>4. q \in Nat
    BY <1>3
  <2>5. laps = IF lapChan.ftf THEN m ELSE w
    OBVIOUS
  <2> HIDE DEF w, m, q, laps
  <2>6. CASE lapChan.ftf
    BY <1>4, <2>1, <2>2, <2>3, <2>4, <2>5, <2>6 DEF Pending
  <2>7. CASE ~lapChan.ftf
    BY <2>1, <2>3, <2>4, <2>5, <2>7 DEF Pending
  <2> QED BY <2>6, <2>7
<1> QED BY <1>1, <1>2, <1>5

------------------------------------------------------------------------------
\* Nothing is armed at first.
LEMMA LapInitIInv == LapInit => LapIInv
<1> SUFFICES ASSUME LapInit PROVE LapIInv
  OBVIOUS
<1>1. lapChan \in ChanType
  BY DEF LapInit, ChanType
<1>2. lapApp \in AppType
  BY DEF LapInit, AppType
<1>3. lapErr \in BOOLEAN
  BY FirstError
<1>4. lapCtx \in CtxType
  BY DEF LapInit, CtxType
<1>5. lapHist \in HistType
  BY DEF LapInit, HistType
<1>6. ~lapChan.chen /\ ~Armed /\ ~Installed /\ ~LapAt("live")
  BY DEF LapInit, Armed, Installed, LapAt
<1> QED BY <1>1, <1>2, <1>3, <1>4, <1>5, <1>6, Types DEF LapIInv, PositionInv, CountInv, NeverAhead

\* A character: at the end of a lap the count of laps and the flag go together.
LEMMA CharIInv == ASSUME LapIInv, Char PROVE LapIInv'
<1> DEFINE lap == lapChan.cnt = 1
<1>1. lapChan \in ChanType /\ lapCtx \in CtxType /\ lapApp \in AppType /\ lapHist \in HistType
      /\ lapErr \in BOOLEAN
  BY Types DEF LapIInv
<1>2. lapChan.chen /\ lapChan.cnt \in 1 .. LapLen
  BY DEF Char, LapIInv
<1>3. UNCHANGED lapCtx /\ UNCHANGED lapApp /\ UNCHANGED lapErr
  BY DEF Char
<1>4. /\ lapChan' \in ChanType
      /\ lapChan'.chen = lapChan.chen
      /\ lapChan'.cnt = IF lap THEN LapLen ELSE lapChan.cnt - 1
      /\ lapChan'.ftf <=> (lapChan.ftf \/ lap)
  <2>1. lapChan \in ChanType
    BY <1>1
  <2>2. lapChan.cnt \in 1 .. LapLen
    BY <1>2
  <2> QED BY <2>1, <2>2, CharChan
<1>5. /\ lapHist' \in HistType
      /\ lapHist'.pos = lapHist.pos + 1
      /\ lapHist'.laps = IF lap THEN lapHist.laps + 1 ELSE lapHist.laps
      /\ lapHist'.folded <=> (lapHist.folded \/ (lap /\ lapChan.ftf))
      /\ lapHist'.stale = lapHist.stale /\ lapHist'.over = lapHist.over
  BY <1>1, CharHist
<1>6. lapHist.pos \in Nat /\ lapHist.laps \in Nat
  BY <1>1 DEF HistType
<1>7. lapCtx.wraps \in Nat /\ lapApp.cursor \in Nat
  BY <1>1 DEF CtxType, AppType
<1>8. Armed' = Armed /\ Installed' = Installed /\ Armed
  BY <1>2, <1>3 DEF LapIInv, Armed, Installed
<1>9. PositionInv'
  <2> DEFINE ended == lapHist.laps * LapLen
             ends == lapHist'.laps * LapLen
  <2>1. lapHist.pos = ended + Progress /\ ended \in Nat /\ (lapHist.laps + 1) * LapLen = ended + LapLen
    BY <1>6, <1>8, LapsSucc DEF LapIInv, PositionInv
  <2>2. CASE lap
    <3>1. lapChan'.cnt = LapLen /\ lapHist'.laps = lapHist.laps + 1
      BY <1>4, <1>5, <2>2
    <3>2. Progress = LapLen - 1 /\ Progress' = 0
      BY <2>2, <3>1 DEF Progress
    <3>3. ends = ended + LapLen
      BY <2>1, <3>1
    <3>4. lapHist'.pos = lapHist.pos + 1
      BY <1>5
    <3>5. LapLen \in Nat
      BY LapLenPositive DEF LapLenPositive
    <3> HIDE DEF ended, ends
    <3>6. lapHist'.pos = ends + Progress'
      BY <2>1, <3>2, <3>3, <3>4, <3>5
    <3> QED BY <3>6 DEF PositionInv, ends
  <2>3. CASE ~lap
    <3>1. lapChan'.cnt = lapChan.cnt - 1 /\ lapHist'.laps = lapHist.laps
      BY <1>4, <1>5, <2>3
    <3>2. Progress' = Progress + 1 /\ Progress \in Nat
      BY <1>2, <3>1 DEF Progress
    <3>3. ends = ended
      BY <3>1
    <3> HIDE DEF ended, ends
    <3>4. lapHist'.pos = ends + Progress'
      BY <1>5, <1>6, <2>1, <3>2, <3>3
    <3> QED BY <3>4 DEF PositionInv, ends
  <2> QED BY <2>2, <2>3
<1>10. CountInv'
  <2> SUFFICES ASSUME Installed
               PROVE  /\ ~lapHist.stale => lapCtx.wraps + Pending' <= lapHist'.laps
                      /\ OnTime' => lapCtx.wraps + Pending' = lapHist'.laps
    BY <1>3, <1>5, <1>8 DEF CountInv
  <2>1. OnTime' => OnTime /\ ~(lap /\ lapChan.ftf)
    BY <1>5 DEF OnTime
  <2>2. /\ ~lapHist.stale => lapCtx.wraps + Pending <= lapHist.laps
        /\ OnTime => lapCtx.wraps + Pending = lapHist.laps
    BY DEF LapIInv, CountInv
  <2>3. CASE lapChan.ftf
    <3>1. Pending = 1 /\ Pending' = 1
      BY <1>4, <2>3 DEF Pending
    <3>2. lapHist.laps <= lapHist'.laps /\ (~lap => lapHist'.laps = lapHist.laps)
      BY <1>5, <1>6
    <3> QED BY <1>5, <1>6, <1>7, <2>1, <2>2, <2>3, <3>1, <3>2
  <2>4. CASE ~lapChan.ftf
    <3>1. Pending = 0 /\ Pending' = IF lap THEN 1 ELSE 0
      BY <1>4, <2>4 DEF Pending
    <3> QED BY <1>5, <1>6, <1>7, <2>1, <2>2, <3>1
  <2> QED BY <2>3, <2>4
<1>11. NeverAhead'
  BY <1>3, <1>5, <1>6, <1>7 DEF LapIInv, NeverAhead, LapAt
<1>12. LapTypeOK'
  <2>1. lapCtx' \in CtxType /\ lapApp' \in AppType /\ lapErr' \in BOOLEAN
    BY <1>1, <1>3
  <2> QED BY <1>4, <1>5, <2>1 DEF LapTypeOK, ChanType, CtxType, AppType, HistType
<1>13. lapChan'.cnt \in 1 .. LapLen
  BY <1>2, <1>4
<1> QED BY <1>2, <1>4, <1>8, <1>9, <1>10, <1>11, <1>12, <1>13 DEF LapIInv

\* The types of one state, and of the next, by variable.
LEMMA TypesNow ==
  ASSUME LapIInv
  PROVE  lapChan \in ChanType /\ lapCtx \in CtxType /\ lapApp \in AppType /\ lapErr \in BOOLEAN
         /\ lapHist \in HistType
  BY Types DEF LapIInv

\* The types of the next state, by variable.
LEMMA TypesNext ==
  ASSUME lapChan' \in ChanType, lapCtx' \in CtxType, lapApp' \in AppType, lapErr' \in BOOLEAN,
         lapHist' \in HistType
  PROVE  LapTypeOK'
  BY DEF LapTypeOK, ChanType, CtxType, AppType, HistType

\* Values of the fields the arithmetic is about.
LEMMA Numbers ==
  ASSUME LapIInv
  PROVE  /\ lapHist.pos \in Nat /\ lapHist.laps \in Nat /\ lapCtx.wraps \in Nat
         /\ lapApp.cursor \in Nat /\ lapChan.cnt \in 0 .. LapLen
  BY Fields DEF LapIInv

\* The interrupt turns a pending lap into a counted one.
LEMMA ServiceIInv == ASSUME LapIInv, ServiceDmaRx PROVE LapIInv'
<1>1. UNCHANGED lapApp /\ UNCHANGED lapErr
  BY DEF ServiceDmaRx
<1>2. /\ lapChan' \in ChanType /\ lapCtx' \in CtxType /\ lapHist' \in HistType
      /\ lapChan'.chen = lapChan.chen /\ lapChan'.cnt = lapChan.cnt /\ ~lapChan'.ftf
      /\ lapCtx'.wraps = IF lapChan.ftf THEN (lapCtx.wraps + 1) % LapWords ELSE lapCtx.wraps
      /\ lapHist'.pos = lapHist.pos /\ lapHist'.laps = lapHist.laps
      /\ lapHist'.folded = lapHist.folded /\ lapHist'.stale = lapHist.stale
      /\ lapHist'.over <=> (lapHist.over \/ (lapChan.ftf /\ lapCtx.wraps + 1 = LapWords))
  BY TypesNow, ServiceRecords
<1>3. LapTypeOK'
  BY <1>1, <1>2, TypesNow, TypesNext
<1>4. (lapChan.chen <=> Armed)' /\ (lapChan.chen => lapChan.cnt \in 1 .. LapLen)'
  BY <1>1, <1>2 DEF LapIInv, Armed
<1>5. PositionInv'
  <2>1. Progress' = Progress /\ Armed' = Armed
    BY <1>1, <1>2 DEF Progress, Armed
  <2> QED BY <1>2, <2>1 DEF LapIInv, PositionInv
<1>6. CountInv'
  <2> SUFFICES ASSUME Installed
               PROVE  /\ ~lapHist.stale => lapCtx'.wraps + Pending' <= lapHist.laps
                      /\ OnTime' => lapCtx'.wraps + Pending' = lapHist.laps
    BY <1>1, <1>2 DEF CountInv, Installed
  <2>1. Pending' = 0
    BY <1>2 DEF Pending
  <2>2. /\ ~lapHist.stale => lapCtx.wraps + Pending <= lapHist.laps
        /\ OnTime => lapCtx.wraps + Pending = lapHist.laps
    BY DEF LapIInv, CountInv
  <2>3. OnTime' => OnTime
    BY <1>2 DEF OnTime
  <2>4. lapCtx.wraps \in 0 .. LapWords - 1
    BY TypesNow DEF CtxType
  <2>5. CASE lapChan.ftf
    <3>1. Pending = 1
      BY <2>5 DEF Pending
    <3>2. lapCtx'.wraps = IF lapCtx.wraps + 1 = LapWords THEN 0 ELSE lapCtx.wraps + 1
      BY <1>2, <2>4, <2>5, NextLap
    <3>3. OnTime' => lapCtx.wraps + 1 # LapWords
      BY <1>2, <2>5 DEF OnTime
    <3> QED BY <2>1, <2>2, <2>3, <2>4, <3>1, <3>2, <3>3, Numbers
  <2>6. CASE ~lapChan.ftf
    <3>1. Pending = 0 /\ lapCtx'.wraps = lapCtx.wraps
      BY <1>2, <2>6 DEF Pending
    <3> QED BY <2>1, <2>2, <2>3, <3>1
  <2> QED BY <2>5, <2>6
<1>7. NeverAhead'
  BY <1>1, <1>2 DEF LapIInv, NeverAhead, LapAt
<1> QED BY <1>3, <1>4, <1>5, <1>6, <1>7 DEF LapIInv

\* A line error is recorded beside the ring.
LEMMA RaiseLineErrorIInv == ASSUME LapIInv, RaiseLineError PROVE LapIInv'
<1>1. UNCHANGED lapChan /\ UNCHANGED lapCtx /\ UNCHANGED lapApp /\ UNCHANGED lapHist
  BY DEF RaiseLineError
<1>2. lapErr' \in BOOLEAN
  BY DEF RaiseLineError
<1>3. LapTypeOK'
  BY <1>1, <1>2, TypesNow, TypesNext
<1> QED
  BY <1>1, <1>3
     DEF LapIInv, Armed, Installed, PositionInv, CountInv, NeverAhead, LapAt, Progress, Pending, OnTime

\* The channel is stopped: nothing is armed any more.
LEMMA ProbeIInv == ASSUME LapIInv, NewProbe PROVE LapIInv'
<1>1. UNCHANGED lapCtx /\ UNCHANGED lapErr /\ UNCHANGED lapHist
  BY DEF NewProbe
<1>2. /\ lapChan' \in ChanType /\ lapApp' \in AppType
      /\ ~lapChan'.chen /\ lapApp'.pc \in {"configure", "none"}
  BY TypesNow, ProbeRecords
<1>3. LapTypeOK'
  BY <1>1, <1>2, TypesNow, TypesNext
<1>4. ~Armed' /\ ~Installed' /\ ~LapAt("live")'
  BY <1>2 DEF Armed, Installed, LapAt
<1> QED BY <1>2, <1>3, <1>4 DEF LapIInv, PositionInv, CountInv, NeverAhead

\* A released receiver promises nothing.
LEMMA ReleaseIInv == ASSUME LapIInv, LapRelease PROVE LapIInv'
<1>1. UNCHANGED lapCtx /\ UNCHANGED lapErr /\ UNCHANGED lapHist
  BY DEF LapRelease
<1>2. /\ lapChan' \in ChanType /\ lapApp' \in AppType
      /\ ~lapChan'.chen /\ lapApp'.pc = "none"
  BY TypesNow, ReleaseRecords
<1>3. LapTypeOK'
  BY <1>1, <1>2, TypesNow, TypesNext
<1>4. ~Armed' /\ ~Installed' /\ ~LapAt("live")'
  BY <1>2 DEF Armed, Installed, LapAt
<1> QED BY <1>2, <1>3, <1>4 DEF LapIInv, PositionInv, CountInv, NeverAhead

\* A channel just configured is at the start of its first lap.
LEMMA ConfigureIInv == ASSUME LapIInv, NewConfigure PROVE LapIInv'
<1>1. UNCHANGED lapCtx /\ UNCHANGED lapErr
  BY DEF NewConfigure
<1>2. /\ lapChan' \in ChanType /\ lapApp' \in AppType /\ lapHist' \in HistType
      /\ lapChan'.chen /\ lapChan'.cnt = LapLen /\ lapApp'.pc = "route"
      /\ lapHist'.pos = 0 /\ lapHist'.laps = 0
  BY TypesNow, ConfigureRecords
<1>3. LapTypeOK'
  BY <1>1, <1>2, TypesNow, TypesNext
<1>4. Armed' /\ ~Installed' /\ ~LapAt("live")'
  BY <1>2 DEF Armed, Installed, LapAt
<1>5. PositionInv'
  <2>1. Progress' = 0
    BY <1>2 DEF Progress
  <2> QED BY <1>2, <2>1 DEF PositionInv
<1>6. lapChan'.cnt \in 1 .. LapLen
  BY <1>2
<1> QED BY <1>2, <1>3, <1>4, <1>5, <1>6 DEF LapIInv, CountInv, NeverAhead

\* Routing the request keeps the position.
LEMMA RouteIInv == ASSUME LapIInv, NewRoute PROVE LapIInv'
<1>1. UNCHANGED lapCtx /\ UNCHANGED lapErr /\ UNCHANGED lapHist
  BY DEF NewRoute
<1>2. /\ lapChan' \in ChanType /\ lapApp' \in AppType
      /\ lapChan'.chen = lapChan.chen /\ lapChan'.cnt = lapChan.cnt
      /\ lapApp'.pc = "install"
  BY TypesNow, RouteRecords
<1>3. LapTypeOK'
  BY <1>1, <1>2, TypesNow, TypesNext
<1>4. Armed /\ Armed' /\ ~Installed' /\ ~LapAt("live")'
  BY <1>2 DEF NewRoute, Armed, Installed, LapAt
<1>5. PositionInv'
  <2>1. Progress' = Progress
    BY <1>2 DEF Progress
  <2> QED BY <1>1, <1>4, <2>1 DEF LapIInv, PositionInv
<1> QED BY <1>2, <1>3, <1>4, <1>5 DEF LapIInv, CountInv, NeverAhead

\* The wrap count starts at zero, behind the laps that ended already.
LEMMA InstallIInv == ASSUME LapIInv, NewInstall PROVE LapIInv'
<1>1. UNCHANGED lapChan
  BY DEF NewInstall
<1>2. /\ lapCtx' \in CtxType /\ lapApp' \in AppType /\ lapHist' \in HistType
      /\ lapCtx'.wraps = 0 /\ lapApp'.pc = "unmask"
      /\ lapHist'.pos = lapHist.pos /\ lapHist'.laps = lapHist.laps
      /\ lapHist'.stale <=> (lapChan.ftf /\ lapHist.laps = 0)
      /\ lapHist'.folded <=> lapHist.laps > IF lapChan.ftf THEN 1 ELSE 0
  BY TypesNow, InstallRecords
<1>3. lapErr' \in BOOLEAN
  BY ErrorCleared
<1>4. LapTypeOK'
  BY <1>1, <1>2, <1>3, TypesNow, TypesNext
<1>5. Armed /\ Armed' /\ ~LapAt("live")'
  BY <1>2 DEF NewInstall, Armed, LapAt
<1>6. PositionInv'
  <2>1. Progress' = Progress
    BY <1>1 DEF Progress
  <2> QED BY <1>2, <1>5, <2>1 DEF LapIInv, PositionInv
<1>7. CountInv'
  <2>1. Pending' = IF lapChan.ftf THEN 1 ELSE 0
    BY <1>1 DEF Pending
  <2>2. ~lapHist'.stale => Pending' <= lapHist.laps
    BY <1>2, <2>1, Numbers
  <2>3. OnTime' => Pending' = lapHist.laps
    BY <1>2, <2>1, <2>2, Numbers DEF OnTime
  <2>4. Pending' \in Nat
    BY <2>1
  <2> QED BY <1>2, <2>2, <2>3, <2>4, Numbers DEF CountInv
<1> QED BY <1>1, <1>4, <1>5, <1>6, <1>7 DEF LapIInv, NeverAhead

\* The reader begins at the start of the buffer.
LEMMA UnmaskIInv == ASSUME LapIInv, NewUnmask PROVE LapIInv'
<1>1. UNCHANGED lapChan /\ UNCHANGED lapErr /\ UNCHANGED lapHist
  BY DEF NewUnmask
<1>2. /\ lapCtx' \in CtxType /\ lapApp' \in AppType
      /\ lapCtx'.wraps = lapCtx.wraps /\ lapApp'.pc = "live" /\ lapApp'.cursor = 0
  BY TypesNow, UnmaskRecords
<1>3. LapTypeOK'
  BY <1>1, <1>2, TypesNow, TypesNext
<1>4. Armed /\ Armed' /\ Installed
  BY <1>2 DEF NewUnmask, Armed, Installed, LapAt
<1>5. PositionInv'
  BY <1>1, <1>4 DEF LapIInv, PositionInv, Progress
<1>6. CountInv'
  BY <1>1, <1>2, <1>4 DEF LapIInv, CountInv, OnTime, Pending
<1>7. NeverAhead'
  BY <1>1, <1>2, Numbers DEF NeverAhead
<1> QED BY <1>1, <1>3, <1>4, <1>5, <1>6, <1>7 DEF LapIInv

\* What read makes of the cursor, its total being a number.
LEMMA ReadCursor ==
  ASSUME LapIInv, LapRead
  PROVE  /\ lapApp' \in AppType /\ lapApp'.pc = lapApp.pc
         /\ \/ lapApp'.cursor = WriteTotal
            \/ /\ ~LapWrapped
               /\ lapApp'.cursor >= lapApp.cursor /\ lapApp'.cursor <= WriteTotal
<1>1. WriteTotal \in Nat
  BY TotalType DEF LapIInv
<1>2. lapApp \in AppType
  BY TypesNow
<1> QED BY <1>1, <1>2, ReadRecords

\* A read moves the cursor only, and never beyond what was stored.
LEMMA ReadIInv == ASSUME LapIInv, LapRead PROVE LapIInv'
<1>1. UNCHANGED lapChan /\ UNCHANGED lapCtx /\ UNCHANGED lapHist /\ LapAt("live")
  BY ReadLeaves
<1>2. lapErr' \in BOOLEAN
  BY ErrorCleared
<1>3. lapApp' \in AppType /\ lapApp'.pc = lapApp.pc
  BY ReadCursor
<1>4. LapTypeOK'
  BY <1>1, <1>2, <1>3, TypesNow, TypesNext
<1>5. Armed' = Armed /\ Installed' = Installed
  BY <1>3 DEF Armed, Installed
<1>6. PositionInv' /\ CountInv'
  BY <1>1, <1>5 DEF LapIInv, PositionInv, CountInv, Progress, Pending, OnTime
<1>7. NeverAhead'
  <2> SUFFICES ASSUME ~lapHist.stale PROVE lapApp'.cursor <= lapHist.pos
    BY <1>1 DEF NeverAhead
  <2>1. Installed
    BY <1>1 DEF Installed, LapAt
  <2>2. WriteTotal <= lapHist.pos /\ WriteTotal \in Nat
    BY <2>1, TotalBehind, TotalType DEF LapIInv
  <2>3. lapApp'.cursor <= WriteTotal
    BY <2>2, ReadCursor
  <2>4. lapApp'.cursor \in Nat
    BY <1>3 DEF AppType
  <2> QED BY <2>2, <2>3, <2>4, Numbers
<1> QED BY <1>1, <1>4, <1>5, <1>6, <1>7 DEF LapIInv

\* No step leaves the invariant.
LEMMA LapNextIInv == LapIInv /\ [LapNext]_lapVars => LapIInv'
<1> SUFFICES ASSUME LapIInv, [LapNext]_lapVars PROVE LapIInv'
  OBVIOUS
<1>1. CASE LapNext
  BY <1>1, CharIInv, ServiceIInv, RaiseLineErrorIInv, ProbeIInv, ConfigureIInv, RouteIInv,
     InstallIInv, UnmaskIInv, ReleaseIInv, ReadIInv DEF LapNext
<1>2. CASE UNCHANGED lapVars
  BY <1>2 DEF lapVars, LapIInv, LapTypeOK, Armed, Installed, PositionInv, CountInv, NeverAhead,
     LapAt, Progress, Pending, OnTime
<1> QED BY <1>1, <1>2

\* The invariant holds throughout.
THEOREM LapInvariant == LapSpec => []LapIInv
  BY LapInitIInv, LapNextIInv, PTL DEF LapSpec

------------------------------------------------------------------------------
\* The invariant gives the properties.
LEMMA Implies == LapIInv => LapSafe
<1> SUFFICES ASSUME LapIInv PROVE LapSafe
  OBVIOUS
<1>1. LapTypeOK /\ NeverAhead
  BY DEF LapIInv
<1>2. ExactUnlessLate
  BY TotalExact DEF ExactUnlessLate, Installed, OnTime, LapAt
<1>3. ReadyComplete
  <2> SUFFICES ASSUME LapAt("live"), ~LapReady, OnTime, ~lapHist.stale,
                      lapHist.pos < LapLen * LapWords
               PROVE  ~LapWrapped
    BY DEF ReadyComplete, OnTime
  <2>1. WriteTotal = lapHist.pos /\ WriteTotal \in Nat
    BY TotalExact, TotalType DEF LapIInv, Installed, LapAt
  <2>2. lapApp.cursor <= WriteTotal
    BY <1>1, <2>1 DEF NeverAhead
  <2>3. WriteTotal <= lapApp.cursor
    BY <2>1, Numbers DEF LapReady
  <2>4. WriteTotal - lapApp.cursor = 0
    BY <2>1, <2>2, <2>3, Numbers
  <2> QED BY <2>1, <2>2, <2>4, Numbers DEF LapWrapped
<1> QED BY <1>1, <1>2, <1>3 DEF LapSafe

\* Across the receiver's lives, however late the interrupt, the total is exact
\* when the premises of ExactUnlessLate hold, the reader is never handed a byte
\* that was not stored, and a ready that says no hides no overrun.
THEOREM LapSafety == LapSpec => []LapSafe
  BY LapInvariant, Implies, PTL

\* One read catches up, from any cursor and across the counter's overflow.
THEOREM ReadCatchesUp == LapSpec => CatchesUp
<1>1. ASSUME LapIInv, [LapNext]_lapVars
      PROVE  [LapRead => lapApp'.cursor <= WriteTotal /\ WriteTotal - lapApp'.cursor <= LapLen]_lapVars
  <2> SUFFICES ASSUME LapRead
               PROVE  lapApp'.cursor <= WriteTotal /\ WriteTotal - lapApp'.cursor <= LapLen
    OBVIOUS
  <2>1. WriteTotal \in Nat /\ lapApp.cursor \in Nat
    BY <1>1, TotalType, Numbers DEF LapIInv
  <2>2. CASE lapApp'.cursor = WriteTotal
    BY <2>1, <2>2
  <2>3. CASE ~LapWrapped /\ lapApp'.cursor >= lapApp.cursor /\ lapApp'.cursor <= WriteTotal
    <3>1. lapApp'.cursor \in Nat
      BY <1>1, ReadCursor DEF AppType
    <3> QED BY <2>1, <2>3, <3>1 DEF LapWrapped
  <2> QED BY <1>1, <2>2, <2>3, ReadCursor
<1> QED BY <1>1, LapInvariant, PTL DEF LapSpec, CatchesUp
=============================================================================
