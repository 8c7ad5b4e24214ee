---------------------------- MODULE SerialProofs ---------------------------
(***************************************************************************)
(* The two serial facades.                                                 *)
(*                                                                         *)
(* What the polled port promises (PolledSerial), for every number of       *)
(* characters, every buffer length, budget and counter width. Each promise *)
(* is about what a call answers at its end; the invariant says what the    *)
(* call already knows at each of its register accesses.                    *)
(*                                                                         *)
(* What the adapter over two backends promises (SplitSerial), for every    *)
(* pairing, buffer length, budget and capacity, and any number of          *)
(* characters and faults from the wire. A call may be overtaken by         *)
(* interrupts between any two of its looks: the invariant says what each   *)
(* look has already settled.                                               *)
(***************************************************************************)
EXTENDS PolledSerial, SplitSerial, SequenceTheorems, TLAPS

---------------------------------------------------------------------------
(* The polled port (PolledSerial).                                        *)

\* The shapes a call takes, and the readiness answer the next read remembers.
ReadPcs == {"pre", "status", "clear", "after", "data"}
ReadCalls == [pc : ReadPcs, len : PsBufs, n : Nat, st : SUBSET ErrorFlags, ticked : BOOLEAN,
              ready : BOOLEAN]
WriteCalls == [pc : {"first", "rest"}, len : PsBufs, n : Nat, left : Nat]
FlushCalls == [pc : {"flush"}, left : Nat]
Calls == {PsIdle} \cup ReadCalls \cup WriteCalls \cup FlushCalls

PsShapes ==
  /\ psCall \in Calls
  /\ psWire \in [sent : Nat, bad : SUBSET Nat, lost : SUBSET Nat, raised : Nat]
  /\ psTx \in [hold : Nat, shift : Nat, out : Seq(Nat)]
  /\ psHist \in [got : Seq(Nat), stored : Nat, reported : Nat, dropped : Nat]
  /\ psFam = "F1x0" => psSaw = {}
  /\ psLast.op = "ready" => psLast.yes \in BOOLEAN
  /\ psCall # PsIdle => psLast = NoAnswer

\* The register holds a later character than any delivered, none of them lost.
OrderInv ==
  /\ psWire.bad \cup psWire.lost \subseteq 1 .. psWire.sent
  /\ psReg.rbne => psReg.data \in 1 .. psWire.sent \ psWire.lost
  /\ psCall.pc = "data" => psReg.rbne
  /\ \A i \in 1 .. Len(psHist.got) :
       /\ psHist.got[i] \in 1 .. psWire.sent \ psWire.lost
       /\ psReg.rbne => psHist.got[i] < psReg.data
  /\ \A i, j \in 1 .. Len(psHist.got) : i < j => psHist.got[i] < psHist.got[j]

\* What was behind a yes is still there, or the read has ticked or taken it.
ReadyInv ==
  psFam = "F1x0" =>
    /\ psLast.op = "ready" /\ psLast.yes => psReg.rbne \/ "ore" \in psReg.flags
    /\ psCall \in ReadCalls /\ psCall.ready /\ psCall.n = 0 /\ ~ psCall.ticked =>
         psReg.rbne \/ (psCall.pc = "pre" /\ "ore" \in psReg.flags)

\* An overrun flag that is up was counted, and is about to be cleared, or can
\* still be counted.
CountInv ==
  /\ psCnt.rx_overruns <= psWire.raised
  /\ "ore" \in psReg.flags =>
       \/ psCnt.rx_overruns < psWire.raised
       \/ psCall.pc = "status"
       \/ psCall.pc = "clear" /\ "ore" \in psCall.st
  /\ psCall.pc = "clear" =>
       psCall.st \subseteq psReg.flags /\ (psFam = "F10x" => psCall.st \subseteq psSaw)

\* On F10x a suspect character in the register still has its flag, until an
\* overrun.
SuspectInv ==
  psFam = "F10x" /\ psWire.raised = 0 =>
    /\ psReg.flags \subseteq {"ferr"} /\ psCall.pc # "after"
    /\ psCall.pc = "clear" => "ore" \notin psCall.st
    /\ psReg.rbne /\ psReg.data \in psWire.bad =>
         "ferr" \in psReg.flags /\ psCall.pc # "data"
    /\ \A i \in 1 .. Len(psHist.got) : psHist.got[i] \notin psWire.bad

\* Bytes leave in the order they were stored; what is reported was stored or
\* dropped, up to the bytes of the write in progress.
Shifting == IF psTx.shift = 0 THEN 0 ELSE 1
Holding == IF psTx.hold = 0 THEN 0 ELSE 1
TxOrder ==
  /\ \A i \in 1 .. Len(psTx.out) : psTx.out[i] = i
  /\ psTx.shift # 0 => psTx.shift = Len(psTx.out) + 1
  /\ psTx.hold # 0 => psTx.hold = Len(psTx.out) + Shifting + 1
  /\ psHist.stored = Len(psTx.out) + Shifting + Holding

Reporting == IF psCall.pc = "rest" THEN psCall.n ELSE 0
Pending == IF psCall.pc \in {"first", "rest"} THEN psCall.len - psCall.n ELSE 0
TxAccounts ==
  /\ psHist.reported + Reporting = psHist.stored + psHist.dropped
  /\ psHist.stored + psHist.dropped + Pending <= PsBytes
  /\ psCall.pc = "first" => psCall.n = 0 /\ psCall.len > 0
  /\ psCall.pc = "rest" => psCall.n <= psCall.len /\ (psCall.n > 0 \/ psCall.len = 0)
  /\ psHist.dropped > 0 => psCnt.tx_timeouts > 0
  /\ psLast.op = "write" /\ psLast.len > 0 => psLast.n > 0

TxInv == TxOrder /\ TxAccounts

PsIInv ==
  /\ PsTypeOK /\ PsShapes /\ OrderInv /\ ReadyInv /\ PsReadyMeansProgress
  /\ CountInv /\ SuspectInv /\ TxInv

------------------------------------------------------------------------------
(* What each step does to the fields.                                       *)

\* A call between its steps is told apart by where it is.
LEMMA CallShape ==
  ASSUME psCall \in Calls
  PROVE  /\ psCall.pc \in ReadPcs => psCall \in ReadCalls
         /\ psCall.pc \in {"first", "rest"} => psCall \in WriteCalls
         /\ psCall.pc = "flush" => psCall \in FlushCalls
         /\ psCall.pc \in {"idle", "first", "rest", "flush"} \cup ReadPcs
         /\ psCall.pc = "idle" <=> psCall = PsIdle
         /\ psCall \in ReadCalls => psCall.pc \in ReadPcs
  BY DEF Calls, ReadCalls, WriteCalls, FlushCalls, ReadPcs, PsIdle

\* An idle port is in no call.
LEMMA IdleShape == PsIdle.pc = "idle" /\ PsIdle \in Calls
  BY DEF PsIdle, Calls

\* A read of DATA empties the register and drops the flags STAT showed.
LEMMA ReadDrEffect ==
  ASSUME PsTypeOK, ReadDr
  PROVE  /\ psReg' \in [data : 0 .. PsChars, rbne : BOOLEAN, flags : SUBSET ErrorFlags]
         /\ psReg'.data = psReg.data /\ ~ psReg'.rbne
         /\ psReg'.flags = psReg.flags \ psSaw /\ psSaw' = {}
  BY DEF PsTypeOK, ReadDr

\* A counter ticks up to its ceiling, and moves no other.
LEMMA TickEffect ==
  ASSUME PsTypeOK, NEW name \in {"line_errors", "rx_overruns", "tx_timeouts"},
         psCnt' = PsTick(name)
  PROVE  /\ psCnt' \in [{"line_errors", "rx_overruns", "tx_timeouts"} -> 0 .. PsCounterMax]
         /\ psCnt'[name] \in {psCnt[name], psCnt[name] + 1} /\ psCnt'[name] > 0
         /\ \A o \in {"line_errors", "rx_overruns", "tx_timeouts"} \ {name} :
              psCnt'[o] = psCnt[o]
  BY PsAssumption DEF PsTypeOK, PsTick

\* A character completes.
LEMMA ArriveEffect ==
  ASSUME PsTypeOK, PsShapes, PsArrive
  PROVE  /\ psReg' \in [data : 0 .. PsChars, rbne : BOOLEAN, flags : SUBSET ErrorFlags]
         /\ psWire' \in [sent : Nat, bad : SUBSET Nat, lost : SUBSET Nat, raised : Nat]
         /\ psReg'.rbne /\ psReg.flags \subseteq psReg'.flags
         /\ psWire'.sent = psWire.sent + 1 /\ psWire.sent < PsChars
         /\ psReg.rbne =>
              /\ psReg'.data = psReg.data /\ psReg'.flags = psReg.flags \cup {"ore"}
              /\ psWire'.bad = psWire.bad
              /\ psWire'.lost = psWire.lost \cup {psWire.sent + 1}
              /\ psWire'.raised = IF "ore" \in psReg.flags
                                  THEN psWire.raised ELSE psWire.raised + 1
         /\ ~ psReg.rbne =>
              /\ psReg'.data = psWire.sent + 1 /\ psWire'.lost = psWire.lost
              /\ psWire'.raised = psWire.raised
              /\ \/ psReg'.flags = psReg.flags \cup {"ferr"}
                    /\ psWire'.bad = psWire.bad \cup {psWire.sent + 1}
                 \/ psReg'.flags = psReg.flags /\ psWire'.bad = psWire.bad
<1> USE PsAssumption
<1>1. PICK bad \in BOOLEAN :
        LET c == psWire.sent + 1 IN
        IF psReg.rbne
        THEN /\ psReg' = [psReg EXCEPT !.flags = @ \cup {"ore"}]
             /\ psWire' = [sent |-> c, bad |-> psWire.bad, lost |-> psWire.lost \cup {c},
                           raised |-> IF "ore" \in psReg.flags
                                      THEN psWire.raised ELSE psWire.raised + 1]
        ELSE /\ psReg' = [data |-> c, rbne |-> TRUE,
                          flags |-> psReg.flags \cup (IF bad THEN {"ferr"} ELSE {})]
             /\ psWire' = [psWire EXCEPT !.sent = c, !.bad = IF bad THEN @ \cup {c} ELSE @]
  BY DEF PsArrive
<1>2. psWire.sent < PsChars /\ psWire.sent \in Nat
  BY DEF PsArrive, PsTypeOK
<1> DEFINE c == psWire.sent + 1
<1>3. c \in Nat /\ c \in 0 .. PsChars
  BY <1>2
<1>4. psReg \in [data : 0 .. PsChars, rbne : BOOLEAN, flags : SUBSET ErrorFlags]
      /\ psWire \in [sent : Nat, bad : SUBSET Nat, lost : SUBSET Nat, raised : Nat]
  BY DEF PsTypeOK, PsShapes
<1>5. CASE psReg.rbne
  <2> DEFINE raised == IF "ore" \in psReg.flags THEN psWire.raised ELSE psWire.raised + 1
             lost == psWire.lost \cup {c}
  <2>1. psReg' = [psReg EXCEPT !.flags = @ \cup {"ore"}]
        /\ psWire' = [sent |-> c, bad |-> psWire.bad, lost |-> lost, raised |-> raised]
    BY <1>1, <1>5
  <2>2. raised \in Nat /\ lost \in SUBSET Nat /\ psWire.bad \in SUBSET Nat
    BY <1>3, <1>4
  <2>3. psReg' \in [data : 0 .. PsChars, rbne : BOOLEAN, flags : SUBSET ErrorFlags]
    BY <1>4, <2>1 DEF ErrorFlags
  <2>4. psReg'.rbne /\ psReg'.data = psReg.data /\ psReg'.flags = psReg.flags \cup {"ore"}
    BY <1>4, <1>5, <2>1
  <2>5. psWire'.sent = c /\ psWire'.bad = psWire.bad /\ psWire'.lost = lost
        /\ psWire'.raised = raised
    BY <2>1
  <2> HIDE DEF raised, lost, c
  <2>6. psWire' \in [sent : Nat, bad : SUBSET Nat, lost : SUBSET Nat, raised : Nat]
    BY <1>3, <2>1, <2>2
  <2> QED BY <1>2, <1>5, <2>3, <2>4, <2>5, <2>6 DEF raised, lost, c
<1>6. CASE ~ psReg.rbne
  <2> DEFINE flags == psReg.flags \cup (IF bad THEN {"ferr"} ELSE {})
             bads == IF bad THEN psWire.bad \cup {c} ELSE psWire.bad
  <2>1. psReg' = [data |-> c, rbne |-> TRUE, flags |-> flags]
        /\ psWire' = [psWire EXCEPT !.sent = c, !.bad = bads]
    BY <1>1, <1>4, <1>6
  <2>2. bads \in SUBSET Nat /\ flags \in SUBSET ErrorFlags
    BY <1>3, <1>4 DEF ErrorFlags
  <2>3. psReg'.rbne /\ psReg'.data = c /\ psReg'.flags = flags
    BY <2>1
  <2>4. \/ flags = psReg.flags \cup {"ferr"} /\ bads = psWire.bad \cup {c}
        \/ flags = psReg.flags /\ bads = psWire.bad
    OBVIOUS
  <2> HIDE DEF flags, bads, c
  <2>5. psReg' \in [data : 0 .. PsChars, rbne : BOOLEAN, flags : SUBSET ErrorFlags]
    BY <1>3, <2>1, <2>2
  <2>6. psWire'.sent = c /\ psWire'.bad = bads /\ psWire'.lost = psWire.lost
        /\ psWire'.raised = psWire.raised
    BY <1>4, <2>1
  <2>7. psWire' \in [sent : Nat, bad : SUBSET Nat, lost : SUBSET Nat, raised : Nat]
    BY <1>3, <1>4, <2>1, <2>2
  <2> QED BY <1>2, <1>6, <2>3, <2>4, <2>5, <2>6, <2>7 DEF c
<1> QED BY <1>5, <1>6

\* The shifter moves one byte on.
LEMMA ShiftEffect ==
  ASSUME PsTypeOK, PsShapes, Shift
  PROVE  /\ psTx' \in [hold : Nat, shift : Nat, out : Seq(Nat)]
         /\ \/ psTx.shift # 0 /\ psTx'.shift = 0 /\ psTx'.hold = psTx.hold
               /\ psTx'.out = Append(psTx.out, psTx.shift)
            \/ psTx.shift = 0 /\ psTx'.shift = psTx.hold /\ psTx'.hold = 0
               /\ psTx'.out = psTx.out /\ psTx.hold # 0
<1>1. CASE psTx.shift # 0
  <2>1. psTx' = [psTx EXCEPT !.shift = 0, !.out = Append(psTx.out, psTx.shift)]
    BY <1>1 DEF Shift
  <2>2. Append(psTx.out, psTx.shift) \in Seq(Nat)
    BY DEF PsShapes
  <2> QED BY <1>1, <2>1, <2>2 DEF PsShapes
<1>2. CASE psTx.shift = 0
  BY <1>2 DEF Shift, PsShapes
<1> QED BY <1>1, <1>2

\* A read begins.
LEMMA ReadCallEffect ==
  ASSUME PsTypeOK, PsShapes, ReadCall
  PROVE  /\ psCall = PsIdle /\ psCall' \in ReadCalls /\ psCall'.pc = "pre" /\ psCall'.n = 0
         /\ ~ psCall'.ticked
         /\ psCall'.ready => psLast.op = "ready" /\ psLast.yes
         /\ psLast' = NoAnswer
         /\ UNCHANGED <<psFam, psReg, psSaw, psWire, psTx, psCnt, psHist>>
<1> DEFINE ready == psLast.op = "ready" /\ psLast.yes
<1>1. ready \in BOOLEAN
  BY DEF PsShapes
<1>2. PICK len \in PsBufs :
        psCall' = [pc |-> "pre", len |-> len, n |-> 0, st |-> {}, ticked |-> FALSE,
                   ready |-> ready]
  BY DEF ReadCall
<1>3. psCall'.ready <=> ready
  BY <1>2
<1> HIDE DEF ready
<1>4. psCall' \in ReadCalls /\ psCall'.pc = "pre" /\ psCall'.n = 0 /\ ~ psCall'.ticked
  BY <1>1, <1>2 DEF ReadCalls, ReadPcs
<1> QED BY <1>3, <1>4 DEF ReadCall, ready

\* A read ends.
LEMMA ReadReturnEffect ==
  ASSUME NEW t \in BOOLEAN, ReadReturn(t)
  PROVE  /\ psCall' = PsIdle /\ psCall' \in Calls /\ psCall'.pc = "idle"
         /\ psLast'.op = "read" /\ psLast'.len = psCall.len /\ psLast'.n = psCall.n
         /\ (psLast'.ticked <=> t) /\ psLast'.ready = psCall.ready
  BY IdleShape DEF ReadReturn

\* The loop's own look at ORE, or the end of the read.
LEMMA PreEffect ==
  ASSUME PsTypeOK, PsShapes, Pre
  PROVE  /\ psCall \in ReadCalls /\ psCall.pc = "pre"
         /\ UNCHANGED <<psFam, psReg, psWire, psTx, psHist>>
         /\ \/ /\ PsReadStat /\ psCall' \in ReadCalls /\ psCall'.pc = "status"
               /\ psCall'.n = psCall.n /\ psCall'.ready = psCall.ready
               /\ psCall'.ticked <=> (psCall.ticked \/ "ore" \in psReg.flags)
               /\ psCnt' = IF "ore" \in psReg.flags THEN PsTick("rx_overruns") ELSE psCnt
               /\ psLast' = psLast
            \/ /\ ReadReturn(psCall.ticked) /\ psCall.n = psCall.len
               /\ UNCHANGED <<psSaw, psCnt>>
<1>1. psCall \in ReadCalls /\ psCall.pc = "pre"
  BY CallShape DEF Pre, At, ReadPcs, PsShapes
<1>2. CASE psCall.n = psCall.len /\ ReadReturn(psCall.ticked) /\ UNCHANGED <<psSaw, psCnt>>
  BY <1>1, <1>2 DEF Pre
<1>3. CASE ~ (psCall.n = psCall.len /\ ReadReturn(psCall.ticked) /\ UNCHANGED <<psSaw, psCnt>>)
  <2> DEFINE over == "ore" \in psReg.flags
             ticked == psCall.ticked \/ over
  <2>1. /\ PsReadStat /\ UNCHANGED psLast
        /\ psCnt' = IF over THEN PsTick("rx_overruns") ELSE psCnt
        /\ psCall' = [psCall EXCEPT !.pc = "status", !.ticked = ticked]
    BY <1>3 DEF Pre
  <2>2. ticked \in BOOLEAN
    OBVIOUS
  <2>3. psCall'.pc = "status" /\ psCall'.n = psCall.n /\ psCall'.ready = psCall.ready
    BY <1>1, <2>1 DEF ReadCalls
  <2>4. psCall'.ticked <=> ticked
    BY <1>1, <2>1 DEF ReadCalls
  <2> HIDE DEF ticked
  <2>5. psCall' \in ReadCalls
    BY <1>1, <2>1, <2>2 DEF ReadCalls, ReadPcs
  <2> QED BY <1>1, <2>1, <2>3, <2>4, <2>5 DEF Pre, ticked
<1> QED BY <1>2, <1>3

\* try_read_byte's status read.
LEMMA StatusEffect ==
  ASSUME PsTypeOK, PsShapes, ReadByteStatus
  PROVE  /\ psCall \in ReadCalls /\ psCall.pc = "status" /\ PsReadStat
         /\ UNCHANGED <<psFam, psReg, psWire, psTx, psCnt, psHist>>
         /\ \/ /\ psReg.flags # {} /\ psCall' \in ReadCalls /\ psCall'.pc = "clear"
               /\ psCall'.st = psReg.flags /\ psCall'.n = psCall.n
               /\ psCall'.ready = psCall.ready /\ psCall'.ticked = psCall.ticked
               /\ psLast' = psLast
            \/ /\ psReg.flags = {} /\ psReg.rbne /\ psCall' \in ReadCalls
               /\ psCall'.pc = "data" /\ psCall'.n = psCall.n
               /\ psCall'.ready = psCall.ready /\ psCall'.ticked = psCall.ticked
               /\ psLast' = psLast
            \/ /\ psReg.flags = {} /\ ~ psReg.rbne /\ ReadReturn(psCall.ticked)
<1>1. psCall \in ReadCalls /\ psCall.pc = "status" /\ psReg.flags \in SUBSET ErrorFlags
  BY CallShape DEF ReadByteStatus, At, ReadPcs, PsShapes, PsTypeOK
<1>2. CASE psReg.flags # {}
  <2>1. psCall' = [psCall EXCEPT !.pc = "clear", !.st = psReg.flags] /\ psLast' = psLast
    BY <1>2 DEF ReadByteStatus
  <2>2. psCall' \in ReadCalls
    BY <1>1, <2>1 DEF ReadCalls, ReadPcs
  <2>3. psCall'.pc = "clear" /\ psCall'.st = psReg.flags /\ psCall'.n = psCall.n
        /\ psCall'.ready = psCall.ready /\ psCall'.ticked = psCall.ticked
    BY <1>1, <2>1 DEF ReadCalls
  <2> QED BY <1>1, <1>2, <2>1, <2>2, <2>3 DEF ReadByteStatus
<1>3. CASE psReg.flags = {} /\ psReg.rbne
  <2>1. psCall' = [psCall EXCEPT !.pc = "data"] /\ psLast' = psLast
    BY <1>3 DEF ReadByteStatus
  <2>2. psCall' \in ReadCalls
    BY <1>1, <2>1 DEF ReadCalls, ReadPcs
  <2>3. psCall'.pc = "data" /\ psCall'.n = psCall.n
        /\ psCall'.ready = psCall.ready /\ psCall'.ticked = psCall.ticked
    BY <1>1, <2>1 DEF ReadCalls
  <2> QED BY <1>1, <1>3, <2>1, <2>2, <2>3 DEF ReadByteStatus
<1>4. CASE psReg.flags = {} /\ ~ psReg.rbne
  BY <1>1, <1>4 DEF ReadByteStatus
<1> QED BY <1>2, <1>3, <1>4

\* clear_line_errors, and what it makes of the flags it cleared.
LEMMA ClearEffect ==
  ASSUME PsTypeOK, PsShapes, PsClearErrors
  PROVE  /\ psCall \in ReadCalls /\ psCall.pc = "clear"
         /\ UNCHANGED <<psFam, psWire, psTx, psHist>>
         /\ psReg' \in [data : 0 .. PsChars, rbne : BOOLEAN, flags : SUBSET ErrorFlags]
         /\ psReg'.data = psReg.data
         /\ psFam = "F1x0" => /\ psReg'.flags = psReg.flags \ psCall.st /\ psSaw' = psSaw
                              /\ psReg'.rbne <=> psReg.rbne
         /\ psFam = "F10x" => /\ psReg'.flags = psReg.flags \ psSaw /\ psSaw' = {}
                              /\ ~ psReg'.rbne
         /\ \/ /\ "ore" \in psCall.st /\ psCall' \in ReadCalls /\ psCall'.pc = "after"
               /\ psCall'.n = psCall.n /\ psCall'.ready = psCall.ready
               /\ psCall'.ticked = psCall.ticked /\ UNCHANGED <<psCnt, psLast>>
            \/ /\ "ore" \notin psCall.st /\ psCnt' = PsTick("line_errors")
               /\ ReadReturn(TRUE)
<1>1. psCall \in ReadCalls /\ psCall.pc = "clear" /\ psFam \in {"F1x0", "F10x"}
  BY CallShape, PsAssumption DEF PsClearErrors, At, ReadPcs, PsShapes, PsTypeOK
<1>2. ASSUME psFam = "F1x0"
      PROVE  /\ psReg' \in [data : 0 .. PsChars, rbne : BOOLEAN, flags : SUBSET ErrorFlags]
             /\ psReg'.data = psReg.data /\ psReg'.flags = psReg.flags \ psCall.st
             /\ psSaw' = psSaw /\ (psReg'.rbne <=> psReg.rbne)
  <2>1. psReg' = [psReg EXCEPT !.flags = @ \ psCall.st] /\ psSaw' = psSaw
    BY <1>2 DEF PsClearErrors
  <2> QED BY <2>1 DEF PsTypeOK
<1>3. ASSUME psFam = "F10x"
      PROVE  /\ psReg' \in [data : 0 .. PsChars, rbne : BOOLEAN, flags : SUBSET ErrorFlags]
             /\ psReg'.data = psReg.data /\ psReg'.flags = psReg.flags \ psSaw
             /\ psSaw' = {} /\ ~ psReg'.rbne
  BY <1>3, ReadDrEffect DEF PsClearErrors
<1>4. CASE "ore" \in psCall.st
  <2>1. psCall' = [psCall EXCEPT !.pc = "after"] /\ UNCHANGED <<psCnt, psLast>>
    BY <1>4 DEF PsClearErrors
  <2>2. psCall' \in ReadCalls
    BY <1>1, <2>1 DEF ReadCalls, ReadPcs
  <2>3. psCall'.pc = "after" /\ psCall'.n = psCall.n
        /\ psCall'.ready = psCall.ready /\ psCall'.ticked = psCall.ticked
    BY <1>1, <2>1 DEF ReadCalls
  <2> QED BY <1>1, <1>2, <1>3, <1>4, <2>1, <2>2, <2>3 DEF PsClearErrors
<1>5. CASE "ore" \notin psCall.st
  BY <1>1, <1>2, <1>3, <1>5 DEF PsClearErrors
<1> QED BY <1>4, <1>5

\* The look at RBNE after an overrun recovery.
LEMMA AfterEffect ==
  ASSUME PsTypeOK, PsShapes, AfterOverrun
  PROVE  /\ psCall \in ReadCalls /\ psCall.pc = "after" /\ PsReadStat
         /\ UNCHANGED <<psFam, psReg, psWire, psTx, psCnt, psHist>>
         /\ \/ /\ psReg.rbne /\ psCall' \in ReadCalls
               /\ psCall'.pc = "data" /\ psCall'.n = psCall.n
               /\ psCall'.ready = psCall.ready /\ psCall'.ticked = psCall.ticked
               /\ psLast' = psLast
            \/ ~ psReg.rbne /\ ReadReturn(psCall.ticked)
<1>1. psCall \in ReadCalls /\ psCall.pc = "after"
  BY CallShape DEF AfterOverrun, At, ReadPcs, PsShapes
<1>2. CASE psReg.rbne
  <2>1. psCall' = [psCall EXCEPT !.pc = "data"] /\ psLast' = psLast
    BY <1>2 DEF AfterOverrun
  <2>2. psCall' \in ReadCalls
    BY <1>1, <2>1 DEF ReadCalls, ReadPcs
  <2>3. psCall'.pc = "data" /\ psCall'.n = psCall.n
        /\ psCall'.ready = psCall.ready /\ psCall'.ticked = psCall.ticked
    BY <1>1, <2>1 DEF ReadCalls
  <2> QED BY <1>1, <1>2, <2>1, <2>2, <2>3 DEF AfterOverrun
<1>3. CASE ~ psReg.rbne
  BY <1>1, <1>3 DEF AfterOverrun
<1> QED BY <1>2, <1>3

\* The byte is taken from DATA.
LEMMA TakeEffect ==
  ASSUME PsTypeOK, PsShapes, TakeByte
  PROVE  /\ psCall \in ReadCalls /\ psCall.pc = "data" /\ ReadDr
         /\ psHist' \in [got : Seq(Nat), stored : Nat, reported : Nat, dropped : Nat]
         /\ psHist'.got = Append(psHist.got, psReg.data) /\ psHist'.stored = psHist.stored
         /\ psHist'.reported = psHist.reported /\ psHist'.dropped = psHist.dropped
         /\ psCall' \in ReadCalls /\ psCall'.pc = "pre" /\ psCall'.n = psCall.n + 1
         /\ psCall'.n > 0
         /\ psCall'.ready = psCall.ready /\ psCall'.ticked = psCall.ticked
         /\ UNCHANGED <<psFam, psWire, psTx, psCnt, psLast>>
<1>1. psCall \in ReadCalls /\ psCall.pc = "data"
  BY CallShape DEF TakeByte, At, ReadPcs, PsShapes
<1>2. psHist' = [psHist EXCEPT !.got = Append(psHist.got, psReg.data)]
  BY DEF TakeByte
<1>3. Append(psHist.got, psReg.data) \in Seq(Nat)
  BY PsAssumption DEF PsShapes, PsTypeOK
<1>4. psHist' \in [got : Seq(Nat), stored : Nat, reported : Nat, dropped : Nat]
  BY <1>2, <1>3 DEF PsShapes
<1>5. psHist'.got = Append(psHist.got, psReg.data) /\ psHist'.stored = psHist.stored
      /\ psHist'.reported = psHist.reported /\ psHist'.dropped = psHist.dropped
  BY <1>2 DEF PsShapes
<1>6. psCall' = [psCall EXCEPT !.pc = "pre", !.n = psCall.n + 1] /\ psCall.n \in Nat
  BY <1>1 DEF TakeByte, ReadCalls
<1>7. psCall' \in ReadCalls
  <2> DEFINE n == psCall.n + 1
  <2>1. n \in Nat
    BY <1>6
  <2>2. psCall' = [psCall EXCEPT !.pc = "pre", !.n = n]
    BY <1>6
  <2> HIDE DEF n
  <2> QED BY <1>1, <2>1, <2>2 DEF ReadCalls, ReadPcs
<1>8. psCall'.pc = "pre" /\ psCall'.n = psCall.n + 1 /\ psCall'.n > 0
      /\ psCall'.ready = psCall.ready /\ psCall'.ticked = psCall.ticked
  BY <1>1, <1>6 DEF ReadCalls
<1> QED BY <1>1, <1>4, <1>5, <1>7, <1>8 DEF TakeByte

\* read_ready answers from one look at STAT.
LEMMA ReadyEffect ==
  ASSUME PsTypeOK, PsShapes, ReadReady
  PROVE  /\ PsReadStat /\ psLast'.op = "ready" /\ psLast'.yes \in BOOLEAN
         /\ psLast'.yes => psReg.rbne \/ "ore" \in psReg.flags
         /\ UNCHANGED <<psFam, psReg, psWire, psTx, psCall, psCnt, psHist>>
<1> DEFINE yes == psReg.rbne \/ "ore" \in psReg.flags
<1>1. yes \in BOOLEAN /\ psLast' = [op |-> "ready", yes |-> yes]
  BY DEF ReadReady
<1>2. psLast'.op = "ready" /\ (psLast'.yes <=> yes)
  BY <1>1
<1> HIDE DEF yes
<1>3. psLast'.yes \in BOOLEAN
  BY <1>1
<1> QED BY <1>2, <1>3 DEF ReadReady, yes

\* A write begins; an empty one has nothing to wait for.
LEMMA WriteCallEffect ==
  ASSUME PsTypeOK, PsShapes, WriteCall
  PROVE  /\ psCall = PsIdle /\ psCall' \in WriteCalls /\ psCall'.n = 0
         /\ \/ psCall'.pc = "first" /\ psCall'.len > 0
            \/ psCall'.pc = "rest" /\ psCall'.len = 0
         /\ psHist.stored + psHist.dropped + psCall'.len <= PsBytes
         /\ psLast' = NoAnswer
         /\ UNCHANGED <<psFam, psReg, psSaw, psWire, psTx, psCnt, psHist>>
<1>1. PICK len \in PsBufs :
        /\ psHist.stored + psHist.dropped + len <= PsBytes
        /\ psCall' = [pc |-> IF len = 0 THEN "rest" ELSE "first",
                      len |-> len, n |-> 0, left |-> PsBudget]
  BY DEF WriteCall
<1>2. len \in Nat /\ PsBudget \in Nat
  BY PsAssumption
<1>3. CASE len = 0
  BY <1>1, <1>2, <1>3 DEF WriteCall, WriteCalls
<1>4. CASE len # 0
  BY <1>1, <1>2, <1>4 DEF WriteCall, WriteCalls
<1> QED BY <1>3, <1>4

\* try_write_byte stores a byte in an empty TDATA.
LEMMA TryWriteEffect ==
  ASSUME PsTypeOK, PsShapes, psCall \in WriteCalls, TryWrite
  PROVE  /\ psTx.hold = 0 /\ psTx'.hold = psHist.stored + 1 /\ psTx'.hold # 0
         /\ psTx'.shift = psTx.shift /\ psTx'.out = psTx.out
         /\ psTx' \in [hold : Nat, shift : Nat, out : Seq(Nat)]
         /\ psHist' \in [got : Seq(Nat), stored : Nat, reported : Nat, dropped : Nat]
         /\ psHist'.got = psHist.got /\ psHist'.stored = psHist.stored + 1
         /\ psHist'.reported = psHist.reported /\ psHist'.dropped = psHist.dropped
         /\ psCall' \in WriteCalls /\ psCall'.pc = "rest" /\ psCall'.n = psCall.n + 1
         /\ psCall'.len = psCall.len
         /\ UNCHANGED <<psCnt, psLast>>
<1> DEFINE next == psHist.stored + 1
           n == psCall.n + 1
<1>1. next \in Nat /\ next # 0 /\ n \in Nat
  BY DEF PsShapes, WriteCalls
<1>2. psTx.hold = 0 /\ psTx' = [psTx EXCEPT !.hold = next]
      /\ psHist' = [psHist EXCEPT !.stored = next]
      /\ psCall' = [psCall EXCEPT !.pc = "rest", !.n = n] /\ UNCHANGED <<psCnt, psLast>>
  BY DEF TryWrite
<1> HIDE DEF next, n
<1>3. psTx' \in [hold : Nat, shift : Nat, out : Seq(Nat)]
      /\ psTx'.hold = next /\ psTx'.shift = psTx.shift /\ psTx'.out = psTx.out
  BY <1>1, <1>2 DEF PsShapes
<1>4. psHist' \in [got : Seq(Nat), stored : Nat, reported : Nat, dropped : Nat]
      /\ psHist'.got = psHist.got /\ psHist'.stored = next
      /\ psHist'.reported = psHist.reported /\ psHist'.dropped = psHist.dropped
  BY <1>1, <1>2 DEF PsShapes
<1>5. psCall' \in WriteCalls
  BY <1>1, <1>2 DEF WriteCalls
<1>6. psCall'.pc = "rest" /\ psCall'.n = n /\ psCall'.len = psCall.len
  BY <1>1, <1>2 DEF WriteCalls
<1> QED BY <1>1, <1>2, <1>3, <1>4, <1>5, <1>6 DEF next, n

\* The wait on the first byte: stored, one poll spent, or the buffer dropped.
LEMMA WriteFirstEffect ==
  ASSUME PsTypeOK, PsShapes, WriteFirst
  PROVE  /\ psCall \in WriteCalls /\ psCall.pc = "first"
         /\ UNCHANGED <<psFam, psReg, psSaw, psWire>>
         /\ \/ TryWrite
            \/ /\ psCall' \in WriteCalls /\ psCall'.pc = "first" /\ psCall'.n = psCall.n
               /\ psCall'.len = psCall.len /\ UNCHANGED <<psTx, psCnt, psHist, psLast>>
            \/ /\ psCnt' = PsTick("tx_timeouts") /\ psCall' = PsIdle /\ psLast'.op = "write"
               /\ psLast'.len = psCall.len /\ psLast'.n = psCall.len /\ UNCHANGED psTx
               /\ psHist' \in [got : Seq(Nat), stored : Nat, reported : Nat, dropped : Nat]
               /\ psHist'.got = psHist.got /\ psHist'.stored = psHist.stored
               /\ psHist'.reported = psHist.reported + psCall.len
               /\ psHist'.dropped = psHist.dropped + psCall.len
<1>1. psCall \in WriteCalls /\ psCall.pc = "first"
  BY CallShape DEF WriteFirst, At, PsShapes
<1>2. psCall.left \in Nat /\ psCall.len \in Nat
  BY <1>1, PsAssumption DEF WriteCalls
<1>3. CASE TryWrite
  BY <1>1, <1>3 DEF WriteFirst
<1>4. CASE psTx.hold # 0 /\ psCall.left > 0 /\ psCall' = [psCall EXCEPT !.left = psCall.left - 1]
           /\ UNCHANGED <<psTx, psCnt, psHist, psLast>>
  <2> DEFINE left == psCall.left - 1
  <2>1. left \in Nat /\ psCall' = [psCall EXCEPT !.left = left]
    BY <1>2, <1>4
  <2> HIDE DEF left
  <2>2. psCall' \in WriteCalls /\ psCall'.pc = "first" /\ psCall'.n = psCall.n
        /\ psCall'.len = psCall.len
    BY <1>1, <2>1 DEF WriteCalls
  <2> QED BY <1>1, <1>4, <2>2 DEF WriteFirst
<1>5. CASE /\ psCnt' = PsTick("tx_timeouts") /\ psCall' = PsIdle
           /\ psLast' = [op |-> "write", len |-> psCall.len, n |-> psCall.len]
           /\ psHist' = [psHist EXCEPT !.reported = psHist.reported + psCall.len,
                                       !.dropped = psHist.dropped + psCall.len]
           /\ UNCHANGED psTx
  <2> DEFINE reported == psHist.reported + psCall.len
             dropped == psHist.dropped + psCall.len
  <2>1. reported \in Nat /\ dropped \in Nat
        /\ psHist' = [psHist EXCEPT !.reported = reported, !.dropped = dropped]
    BY <1>2, <1>5 DEF PsShapes
  <2>2. psLast'.op = "write" /\ psLast'.len = psCall.len /\ psLast'.n = psCall.len
    BY <1>5
  <2> HIDE DEF reported, dropped
  <2>3. psHist' \in [got : Seq(Nat), stored : Nat, reported : Nat, dropped : Nat]
        /\ psHist'.got = psHist.got /\ psHist'.stored = psHist.stored
        /\ psHist'.reported = reported /\ psHist'.dropped = dropped
    BY <2>1 DEF PsShapes
  <2> QED BY <1>1, <1>5, <2>2, <2>3 DEF WriteFirst, reported, dropped
<1> QED BY <1>3, <1>4, <1>5 DEF WriteFirst

\* The rest of the buffer, as far as TDATA takes it.
LEMMA WriteRestEffect ==
  ASSUME PsTypeOK, PsShapes, WriteRest
  PROVE  /\ psCall \in WriteCalls /\ psCall.pc = "rest"
         /\ UNCHANGED <<psFam, psReg, psSaw, psWire>>
         /\ \/ psCall.n < psCall.len /\ TryWrite
            \/ /\ psCall' = PsIdle /\ psLast'.op = "write" /\ UNCHANGED <<psTx, psCnt>>
               /\ psLast'.len = psCall.len /\ psLast'.n = psCall.n
               /\ psHist' \in [got : Seq(Nat), stored : Nat, reported : Nat, dropped : Nat]
               /\ psHist'.got = psHist.got /\ psHist'.stored = psHist.stored
               /\ psHist'.reported = psHist.reported + psCall.n
               /\ psHist'.dropped = psHist.dropped
<1>1. psCall \in WriteCalls /\ psCall.pc = "rest" /\ psCall.n \in Nat
  BY CallShape DEF WriteRest, At, PsShapes, WriteCalls
<1>2. CASE psCall.n < psCall.len /\ TryWrite
  BY <1>1, <1>2 DEF WriteRest
<1>3. CASE /\ psCall' = PsIdle
           /\ psLast' = [op |-> "write", len |-> psCall.len, n |-> psCall.n]
           /\ psHist' = [psHist EXCEPT !.reported = psHist.reported + psCall.n]
           /\ UNCHANGED <<psTx, psCnt>>
  <2> DEFINE reported == psHist.reported + psCall.n
  <2>1. reported \in Nat /\ psHist' = [psHist EXCEPT !.reported = reported]
    BY <1>1, <1>3 DEF PsShapes
  <2>2. psLast'.op = "write" /\ psLast'.len = psCall.len /\ psLast'.n = psCall.n
    BY <1>3
  <2> HIDE DEF reported
  <2>3. psHist' \in [got : Seq(Nat), stored : Nat, reported : Nat, dropped : Nat]
        /\ psHist'.got = psHist.got /\ psHist'.stored = psHist.stored
        /\ psHist'.reported = reported /\ psHist'.dropped = psHist.dropped
    BY <2>1 DEF PsShapes
  <2> QED BY <1>1, <1>3, <2>2, <2>3 DEF WriteRest, reported
<1> QED BY <1>2, <1>3 DEF WriteRest

\* A flush begins, polls, and ends.
LEMMA FlushEffect ==
  ASSUME PsTypeOK, PsShapes, FlushCall \/ Flush
  PROVE  /\ UNCHANGED <<psFam, psReg, psSaw, psWire, psTx, psHist>>
         /\ psCall.pc \in {"idle", "flush"}
         /\ psCall' \in FlushCalls \cup {PsIdle} /\ psCall'.pc \in {"idle", "flush"}
         /\ psCnt' = psCnt \/ psCnt' = PsTick("tx_timeouts")
         /\ \/ psLast' = NoAnswer \/ (psCall.pc = "flush" /\ psLast' = psLast)
            \/ psCall' = PsIdle /\ psLast'.op = "flush"
<1>1. CASE FlushCall
  <2>1. psCall' = [pc |-> "flush", left |-> PsBudget] /\ psLast' = NoAnswer
        /\ psCall = PsIdle
        /\ UNCHANGED <<psFam, psReg, psSaw, psWire, psTx, psCnt, psHist>>
    BY <1>1 DEF FlushCall
  <2>2. psCall' \in FlushCalls /\ psCall'.pc = "flush" /\ psLast'.op = "none"
    BY <2>1, PsAssumption DEF FlushCalls, NoAnswer
  <2> QED BY <2>1, <2>2, IdleShape
<1>2. CASE Flush
  <2>1. psCall \in FlushCalls /\ psCall.pc = "flush" /\ psCall.left \in Nat
    BY <1>2, CallShape DEF Flush, At, PsShapes, FlushCalls
  <2>2. UNCHANGED <<psFam, psReg, psSaw, psWire, psTx, psHist>>
    BY <1>2 DEF Flush
  <2>3. CASE psCall.left > 0 /\ psCall' = [psCall EXCEPT !.left = psCall.left - 1]
             /\ UNCHANGED <<psCnt, psLast>>
    <3> DEFINE left == psCall.left - 1
    <3>1. left \in Nat /\ psCall' = [psCall EXCEPT !.left = left]
      BY <2>1, <2>3
    <3> HIDE DEF left
    <3>2. psCall' \in FlushCalls /\ psCall'.pc = "flush"
      BY <2>1, <3>1 DEF FlushCalls
    <3> QED BY <2>1, <2>2, <2>3, <3>2
  <2>4. CASE /\ psCnt' = (IF TxComplete THEN psCnt ELSE PsTick("tx_timeouts"))
             /\ psCall' = PsIdle /\ psLast' = [op |-> "flush", gaveUp |-> ~TxComplete]
    <3>1. psLast'.op = "flush"
      BY <2>4
    <3> QED BY <2>1, <2>2, <2>4, <3>1, IdleShape
  <2> QED BY <1>2, <2>3, <2>4 DEF Flush
<1> QED BY <1>1, <1>2

------------------------------------------------------------------------------
(* The parts of the invariant, each over all the steps.                     *)

\* A step keeps the call in one of its shapes and the port in its family.
LEMMA NextCalls ==
  ASSUME PsTypeOK, PsShapes, [PsNext]_psVars
  PROVE  psCall' \in Calls /\ psFam' = psFam
<1> USE DEF Calls
<1>a. psCall \in ReadCalls => psCall.ticked \in BOOLEAN
  BY DEF ReadCalls
<1>1. CASE PsArrive \/ Shift \/ UNCHANGED psVars
  BY <1>1 DEF PsArrive, Shift, psVars, PsShapes
<1>2. CASE ReadReady
  BY <1>2, ReadyEffect DEF PsShapes
<1>3. CASE ReadCall
  BY <1>3, ReadCallEffect
<1>4. CASE Pre
  BY <1>a, <1>4, PreEffect, ReadReturnEffect
<1>5. CASE ReadByteStatus
  BY <1>a, <1>5, StatusEffect, ReadReturnEffect
<1>6. CASE PsClearErrors
  BY <1>6, ClearEffect, ReadReturnEffect
<1>7. CASE AfterOverrun
  BY <1>a, <1>7, AfterEffect, ReadReturnEffect
<1>8. CASE TakeByte
  BY <1>8, TakeEffect
<1>9. CASE WriteCall
  BY <1>9, WriteCallEffect
<1>10. CASE FlushCall \/ Flush
  BY <1>10, FlushEffect
<1>11. CASE WriteFirst \/ WriteRest
  BY <1>11, WriteFirstEffect, WriteRestEffect, TryWriteEffect
<1> QED BY <1>1, <1>2, <1>3, <1>4, <1>5, <1>6, <1>7, <1>8, <1>9, <1>10, <1>11
        DEF PsNext, ReadStep, WriteStep

\* A step of a call under way has no answer yet, or ends the call with one; only
\* read_ready answers ready.
Answered == psLast' = NoAnswer \/ (psCall' = PsIdle /\ psLast'.op \in {"read", "write", "flush"})
AnswerOK ==
  /\ psLast'.op \in {"none", "ready", "read", "write", "flush"}
  /\ psLast'.op = "ready" => psLast'.yes \in BOOLEAN
  /\ psCall' # PsIdle => psLast' = NoAnswer

\* An answer given at the end of a call, or none, is well formed.
LEMMA AnsweredOK == ASSUME Answered PROVE AnswerOK
  BY DEF Answered, AnswerOK, NoAnswer

\* While a call is under way nothing has been answered.
LEMMA GoesOn ==
  ASSUME PsShapes, psCall.pc # "idle", psLast' = psLast
  PROVE  Answered
<1>1. psCall # PsIdle
  BY IdleShape
<1> QED BY <1>1 DEF PsShapes, Answered

\* The end of a read answers it.
LEMMA ReadReturnAnswers ==
  ASSUME NEW t \in BOOLEAN, ReadReturn(t)
  PROVE  Answered
  BY ReadReturnEffect DEF Answered

\* Every step's answer is well formed.
LEMMA NextAnswers ==
  ASSUME PsTypeOK, PsShapes, [PsNext]_psVars
  PROVE  AnswerOK
<1>a. psCall \in ReadCalls => psCall.ticked \in BOOLEAN
  BY DEF ReadCalls
<1>1. CASE PsArrive \/ Shift \/ UNCHANGED psVars
  BY <1>1 DEF PsArrive, Shift, psVars, PsShapes, PsTypeOK, AnswerOK
<1>2. CASE ReadReady
  <2>1. psLast'.op = "ready" /\ psLast'.yes \in BOOLEAN /\ psCall' = psCall
    BY <1>2, ReadyEffect
  <2>2. psCall = PsIdle
    BY <1>2 DEF ReadReady
  <2> QED BY <2>1, <2>2 DEF AnswerOK
<1>3. CASE ReadCall \/ WriteCall
  BY <1>3, ReadCallEffect, WriteCallEffect, AnsweredOK DEF Answered
<1>4. CASE Pre
  <2>1. psCall.pc # "idle" /\ psCall \in ReadCalls
    BY <1>4, PreEffect
  <2>2. psLast' = psLast \/ ReadReturn(psCall.ticked)
    BY <1>4, PreEffect
  <2> QED BY <1>a, <2>1, <2>2, GoesOn, ReadReturnAnswers, AnsweredOK
<1>5. CASE ReadByteStatus
  <2>1. psCall.pc # "idle" /\ psCall \in ReadCalls
    BY <1>5, StatusEffect
  <2>2. psLast' = psLast \/ ReadReturn(psCall.ticked)
    BY <1>5, StatusEffect
  <2> QED BY <1>a, <2>1, <2>2, GoesOn, ReadReturnAnswers, AnsweredOK
<1>6. CASE PsClearErrors
  <2>1. psCall.pc # "idle"
    BY <1>6, ClearEffect
  <2>2. psLast' = psLast \/ ReadReturn(TRUE)
    BY <1>6, ClearEffect
  <2> QED BY <2>1, <2>2, GoesOn, ReadReturnAnswers, AnsweredOK
<1>7. CASE AfterOverrun
  <2>1. psCall.pc # "idle" /\ psCall \in ReadCalls
    BY <1>7, AfterEffect
  <2>2. psLast' = psLast \/ ReadReturn(psCall.ticked)
    BY <1>7, AfterEffect
  <2> QED BY <1>a, <2>1, <2>2, GoesOn, ReadReturnAnswers, AnsweredOK
<1>8. CASE TakeByte
  <2>1. psCall.pc # "idle" /\ psLast' = psLast
    BY <1>8, TakeEffect
  <2> QED BY <2>1, GoesOn, AnsweredOK
<1>9. CASE FlushCall \/ Flush
  <2>1. (psCall.pc = "flush" /\ psLast' = psLast) \/ Answered
    BY <1>9, FlushEffect DEF Answered
  <2> QED BY <2>1, GoesOn, AnsweredOK
<1>10. CASE WriteFirst
  <2>1. psCall.pc # "idle"
    BY <1>10, WriteFirstEffect
  <2>2. psLast' = psLast \/ Answered
    BY <1>10, WriteFirstEffect, TryWriteEffect DEF Answered
  <2> QED BY <2>1, <2>2, GoesOn, AnsweredOK
<1>11. CASE WriteRest
  <2>1. psCall.pc # "idle"
    BY <1>11, WriteRestEffect
  <2>2. psLast' = psLast \/ Answered
    BY <1>11, WriteRestEffect, TryWriteEffect DEF Answered
  <2> QED BY <2>1, <2>2, GoesOn, AnsweredOK
<1> QED BY <1>1, <1>2, <1>3, <1>4, <1>5, <1>6, <1>7, <1>8, <1>9, <1>10, <1>11
        DEF PsNext, ReadStep, WriteStep

\* The register, the wire and what STAT reads have seen keep their types.
LEMMA NextReg ==
  ASSUME PsTypeOK, PsShapes, OrderInv, [PsNext]_psVars
  PROVE  /\ psReg' \in [data : 0 .. PsChars, rbne : BOOLEAN, flags : SUBSET ErrorFlags]
         /\ psSaw' \subseteq psReg'.flags /\ (psFam = "F1x0" => psSaw' = {})
         /\ psWire' \in [sent : Nat, bad : SUBSET Nat, lost : SUBSET Nat, raised : Nat]
         /\ psWire'.sent \in 0 .. PsChars
<1> USE PsAssumption
<1>1. CASE PsArrive
  <2>1. psSaw' = psSaw
    BY <1>1 DEF PsArrive
  <2>2. psReg.flags \subseteq psReg'.flags /\ psWire'.sent = psWire.sent + 1
        /\ psWire.sent < PsChars
        /\ psReg' \in [data : 0 .. PsChars, rbne : BOOLEAN, flags : SUBSET ErrorFlags]
        /\ psWire' \in [sent : Nat, bad : SUBSET Nat, lost : SUBSET Nat, raised : Nat]
    BY <1>1, ArriveEffect
  <2>3. psSaw' \subseteq psReg'.flags /\ (psFam = "F1x0" => psSaw' = {})
    BY <2>1, <2>2 DEF PsTypeOK, PsShapes
  <2>4. psWire'.sent \in 0 .. PsChars
    BY <2>2 DEF PsTypeOK
  <2> QED BY <2>2, <2>3, <2>4
<1>2. CASE UNCHANGED <<psReg, psSaw, psWire>>
  BY <1>2 DEF PsTypeOK, PsShapes
<1>3. CASE PsReadStat /\ UNCHANGED <<psReg, psWire>>
  BY <1>3 DEF PsTypeOK, PsShapes, PsReadStat
<1>4. CASE TakeByte
  BY <1>4, TakeEffect, ReadDrEffect DEF PsTypeOK, PsShapes
<1>5. CASE PsClearErrors
  BY <1>5, ClearEffect DEF PsTypeOK, PsShapes
<1>6. CASE Shift \/ ReadCall \/ WriteCall \/ UNCHANGED psVars
  BY <1>2, <1>6 DEF Shift, ReadCall, WriteCall, psVars
<1>7. CASE ReadReady
  BY <1>3, <1>7, ReadyEffect
<1>8. CASE Pre
  BY <1>2, <1>3, <1>8, PreEffect
<1>9. CASE ReadByteStatus \/ AfterOverrun
  BY <1>3, <1>9, StatusEffect, AfterEffect
<1>10. CASE FlushCall \/ Flush
  BY <1>2, <1>10, FlushEffect
<1>11. CASE WriteFirst \/ WriteRest
  BY <1>2, <1>11, WriteFirstEffect, WriteRestEffect
<1> QED BY <1>1, <1>4, <1>5, <1>6, <1>7, <1>8, <1>9, <1>10, <1>11
        DEF PsNext, ReadStep, WriteStep

\* A step that delivers and receives nothing keeps the order.
LEMMA OrderQuiet ==
  ASSUME OrderInv, UNCHANGED <<psWire, psHist.got>>,
         psReg'.rbne => psReg.rbne /\ psReg'.data = psReg.data,
         psCall'.pc = "data" => psReg'.rbne
  PROVE  OrderInv'
  BY DEF OrderInv

\* The characters reach the caller in the order of the wire.
LEMMA NextOrder ==
  ASSUME PsTypeOK, PsShapes, OrderInv, [PsNext]_psVars
  PROVE  OrderInv'
<1>1. CASE PsArrive
  <2>1. UNCHANGED <<psCall, psHist>>
    BY <1>1 DEF PsArrive
  <2>2. psWire.sent \in Nat /\ psWire'.sent = psWire.sent + 1 /\ psReg'.rbne
        /\ psHist.got \in Seq(Nat)
    BY <1>1, ArriveEffect DEF PsTypeOK, PsShapes
  <2>3. CASE psReg.rbne
    <3>1. psReg'.data = psReg.data /\ psWire'.bad = psWire.bad
          /\ psWire'.lost = psWire.lost \cup {psWire.sent + 1}
      BY <1>1, <2>3, ArriveEffect
    <3>2. psWire'.bad \cup psWire'.lost \subseteq 1 .. psWire'.sent
      BY <2>2, <3>1 DEF OrderInv
    <3>3. psReg'.data \in 1 .. psWire'.sent \ psWire'.lost
      BY <2>2, <2>3, <3>1 DEF OrderInv
    <3>4. ASSUME NEW i \in 1 .. Len(psHist.got)
          PROVE  psHist.got[i] \in 1 .. psWire'.sent \ psWire'.lost
                 /\ psHist.got[i] < psReg'.data
      BY <2>2, <2>3, <3>1 DEF OrderInv
    <3> QED BY <2>1, <2>2, <3>2, <3>3, <3>4 DEF OrderInv
  <2>4. CASE ~ psReg.rbne
    <3>1. psReg'.data = psWire.sent + 1 /\ psWire'.lost = psWire.lost
          /\ psWire'.bad \subseteq psWire.bad \cup {psWire.sent + 1}
      BY <1>1, <2>4, ArriveEffect
    <3>2. psWire'.bad \cup psWire'.lost \subseteq 1 .. psWire'.sent
      BY <2>2, <3>1 DEF OrderInv
    <3>3. psReg'.data \in 1 .. psWire'.sent \ psWire'.lost
      BY <2>2, <3>1 DEF OrderInv
    <3>4. ASSUME NEW i \in 1 .. Len(psHist.got)
          PROVE  psHist.got[i] \in 1 .. psWire'.sent \ psWire'.lost
                 /\ psHist.got[i] < psReg'.data
      BY <2>2, <3>1 DEF OrderInv
    <3>5. psCall.pc # "data"
      BY <2>4 DEF OrderInv
    <3> QED BY <2>1, <2>2, <3>2, <3>3, <3>4, <3>5 DEF OrderInv
  <2> QED BY <2>3, <2>4
<1>2. CASE TakeByte
  <2> DEFINE d == psReg.data
             g == psHist.got
  <2>1. psReg.rbne /\ psHist'.got = Append(g, d) /\ g \in Seq(Nat) /\ d \in Nat
        /\ psWire' = psWire /\ ~ psReg'.rbne /\ psCall'.pc = "pre"
    BY <1>2, TakeEffect, ReadDrEffect DEF OrderInv, PsShapes
  <2>2. /\ d \in 1 .. psWire.sent \ psWire.lost
        /\ \A i \in 1 .. Len(g) : g[i] \in 1 .. psWire.sent \ psWire.lost /\ g[i] < d
        /\ \A i, j \in 1 .. Len(g) : i < j => g[i] < g[j]
    BY <2>1 DEF OrderInv
  <2> HIDE DEF d, g
  <2>3. Len(g) \in Nat /\ Len(Append(g, d)) = Len(g) + 1 /\ Append(g, d)[Len(g) + 1] = d
        /\ \A i \in 1 .. Len(g) : Append(g, d)[i] = g[i]
    BY <2>1, AppendProperties
  <2>4. \A i \in 1 .. Len(g) + 1 : i \in 1 .. Len(g) \/ i = Len(g) + 1
    BY <2>3
  <2>5. ASSUME NEW i \in 1 .. Len(g) + 1
        PROVE  Append(g, d)[i] \in 1 .. psWire.sent \ psWire.lost
    BY <2>2, <2>3, <2>4
  <2>6. ASSUME NEW i \in 1 .. Len(g) + 1, NEW j \in 1 .. Len(g) + 1, i < j
        PROVE  Append(g, d)[i] < Append(g, d)[j]
    <3>1. i \in 1 .. Len(g)
      BY <2>3, <2>6
    <3>2. CASE j \in 1 .. Len(g)
      BY <2>2, <2>3, <2>6, <3>1, <3>2
    <3>3. CASE j = Len(g) + 1
      BY <2>2, <2>3, <3>1, <3>3
    <3> QED BY <2>4, <3>2, <3>3
  <2> QED BY <2>1, <2>3, <2>5, <2>6 DEF OrderInv
<1>3. CASE PsClearErrors
  <2>1. UNCHANGED <<psWire, psHist.got>> /\ psReg'.data = psReg.data
        /\ (psReg'.rbne => psReg.rbne)
    BY <1>3, ClearEffect, PsAssumption DEF PsTypeOK
  <2>2. psCall'.pc # "data"
    BY <1>3, ClearEffect, ReadReturnEffect
  <2> QED BY <2>1, <2>2, OrderQuiet
<1>4. CASE ReadByteStatus \/ AfterOverrun
  <2>1. UNCHANGED <<psWire, psHist.got, psReg>> /\ psCall.ticked \in BOOLEAN
    BY <1>4, StatusEffect, AfterEffect DEF ReadCalls
  <2>2. psCall'.pc = "data" => psReg.rbne
    BY <1>4, <2>1, StatusEffect, AfterEffect, ReadReturnEffect
  <2> QED BY <2>1, <2>2, OrderQuiet
<1>5. CASE Pre
  <2>1. UNCHANGED <<psWire, psHist.got, psReg>> /\ psCall.ticked \in BOOLEAN
    BY <1>5, PreEffect DEF ReadCalls
  <2>2. psCall'.pc # "data"
    BY <1>5, <2>1, PreEffect, ReadReturnEffect
  <2> QED BY <2>1, <2>2, OrderQuiet
<1>6. CASE Shift \/ ReadReady \/ UNCHANGED psVars
  <2>1. UNCHANGED <<psWire, psHist.got, psReg, psCall>>
    BY <1>6, ReadyEffect DEF Shift, psVars
  <2> QED BY <2>1, OrderQuiet DEF OrderInv
<1>7. CASE ReadCall \/ WriteCall \/ FlushCall \/ Flush
  <2>1. UNCHANGED <<psWire, psHist.got, psReg>> /\ psCall'.pc # "data"
    BY <1>7, ReadCallEffect, WriteCallEffect, FlushEffect
  <2> QED BY <2>1, OrderQuiet
<1>8. CASE WriteFirst \/ WriteRest
  <2>1. UNCHANGED <<psWire, psHist.got, psReg>> /\ psCall'.pc # "data"
    BY <1>8, WriteFirstEffect, WriteRestEffect, TryWriteEffect, IdleShape
  <2> QED BY <2>1, OrderQuiet
<1> QED BY <1>1, <1>2, <1>3, <1>4, <1>5, <1>6, <1>7, <1>8 DEF PsNext, ReadStep, WriteStep

\* A call that is not a read is none of the read's business.
LEMMA NotReading ==
  /\ PsIdle \notin ReadCalls
  /\ \A c \in WriteCalls \cup FlushCalls : c \notin ReadCalls
  BY DEF ReadCalls, WriteCalls, FlushCalls, ReadPcs, PsIdle

\* read_ready's yes stays true until the next read has acted on it.
LEMMA NextReady ==
  ASSUME PsTypeOK, PsShapes, OrderInv, ReadyInv, [PsNext]_psVars
  PROVE  ReadyInv'
<1> SUFFICES ASSUME psFam' = "F1x0" PROVE ReadyInv'
  BY DEF ReadyInv
<1>0. psFam = "F1x0" /\ psSaw = {}
  BY NextCalls DEF PsShapes
<1>1. CASE PsArrive
  <2>1. psReg'.rbne /\ UNCHANGED <<psCall, psLast>>
    BY <1>1, ArriveEffect DEF PsArrive
  <2> QED BY <2>1 DEF ReadyInv
<1>2. CASE ReadReady
  BY <1>0, <1>2, ReadyEffect DEF ReadyInv
<1>3. CASE ReadCall
  <2>1. psLast'.op = "none" /\ psCall'.pc = "pre"
        /\ (psCall'.ready => psReg'.rbne \/ "ore" \in psReg'.flags)
    BY <1>0, <1>3, ReadCallEffect DEF ReadyInv, NoAnswer
  <2> QED BY <2>1 DEF ReadyInv
<1>4. CASE Pre
  <2>1. psCall \in ReadCalls /\ psCall.pc = "pre" /\ psReg' = psReg
        /\ psCall.ticked \in BOOLEAN
    BY <1>4, PreEffect DEF ReadCalls
  <2>2. CASE ReadReturn(psCall.ticked)
    BY <2>1, <2>2, ReadReturnEffect, NotReading DEF ReadyInv
  <2>3. CASE ~ ReadReturn(psCall.ticked)
    <3>1. psCall'.n = psCall.n /\ psCall'.ready = psCall.ready /\ psLast' = psLast
          /\ (psCall'.ticked <=> (psCall.ticked \/ "ore" \in psReg.flags))
      BY <1>4, <2>3, PreEffect
    <3> QED BY <1>0, <2>1, <3>1 DEF ReadyInv
  <2> QED BY <2>2, <2>3
<1>5. CASE ReadByteStatus \/ AfterOverrun
  <2>1. psCall \in ReadCalls /\ psCall.pc # "pre" /\ psReg' = psReg
        /\ psCall.ticked \in BOOLEAN
    BY <1>5, StatusEffect, AfterEffect DEF ReadCalls
  <2>2. CASE ReadReturn(psCall.ticked)
    BY <2>1, <2>2, ReadReturnEffect, NotReading DEF ReadyInv
  <2>3. CASE ~ ReadReturn(psCall.ticked)
    <3>1. psCall'.n = psCall.n /\ psCall'.ready = psCall.ready /\ psLast' = psLast
          /\ psCall'.ticked = psCall.ticked
      BY <1>5, <2>3, StatusEffect, AfterEffect
    <3> QED BY <1>0, <2>1, <3>1 DEF ReadyInv
  <2> QED BY <2>2, <2>3
<1>6. CASE PsClearErrors
  <2>1. psCall \in ReadCalls /\ psCall.pc = "clear" /\ (psReg'.rbne <=> psReg.rbne)
    BY <1>0, <1>6, ClearEffect
  <2>2. CASE ReadReturn(TRUE)
    BY <2>2, ReadReturnEffect, NotReading DEF ReadyInv
  <2>3. CASE ~ ReadReturn(TRUE)
    <3>1. psCall'.n = psCall.n /\ psCall'.ready = psCall.ready /\ psLast' = psLast
          /\ psCall'.ticked = psCall.ticked
      BY <1>6, <2>3, ClearEffect
    <3>2. psLast.op = "ready" /\ psLast.yes => psReg'.rbne \/ "ore" \in psReg'.flags
      BY <2>1 DEF PsShapes, NoAnswer, PsIdle
    <3> QED BY <1>0, <2>1, <3>1, <3>2 DEF ReadyInv
  <2> QED BY <2>2, <2>3
<1>7. CASE TakeByte
  <2>1. psCall'.n > 0 /\ psCall # PsIdle /\ psLast' = psLast
    BY <1>7, TakeEffect, IdleShape
  <2>2. psCall'.n # 0 /\ psLast'.op # "ready"
    BY <2>1 DEF PsShapes, NoAnswer
  <2> QED BY <2>2 DEF ReadyInv
<1>8. CASE Shift \/ UNCHANGED psVars
  BY <1>8 DEF Shift, psVars, ReadyInv
<1>9. CASE WriteCall \/ FlushCall \/ Flush \/ WriteFirst \/ WriteRest
  <2>1. psReg' = psReg /\ psCall' \in WriteCalls \cup FlushCalls \cup {PsIdle}
    BY <1>9, WriteCallEffect, FlushEffect, WriteFirstEffect, WriteRestEffect, TryWriteEffect
  <2>2. psCall' \notin ReadCalls
    BY <2>1, NotReading
  <2>3. CASE psLast' = psLast
    BY <1>0, <2>1, <2>2, <2>3 DEF ReadyInv
  <2>4. CASE psLast' # psLast
    <3>1. psLast' = NoAnswer \/ psLast'.op \in {"write", "flush"}
      BY <1>9, <2>4, WriteCallEffect, FlushEffect, WriteFirstEffect, WriteRestEffect,
         TryWriteEffect
    <3>2. psLast'.op # "ready"
      BY <3>1 DEF NoAnswer
    <3> QED BY <2>2, <3>2 DEF ReadyInv
  <2> QED BY <2>3, <2>4
<1> QED BY <1>1, <1>2, <1>3, <1>4, <1>5, <1>6, <1>7, <1>8, <1>9 DEF PsNext, ReadStep, WriteStep

\* A read that ends with the last answer's yes behind it has taken a byte or ticked.
LEMMA ReturnProgress ==
  ASSUME NEW t \in BOOLEAN, ReadReturn(t), psCall \in ReadCalls,
         psFam = "F1x0" /\ psCall.ready /\ psCall.len > 0 => psCall.n > 0 \/ t,
         psFam' = psFam
  PROVE  PsReadyMeansProgress'
  BY ReadReturnEffect DEF PsReadyMeansProgress

\* After a yes of read_ready the next read returns a byte or ticks a counter.
LEMMA NextProgress ==
  ASSUME PsTypeOK, PsShapes, ReadyInv, PsReadyMeansProgress, [PsNext]_psVars
  PROVE  PsReadyMeansProgress'
<1>0. psFam' = psFam
  BY NextCalls
<1>a. psCall \in ReadCalls => psCall.ticked \in BOOLEAN /\ psCall.n \in Nat
  BY DEF ReadCalls
<1>b. ASSUME psLast' = psLast \/ psLast'.op # "read" PROVE PsReadyMeansProgress'
  BY <1>0, <1>b DEF PsReadyMeansProgress
<1>1. CASE PsArrive \/ Shift \/ UNCHANGED psVars
  BY <1>b, <1>1 DEF PsArrive, Shift, psVars
<1>2. CASE ReadReady \/ ReadCall \/ WriteCall
  BY <1>b, <1>2, ReadyEffect, ReadCallEffect, WriteCallEffect DEF NoAnswer
<1>3. CASE Pre
  <2>1. psCall \in ReadCalls
    BY <1>3, PreEffect
  <2>2. psLast' = psLast \/ (ReadReturn(psCall.ticked) /\ psCall.n = psCall.len)
    BY <1>3, PreEffect
  <2> QED BY <1>0, <1>a, <1>b, <2>1, <2>2, ReturnProgress
<1>4. CASE ReadByteStatus \/ AfterOverrun
  <2>1. psCall \in ReadCalls /\ psCall.pc # "pre"
    BY <1>4, StatusEffect, AfterEffect
  <2>2. psLast' = psLast \/ (ReadReturn(psCall.ticked) /\ ~ psReg.rbne)
    BY <1>4, StatusEffect, AfterEffect
  <2>3. psFam = "F1x0" /\ psCall.ready /\ ~ psReg.rbne => psCall.n # 0 \/ psCall.ticked
    BY <2>1 DEF ReadyInv
  <2>4. psFam = "F1x0" /\ psCall.ready /\ ~ psReg.rbne => psCall.n > 0 \/ psCall.ticked
    BY <1>a, <2>1, <2>3
  <2> QED BY <1>0, <1>a, <1>b, <2>1, <2>2, <2>4, ReturnProgress
<1>5. CASE PsClearErrors
  <2>1. psCall \in ReadCalls /\ (psLast' = psLast \/ ReadReturn(TRUE))
    BY <1>5, ClearEffect
  <2> QED BY <1>0, <1>b, <2>1, ReturnProgress
<1>6. CASE TakeByte
  BY <1>b, <1>6, TakeEffect
<1>7. CASE FlushCall \/ Flush
  BY <1>b, <1>7, FlushEffect DEF NoAnswer
<1>8. CASE WriteFirst \/ WriteRest
  BY <1>b, <1>8, WriteFirstEffect, WriteRestEffect, TryWriteEffect
<1> QED BY <1>1, <1>2, <1>3, <1>4, <1>5, <1>6, <1>7, <1>8 DEF PsNext, ReadStep, WriteStep

\* A step that raises no overrun, counts none and clears none keeps the count.
LEMMA CountQuiet ==
  ASSUME CountInv, psReg'.flags \subseteq psReg.flags, psFam' = psFam,
         psCnt'.rx_overruns = psCnt.rx_overruns, psWire'.raised = psWire.raised,
         psCall.pc \notin {"status", "clear"}, psCall'.pc # "clear"
  PROVE  CountInv'
  BY DEF CountInv

\* rx_overruns counts each condition once.
LEMMA NextCount ==
  ASSUME PsTypeOK, PsShapes, CountInv, [PsNext]_psVars
  PROVE  CountInv'
<1>0. psFam' = psFam /\ psFam \in {"F10x", "F1x0"}
  BY NextCalls, PsAssumption DEF PsTypeOK
<1>a. psCall \in ReadCalls => psCall.ticked \in BOOLEAN
  BY DEF ReadCalls
<1>1. CASE PsArrive
  <2>1. UNCHANGED <<psCall, psSaw, psCnt>>
    BY <1>1 DEF PsArrive
  <2>2. psWire.raised \in Nat /\ psCnt.rx_overruns \in Nat
    BY PsAssumption DEF PsShapes, PsTypeOK
  <2>3. CASE psReg.rbne
    <3>1. psReg'.flags = psReg.flags \cup {"ore"}
          /\ psWire'.raised = IF "ore" \in psReg.flags
                              THEN psWire.raised ELSE psWire.raised + 1
      BY <1>1, <2>3, ArriveEffect
    <3> QED BY <1>0, <2>1, <2>2, <3>1 DEF CountInv
  <2>4. CASE ~ psReg.rbne
    <3>1. psReg.flags \subseteq psReg'.flags /\ psReg'.flags \subseteq psReg.flags \cup {"ferr"}
          /\ psWire'.raised = psWire.raised
      BY <1>1, <2>4, ArriveEffect
    <3> QED BY <1>0, <2>1, <2>2, <3>1 DEF CountInv
  <2> QED BY <2>3, <2>4
<1>2. CASE Shift \/ UNCHANGED psVars
  <2>1. UNCHANGED <<psFam, psReg, psSaw, psWire, psCall, psCnt>>
    BY <1>2 DEF Shift, psVars
  <2> QED BY <2>1 DEF CountInv
<1>3. CASE ReadReady
  <2>1. UNCHANGED <<psReg, psWire, psCall, psCnt>> /\ psCall.pc = "idle"
    BY <1>3, ReadyEffect, IdleShape DEF ReadReady
  <2> QED BY <1>0, <2>1, CountQuiet
<1>4. CASE ReadCall \/ WriteCall
  <2>1. UNCHANGED <<psReg, psWire, psCnt>> /\ psCall.pc = "idle"
        /\ psCall'.pc \in {"pre", "first", "rest"}
    BY <1>4, ReadCallEffect, WriteCallEffect, IdleShape
  <2> QED BY <1>0, <2>1, CountQuiet
<1>5. CASE Pre
  <2>1. psCall \in ReadCalls /\ psCall.pc = "pre" /\ UNCHANGED <<psReg, psWire>>
    BY <1>5, PreEffect
  <2>2. CASE ReadReturn(psCall.ticked)
    <3>1. psCall'.pc = "idle"
      BY <1>a, <2>1, <2>2, ReadReturnEffect
    <3>2. psCnt' = psCnt
      BY <1>5, <2>1, <3>1, PreEffect
    <3> QED BY <1>0, <2>1, <3>1, <3>2, CountQuiet
  <2>3. CASE ~ ReadReturn(psCall.ticked)
    <3>1. psCall'.pc = "status"
          /\ psCnt' = IF "ore" \in psReg.flags THEN PsTick("rx_overruns") ELSE psCnt
      BY <1>5, <2>3, PreEffect
    <3>2. CASE "ore" \notin psReg.flags
      BY <1>0, <2>1, <3>1, <3>2, CountQuiet
    <3>3. CASE "ore" \in psReg.flags
      <4>1. psCnt'.rx_overruns \in {psCnt.rx_overruns, psCnt.rx_overruns + 1}
        BY <3>1, <3>3, TickEffect
      <4>2. psCnt.rx_overruns \in Nat /\ psWire.raised \in Nat
        BY PsAssumption DEF PsTypeOK, PsShapes
      <4>3. psCnt.rx_overruns < psWire.raised
        BY <2>1, <3>3 DEF CountInv
      <4> QED BY <2>1, <3>1, <4>1, <4>2, <4>3 DEF CountInv
    <3> QED BY <3>2, <3>3
  <2> QED BY <2>2, <2>3
<1>6. CASE ReadByteStatus
  <2>1. psCall \in ReadCalls /\ psCall.pc = "status" /\ PsReadStat
        /\ UNCHANGED <<psReg, psWire, psCnt>>
    BY <1>6, StatusEffect
  <2>2. CASE psReg.flags # {}
    <3>1. psCall'.pc = "clear" /\ psCall'.st = psReg.flags
      BY <1>6, <2>2, StatusEffect
    <3>2. psFam = "F10x" => psReg.flags \subseteq psSaw'
      BY <2>1 DEF PsReadStat
    <3> QED BY <1>0, <2>1, <3>1, <3>2 DEF CountInv
  <2>3. CASE psReg.flags = {}
    <3>1. psCall'.pc # "clear"
      BY <1>a, <1>6, <2>1, <2>3, StatusEffect, ReadReturnEffect
    <3> QED BY <2>1, <2>3, <3>1 DEF CountInv
  <2> QED BY <2>2, <2>3
<1>7. CASE PsClearErrors
  <2>1. psCall.pc = "clear" /\ psWire' = psWire /\ psReg'.flags \subseteq psReg.flags
        /\ psCall'.pc # "clear"
    BY <1>0, <1>7, ClearEffect, ReadReturnEffect
  <2>2. psCnt'.rx_overruns = psCnt.rx_overruns
    BY <1>7, ClearEffect, TickEffect
  <2>3. "ore" \in psReg'.flags => "ore" \in psReg.flags /\ "ore" \notin psCall.st
    BY <1>0, <1>7, <2>1, ClearEffect DEF CountInv
  <2> QED BY <2>1, <2>2, <2>3 DEF CountInv
<1>8. CASE AfterOverrun
  <2>1. psCall \in ReadCalls /\ psCall.pc = "after" /\ UNCHANGED <<psReg, psWire, psCnt>>
    BY <1>8, AfterEffect
  <2>2. psCall'.pc # "clear"
    BY <1>a, <1>8, <2>1, AfterEffect, ReadReturnEffect
  <2> QED BY <1>0, <2>1, <2>2, CountQuiet
<1>9. CASE TakeByte
  <2>1. psCall.pc = "data" /\ psCall'.pc = "pre" /\ UNCHANGED <<psWire, psCnt>>
        /\ psReg'.flags \subseteq psReg.flags
    BY <1>9, TakeEffect, ReadDrEffect
  <2> QED BY <1>0, <2>1, CountQuiet
<1>10. CASE FlushCall \/ Flush
  <2>1. UNCHANGED <<psReg, psWire>> /\ psCall.pc \in {"idle", "flush"}
        /\ psCall'.pc \in {"idle", "flush"}
    BY <1>10, FlushEffect
  <2>2. psCnt'.rx_overruns = psCnt.rx_overruns
    BY <1>10, FlushEffect, TickEffect
  <2> QED BY <1>0, <2>1, <2>2, CountQuiet
<1>11. CASE WriteFirst \/ WriteRest
  <2>1. UNCHANGED <<psReg, psWire>> /\ psCall.pc \in {"first", "rest"}
        /\ psCall \in WriteCalls
    BY <1>11, WriteFirstEffect, WriteRestEffect
  <2>2. psCall'.pc \in {"idle", "first", "rest"}
    BY <1>11, <2>1, WriteFirstEffect, WriteRestEffect, TryWriteEffect, IdleShape
  <2>3. psCnt'.rx_overruns = psCnt.rx_overruns
    BY <1>11, <2>1, WriteFirstEffect, WriteRestEffect, TryWriteEffect, TickEffect
  <2> QED BY <1>0, <2>1, <2>2, <2>3, CountQuiet
<1> QED BY <1>1, <1>2, <1>3, <1>4, <1>5, <1>6, <1>7, <1>8, <1>9, <1>10, <1>11
        DEF PsNext, ReadStep, WriteStep

\* A step that neither receives nor delivers, and leaves the register alone, keeps
\* what is known of suspect characters.
LEMMA SuspectQuiet ==
  ASSUME SuspectInv, UNCHANGED <<psFam, psWire, psReg, psHist.got>>,
         psCall'.pc \notin {"after", "data", "clear"}
  PROVE  SuspectInv'
  BY DEF SuspectInv

\* A suspect character is dropped on F10x until an overrun confuses the recovery.
LEMMA NextSuspect ==
  ASSUME PsTypeOK, PsShapes, OrderInv, SuspectInv, [PsNext]_psVars
  PROVE  SuspectInv'
<1>0. psFam' = psFam
  BY NextCalls
<1>a. psCall \in ReadCalls => psCall.ticked \in BOOLEAN
  BY DEF ReadCalls
<1>1. CASE PsArrive
  <2> SUFFICES ASSUME psFam = "F10x", psWire'.raised = 0
               PROVE  SuspectInv'
    BY <1>0 DEF SuspectInv
  <2>1. UNCHANGED <<psCall, psHist>> /\ psHist.got \in Seq(Nat)
    BY <1>1 DEF PsArrive, PsShapes
  <2>2. psWire.raised \in Nat /\ psWire.sent \in Nat
    BY PsAssumption DEF PsShapes
  <2>3. CASE psReg.rbne
    <3>1. psWire'.raised = IF "ore" \in psReg.flags THEN psWire.raised ELSE psWire.raised + 1
      BY <1>1, <2>3, ArriveEffect
    <3>2. psWire.raised = 0 /\ "ore" \in psReg.flags
      BY <2>2, <3>1
    <3> QED BY <3>2 DEF SuspectInv
  <2>4. CASE ~ psReg.rbne
    <3>1. psWire'.raised = psWire.raised /\ psReg'.data = psWire.sent + 1
          /\ \/ psReg'.flags = psReg.flags \cup {"ferr"}
                /\ psWire'.bad = psWire.bad \cup {psWire.sent + 1}
             \/ psReg'.flags = psReg.flags /\ psWire'.bad = psWire.bad
      BY <1>1, <2>4, ArriveEffect
    <3>2. psCall.pc # "data"
      BY <2>4 DEF OrderInv
    <3>3. psReg'.data \in psWire'.bad => "ferr" \in psReg'.flags
      BY <2>2, <3>1 DEF OrderInv
    <3>4. ASSUME NEW i \in 1 .. Len(psHist.got)
          PROVE  psHist.got[i] \notin psWire'.bad
      <4>1. psHist.got[i] \notin psWire.bad /\ psHist.got[i] \in 1 .. psWire.sent
        BY <3>1 DEF SuspectInv, OrderInv
      <4> QED BY <2>2, <3>1, <4>1
    <3>5. psReg'.flags \subseteq {"ferr"}
      BY <3>1 DEF SuspectInv
    <3> QED BY <2>1, <3>1, <3>2, <3>3, <3>4, <3>5 DEF SuspectInv
  <2> QED BY <2>3, <2>4
<1>2. CASE Shift \/ UNCHANGED psVars
  <2>1. UNCHANGED <<psFam, psReg, psWire, psCall, psHist>>
    BY <1>2 DEF Shift, psVars
  <2> QED BY <2>1 DEF SuspectInv
<1>3. CASE ReadReady
  <2>1. UNCHANGED <<psFam, psReg, psWire, psCall, psHist>>
    BY <1>3, ReadyEffect
  <2> QED BY <2>1 DEF SuspectInv
<1>4. CASE ReadCall \/ WriteCall
  <2>1. UNCHANGED <<psFam, psReg, psWire, psHist>> /\ psCall'.pc \in {"pre", "first", "rest"}
    BY <1>4, ReadCallEffect, WriteCallEffect
  <2> QED BY <2>1, SuspectQuiet
<1>5. CASE Pre
  <2>1. psCall \in ReadCalls /\ UNCHANGED <<psFam, psReg, psWire, psHist>>
    BY <1>5, PreEffect
  <2>2. psCall'.pc \in {"status", "idle"}
    BY <1>a, <1>5, <2>1, PreEffect, ReadReturnEffect
  <2> QED BY <2>1, <2>2, SuspectQuiet
<1>6. CASE ReadByteStatus
  <2>1. psCall \in ReadCalls /\ UNCHANGED <<psFam, psReg, psWire, psHist>>
    BY <1>6, StatusEffect
  <2>2. CASE psReg.flags # {}
    <3>1. psCall'.pc = "clear" /\ psCall'.st = psReg.flags
      BY <1>6, <2>2, StatusEffect
    <3> QED BY <2>1, <3>1 DEF SuspectInv
  <2>3. CASE psReg.flags = {}
    <3>1. psCall'.pc \in {"data", "idle"}
      BY <1>a, <1>6, <2>1, <2>3, StatusEffect, ReadReturnEffect
    <3> QED BY <2>1, <2>3, <3>1 DEF SuspectInv
  <2> QED BY <2>2, <2>3
<1>7. CASE PsClearErrors
  <2> SUFFICES ASSUME psFam = "F10x", psWire'.raised = 0
               PROVE  SuspectInv'
    BY <1>0 DEF SuspectInv
  <2>1. UNCHANGED <<psWire, psHist>> /\ psCall.pc = "clear" /\ ~ psReg'.rbne
        /\ psReg'.flags \subseteq psReg.flags
    BY <1>7, ClearEffect
  <2>2. "ore" \notin psCall.st
    BY <2>1 DEF SuspectInv
  <2>3. psCall'.pc = "idle"
    BY <1>7, <2>2, ClearEffect, ReadReturnEffect
  <2> QED BY <2>1, <2>3 DEF SuspectInv
<1>8. CASE AfterOverrun
  <2>1. psCall.pc = "after" /\ psWire' = psWire
    BY <1>8, AfterEffect
  <2> QED BY <1>0, <2>1 DEF SuspectInv
<1>9. CASE TakeByte
  <2> SUFFICES ASSUME psFam = "F10x", psWire'.raised = 0
               PROVE  SuspectInv'
    BY <1>0 DEF SuspectInv
  <2> DEFINE d == psReg.data
             g == psHist.got
  <2>a. d \in Nat /\ g \in Seq(Nat)
    BY PsAssumption DEF PsShapes, PsTypeOK
  <2>b. psWire' = psWire /\ psCall.pc = "data" /\ psCall'.pc = "pre" /\ ReadDr
        /\ psHist'.got = Append(g, d)
    BY <1>9, TakeEffect
  <2>1. psWire' = psWire /\ psCall.pc = "data" /\ psCall'.pc = "pre" /\ ~ psReg'.rbne
        /\ psReg'.flags \subseteq psReg.flags /\ psHist'.got = Append(g, d)
        /\ g \in Seq(Nat) /\ d \in Nat
    BY <2>a, <2>b, ReadDrEffect
  <2>2. psReg.rbne
    BY <2>1 DEF OrderInv
  <2>3. d \notin psWire.bad /\ psReg.flags \subseteq {"ferr"}
        /\ \A i \in 1 .. Len(g) : g[i] \notin psWire.bad
    BY <2>1, <2>2 DEF SuspectInv
  <2> HIDE DEF d, g
  <2>4. Len(g) \in Nat /\ Len(Append(g, d)) = Len(g) + 1 /\ Append(g, d)[Len(g) + 1] = d
        /\ \A i \in 1 .. Len(g) : Append(g, d)[i] = g[i]
    BY <2>1, AppendProperties
  <2>5. \A i \in 1 .. Len(g) + 1 : i \in 1 .. Len(g) \/ i = Len(g) + 1
    BY <2>4
  <2>6. \A i \in 1 .. Len(Append(g, d)) : Append(g, d)[i] \notin psWire.bad
    BY <2>3, <2>4, <2>5
  <2> QED BY <2>1, <2>3, <2>6 DEF SuspectInv
<1>10. CASE FlushCall \/ Flush
  <2>1. UNCHANGED <<psFam, psReg, psWire, psHist>> /\ psCall'.pc \in {"idle", "flush"}
    BY <1>10, FlushEffect
  <2> QED BY <2>1, SuspectQuiet
<1>11. CASE WriteFirst \/ WriteRest
  <2>1. UNCHANGED <<psFam, psReg, psWire>> /\ psCall \in WriteCalls
    BY <1>11, WriteFirstEffect, WriteRestEffect
  <2>2. psCall'.pc \in {"idle", "first", "rest"} /\ psHist'.got = psHist.got
    BY <1>11, <2>1, WriteFirstEffect, WriteRestEffect, TryWriteEffect, IdleShape
  <2> QED BY <2>1, <2>2, SuspectQuiet
<1> QED BY <1>1, <1>2, <1>3, <1>4, <1>5, <1>6, <1>7, <1>8, <1>9, <1>10, <1>11
        DEF PsNext, ReadStep, WriteStep

\* The transmit side keeps its types.
LEMMA NextTxShape ==
  ASSUME PsTypeOK, PsShapes, [PsNext]_psVars
  PROVE  /\ psTx' \in [hold : Nat, shift : Nat, out : Seq(Nat)]
         /\ psHist' \in [got : Seq(Nat), stored : Nat, reported : Nat, dropped : Nat]
<1>1. CASE Shift
  BY <1>1, ShiftEffect DEF Shift, PsShapes
<1>2. CASE TakeByte
  BY <1>2, TakeEffect DEF PsShapes
<1>3. CASE WriteFirst \/ WriteRest
  BY <1>3, WriteFirstEffect, WriteRestEffect, TryWriteEffect DEF PsShapes
<1>4. CASE UNCHANGED <<psTx, psHist>>
  BY <1>4 DEF PsShapes
<1>5. CASE PsArrive \/ ReadReady \/ ReadCall \/ WriteCall \/ UNCHANGED psVars
  BY <1>4, <1>5 DEF PsArrive, ReadReady, ReadCall, WriteCall, psVars
<1>6. CASE Pre \/ ReadByteStatus \/ PsClearErrors \/ AfterOverrun
  BY <1>4, <1>6, PreEffect, StatusEffect, ClearEffect, AfterEffect
<1>7. CASE FlushCall \/ Flush
  BY <1>4, <1>7, FlushEffect
<1> QED BY <1>1, <1>2, <1>3, <1>5, <1>6, <1>7 DEF PsNext, ReadStep, WriteStep

\* A byte put in an empty TDATA is the next in line.
LEMMA TryWriteOrder ==
  ASSUME PsTypeOK, PsShapes, TxOrder, psCall \in WriteCalls, TryWrite
  PROVE  TxOrder'
<1>1. psTx.hold = 0 /\ psTx'.hold = psHist.stored + 1 /\ psTx'.hold # 0
      /\ psTx'.shift = psTx.shift /\ psTx'.out = psTx.out /\ psHist'.stored = psHist.stored + 1
  BY TryWriteEffect
<1>2. Holding = 0 /\ Holding' = 1 /\ Shifting' = Shifting
  BY <1>1 DEF Holding, Shifting
<1>3. Len(psTx.out) \in Nat /\ Shifting \in Nat
  BY DEF PsShapes, Shifting
<1> QED BY <1>1, <1>2, <1>3 DEF TxOrder

\* Bytes leave the shifter in the order they were stored.
LEMMA NextTxOrder ==
  ASSUME PsTypeOK, PsShapes, TxOrder, [PsNext]_psVars
  PROVE  TxOrder'
<1>a. ASSUME UNCHANGED <<psTx, psHist.stored>> PROVE TxOrder'
  BY <1>a DEF TxOrder, Shifting, Holding
<1>1. CASE Shift
  <2> DEFINE out == psTx.out
             b == psTx.shift
  <2>1. psHist' = psHist /\ out \in Seq(Nat) /\ b \in Nat /\ psTx.hold \in Nat
    BY <1>1 DEF Shift, PsShapes
  <2>2. CASE b # 0
    <3>1. psTx'.shift = 0 /\ psTx'.hold = psTx.hold /\ psTx'.out = Append(out, b)
      BY <1>1, <2>2, ShiftEffect
    <3>2. b = Len(out) + 1 /\ \A i \in 1 .. Len(out) : out[i] = i
      BY <2>2 DEF TxOrder
    <3> HIDE DEF out, b
    <3>3. Len(out) \in Nat /\ Len(Append(out, b)) = Len(out) + 1
          /\ Append(out, b)[Len(out) + 1] = b
          /\ \A i \in 1 .. Len(out) : Append(out, b)[i] = out[i]
      BY <2>1, AppendProperties
    <3>4. \A i \in 1 .. Len(out) + 1 : i \in 1 .. Len(out) \/ i = Len(out) + 1
      BY <3>3
    <3>5. \A i \in 1 .. Len(psTx'.out) : psTx'.out[i] = i
      BY <3>1, <3>2, <3>3, <3>4
    <3>6. Shifting = 1 /\ Shifting' = 0 /\ Holding' = Holding /\ Holding \in Nat
      BY <2>2, <3>1 DEF Shifting, Holding, b
    <3>7. psTx.hold # 0 => psTx.hold = Len(out) + 2
      BY <3>3, <3>6 DEF TxOrder, out
    <3>8. psHist.stored = Len(out) + 1 + Holding
      BY <3>6 DEF TxOrder, out
    <3> QED BY <2>1, <3>1, <3>3, <3>5, <3>6, <3>7, <3>8 DEF TxOrder
  <2>3. CASE b = 0
    <3>1. psTx'.shift = psTx.hold /\ psTx'.hold = 0 /\ psTx'.out = out /\ psTx.hold # 0
      BY <1>1, <2>3, ShiftEffect
    <3>2. Shifting = 0 /\ Holding = 1 /\ Shifting' = 1 /\ Holding' = 0
      BY <2>3, <3>1 DEF Shifting, Holding
    <3>3. Len(out) \in Nat
      BY <2>1
    <3> QED BY <2>1, <3>1, <3>2, <3>3 DEF TxOrder
  <2> QED BY <2>2, <2>3
<1>2. CASE WriteFirst \/ WriteRest
  <2>1. psCall \in WriteCalls /\ (TryWrite \/ UNCHANGED <<psTx, psHist.stored>>)
    BY <1>2, WriteFirstEffect, WriteRestEffect
  <2> QED BY <1>a, <2>1, TryWriteOrder
<1>3. CASE PsArrive \/ ReadReady \/ ReadCall \/ WriteCall \/ UNCHANGED psVars
  BY <1>a, <1>3 DEF PsArrive, ReadReady, ReadCall, WriteCall, psVars
<1>4. CASE Pre \/ ReadByteStatus \/ PsClearErrors \/ AfterOverrun
  BY <1>a, <1>4, PreEffect, StatusEffect, ClearEffect, AfterEffect
<1>5. CASE TakeByte
  BY <1>a, <1>5, TakeEffect
<1>6. CASE FlushCall \/ Flush
  BY <1>a, <1>6, FlushEffect
<1> QED BY <1>1, <1>2, <1>3, <1>4, <1>5, <1>6 DEF PsNext, ReadStep, WriteStep

\* A step outside a write leaves its accounts alone.
LEMMA AccountsQuiet ==
  ASSUME TxAccounts, UNCHANGED <<psHist.stored, psHist.reported, psHist.dropped>>,
         psCall.pc \notin {"first", "rest"}, psCall'.pc \notin {"first", "rest"},
         psCnt.tx_timeouts > 0 => psCnt'.tx_timeouts > 0,
         psLast' = psLast \/ psLast'.op # "write"
  PROVE  TxAccounts'
  BY DEF TxAccounts, Reporting, Pending

\* What a write reports was stored, or dropped under a timeout.
LEMMA NextTxAccounts ==
  ASSUME PsTypeOK, PsShapes, TxAccounts, [PsNext]_psVars
  PROVE  TxAccounts'
<1>a. psCall \in ReadCalls => psCall.ticked \in BOOLEAN
  BY DEF ReadCalls
<1>b. psHist.stored \in Nat /\ psHist.dropped \in Nat /\ psHist.reported \in Nat
      /\ PsBytes \in Nat
  BY PsAssumption DEF PsShapes
<1>c. psCall \in WriteCalls => psCall.n \in Nat /\ psCall.len \in Nat
  BY PsAssumption DEF WriteCalls
<1>1. CASE PsArrive \/ Shift \/ UNCHANGED psVars
  <2>1. UNCHANGED <<psHist, psCall, psCnt, psLast>>
    BY <1>1 DEF PsArrive, Shift, psVars
  <2> QED BY <2>1 DEF TxAccounts, Reporting, Pending
<1>2. CASE ReadReady
  <2>1. UNCHANGED <<psHist, psCall, psCnt>> /\ psLast'.op = "ready"
    BY <1>2, ReadyEffect
  <2> QED BY <2>1 DEF TxAccounts, Reporting, Pending
<1>3. CASE ReadCall
  <2>1. UNCHANGED <<psHist, psCnt>> /\ psCall.pc = "idle" /\ psCall'.pc = "pre"
        /\ psLast'.op # "write"
    BY <1>3, ReadCallEffect, IdleShape DEF NoAnswer
  <2> QED BY <2>1, AccountsQuiet
<1>4. CASE Pre
  <2>1. psHist' = psHist /\ psCall.pc = "pre" /\ psCall \in ReadCalls
    BY <1>4, PreEffect
  <2>2. psCall'.pc \in {"status", "idle"} /\ (psLast' = psLast \/ psLast'.op # "write")
    BY <1>a, <1>4, <2>1, PreEffect, ReadReturnEffect
  <2>3. psCnt'.tx_timeouts = psCnt.tx_timeouts
    BY <1>4, PreEffect, TickEffect
  <2> QED BY <2>1, <2>2, <2>3, AccountsQuiet
<1>5. CASE ReadByteStatus
  <2>1. UNCHANGED <<psHist, psCnt>> /\ psCall.pc = "status" /\ psCall \in ReadCalls
    BY <1>5, StatusEffect
  <2>2. psCall'.pc \in {"clear", "data", "idle"} /\ (psLast' = psLast \/ psLast'.op # "write")
    BY <1>a, <1>5, <2>1, StatusEffect, ReadReturnEffect
  <2> QED BY <2>1, <2>2, AccountsQuiet
<1>6. CASE PsClearErrors
  <2>1. psHist' = psHist /\ psCall.pc = "clear"
    BY <1>6, ClearEffect
  <2>2. psCall'.pc \in {"after", "idle"} /\ (psLast' = psLast \/ psLast'.op # "write")
    BY <1>6, ClearEffect, ReadReturnEffect
  <2>3. psCnt'.tx_timeouts = psCnt.tx_timeouts
    BY <1>6, ClearEffect, TickEffect
  <2> QED BY <2>1, <2>2, <2>3, AccountsQuiet
<1>7. CASE AfterOverrun
  <2>1. UNCHANGED <<psHist, psCnt>> /\ psCall.pc = "after" /\ psCall \in ReadCalls
    BY <1>7, AfterEffect
  <2>2. psCall'.pc \in {"data", "idle"} /\ (psLast' = psLast \/ psLast'.op # "write")
    BY <1>a, <1>7, <2>1, AfterEffect, ReadReturnEffect
  <2> QED BY <2>1, <2>2, AccountsQuiet
<1>8. CASE TakeByte
  <2>1. UNCHANGED <<psHist.stored, psHist.reported, psHist.dropped, psCnt, psLast>>
        /\ psCall.pc = "data" /\ psCall'.pc = "pre"
    BY <1>8, TakeEffect
  <2> QED BY <2>1, AccountsQuiet
<1>9. CASE WriteCall
  <2>1. UNCHANGED <<psHist, psCnt>> /\ psCall.pc = "idle" /\ psCall'.n = 0
        /\ psHist.stored + psHist.dropped + psCall'.len <= PsBytes
        /\ psCall'.len \in Nat /\ psLast'.op # "write"
        /\ \/ psCall'.pc = "first" /\ psCall'.len > 0
           \/ psCall'.pc = "rest" /\ psCall'.len = 0
    <3>1. psCall = PsIdle /\ psCall' \in WriteCalls /\ psLast' = NoAnswer
      BY <1>9, WriteCallEffect
    <3>2. psCall'.len \in Nat
      BY <3>1, PsAssumption DEF WriteCalls
    <3>3. psLast'.op # "write" /\ psCall.pc = "idle"
      BY <3>1, IdleShape DEF NoAnswer
    <3> QED BY <1>9, <3>2, <3>3, WriteCallEffect
  <2>2. Reporting = 0 /\ Reporting' = 0 /\ Pending' = psCall'.len
    BY <2>1 DEF Reporting, Pending
  <2> QED BY <1>b, <2>1, <2>2 DEF TxAccounts
<1>10. CASE FlushCall \/ Flush
  <2>1. psHist' = psHist /\ psCall.pc \in {"idle", "flush"} /\ psCall'.pc \in {"idle", "flush"}
    BY <1>10, FlushEffect
  <2>2. psCnt.tx_timeouts > 0 => psCnt'.tx_timeouts > 0
    BY <1>10, FlushEffect, TickEffect
  <2>3. psLast' = psLast \/ psLast'.op # "write"
    BY <1>10, FlushEffect DEF NoAnswer
  <2> QED BY <2>1, <2>2, <2>3, AccountsQuiet
<1>11. ASSUME psCall \in WriteCalls, psCall.pc \in {"first", "rest"}, TryWrite,
              psCall.n < psCall.len
       PROVE  TxAccounts'
  <2>1. psHist'.stored = psHist.stored + 1 /\ psHist'.reported = psHist.reported
        /\ psHist'.dropped = psHist.dropped /\ psCall'.pc = "rest"
        /\ psCall'.n = psCall.n + 1 /\ psCall'.len = psCall.len /\ UNCHANGED <<psCnt, psLast>>
    BY <1>11, TryWriteEffect
  <2>2. psCall.n \in Nat /\ psCall.len \in Nat
    BY <1>c, <1>11
  <2>3. Reporting = psCall.n /\ Reporting' = psCall.n + 1
        /\ Pending = psCall.len - psCall.n /\ Pending' = psCall.len - (psCall.n + 1)
    BY <1>11, <2>1 DEF TxAccounts, Reporting, Pending
  <2>4. psHist'.reported + Reporting' = psHist'.stored + psHist'.dropped
        /\ psHist'.stored + psHist'.dropped + Pending' <= PsBytes
    BY <1>b, <2>1, <2>2, <2>3 DEF TxAccounts
  <2> QED BY <1>11, <2>1, <2>2, <2>4 DEF TxAccounts
<1>12. CASE WriteFirst
  <2>1. psCall \in WriteCalls /\ psCall.pc = "first" /\ psCall.n = 0 /\ psCall.len > 0
        /\ psCall.len \in Nat
    BY <1>c, <1>12, WriteFirstEffect DEF TxAccounts
  <2>2. CASE TryWrite
    BY <1>11, <2>1, <2>2
  <2>3. CASE /\ psCall'.pc = "first" /\ psCall'.n = psCall.n
             /\ psCall'.len = psCall.len /\ UNCHANGED <<psCnt, psHist, psLast>>
    BY <2>1, <2>3 DEF TxAccounts, Reporting, Pending
  <2>4. CASE /\ psCnt' = PsTick("tx_timeouts") /\ psCall' = PsIdle /\ psLast'.op = "write"
             /\ psLast'.len = psCall.len /\ psLast'.n = psCall.len
             /\ psHist'.stored = psHist.stored
             /\ psHist'.reported = psHist.reported + psCall.len
             /\ psHist'.dropped = psHist.dropped + psCall.len
    <3>1. psCall'.pc = "idle" /\ psCnt'.tx_timeouts > 0
      BY <2>4, IdleShape, TickEffect
    <3>2. Reporting = 0 /\ Reporting' = 0 /\ Pending = psCall.len /\ Pending' = 0
      BY <2>1, <3>1 DEF Reporting, Pending
    <3>3. psHist'.reported + Reporting' = psHist'.stored + psHist'.dropped
          /\ psHist'.stored + psHist'.dropped + Pending' <= PsBytes
      BY <1>b, <2>1, <2>4, <3>2 DEF TxAccounts
    <3> QED BY <2>1, <2>4, <3>1, <3>3 DEF TxAccounts
  <2> QED BY <1>12, <2>2, <2>3, <2>4, WriteFirstEffect
<1>13. CASE WriteRest
  <2>1. psCall \in WriteCalls /\ psCall.pc = "rest" /\ psCall.n <= psCall.len
        /\ (psCall.n > 0 \/ psCall.len = 0) /\ psCall.n \in Nat /\ psCall.len \in Nat
    BY <1>c, <1>13, WriteRestEffect DEF TxAccounts
  <2>2. CASE psCall.n < psCall.len /\ TryWrite
    BY <1>11, <2>1, <2>2
  <2>3. CASE /\ psCall' = PsIdle /\ psLast'.op = "write" /\ psCnt' = psCnt
             /\ psLast'.len = psCall.len /\ psLast'.n = psCall.n
             /\ psHist'.stored = psHist.stored
             /\ psHist'.reported = psHist.reported + psCall.n
             /\ psHist'.dropped = psHist.dropped
    <3>1. psCall'.pc = "idle"
      BY <2>3, IdleShape
    <3>2. Reporting = psCall.n /\ Reporting' = 0 /\ Pending = psCall.len - psCall.n
          /\ Pending' = 0
      BY <2>1, <3>1 DEF Reporting, Pending
    <3>3. psHist'.reported + Reporting' = psHist'.stored + psHist'.dropped
          /\ psHist'.stored + psHist'.dropped + Pending' <= PsBytes
      BY <1>b, <2>1, <2>3, <3>2 DEF TxAccounts
    <3> QED BY <2>1, <2>3, <3>1, <3>3 DEF TxAccounts
  <2> QED BY <1>13, <2>2, <2>3, WriteRestEffect
<1> QED BY <1>1, <1>2, <1>3, <1>4, <1>5, <1>6, <1>7, <1>8, <1>9, <1>10, <1>12, <1>13
        DEF PsNext, ReadStep, WriteStep

\* The counters keep their types.
LEMMA NextCnt ==
  ASSUME PsTypeOK, PsShapes, [PsNext]_psVars
  PROVE  psCnt' \in [{"line_errors", "rx_overruns", "tx_timeouts"} -> 0 .. PsCounterMax]
<1>a. ASSUME psCnt' = psCnt
      PROVE  psCnt' \in [{"line_errors", "rx_overruns", "tx_timeouts"} -> 0 .. PsCounterMax]
  BY <1>a DEF PsTypeOK
<1>b. ASSUME NEW name \in {"line_errors", "rx_overruns", "tx_timeouts"}, psCnt' = PsTick(name)
      PROVE  psCnt' \in [{"line_errors", "rx_overruns", "tx_timeouts"} -> 0 .. PsCounterMax]
  BY <1>b, TickEffect
<1>1. CASE PsArrive \/ Shift \/ ReadReady \/ ReadCall \/ WriteCall \/ UNCHANGED psVars
  BY <1>a, <1>1 DEF PsArrive, Shift, ReadReady, ReadCall, WriteCall, psVars
<1>2. CASE Pre
  BY <1>a, <1>b, <1>2, PreEffect
<1>3. CASE ReadByteStatus \/ AfterOverrun \/ TakeByte
  BY <1>a, <1>3, StatusEffect, AfterEffect, TakeEffect
<1>4. CASE PsClearErrors
  BY <1>a, <1>b, <1>4, ClearEffect
<1>5. CASE FlushCall \/ Flush
  BY <1>a, <1>b, <1>5, FlushEffect
<1>6. CASE WriteFirst \/ WriteRest
  <2>1. psCnt' = psCnt \/ psCnt' = PsTick("tx_timeouts")
    BY <1>6, WriteFirstEffect, WriteRestEffect, TryWriteEffect
  <2> QED BY <1>a, <1>b, <2>1
<1> QED BY <1>1, <1>2, <1>3, <1>4, <1>5, <1>6 DEF PsNext, ReadStep, WriteStep

------------------------------------------------------------------------------
(* The invariant.                                                           *)

\* The port starts silent.
LEMMA InitPsIInv == PsInit => PsIInv
<1> SUFFICES ASSUME PsInit PROVE PsIInv
  OBVIOUS
<1> USE PsAssumption
<1>1. PsTypeOK
  BY DEF PsInit, PsTypeOK, ErrorFlags, NoAnswer
<1>2. PsShapes
  BY DEF PsInit, PsShapes, Calls, NoAnswer
<1>3. OrderInv
  BY DEF PsInit, OrderInv, PsIdle
<1>4. ReadyInv
  BY NotReading DEF PsInit, ReadyInv, NoAnswer
<1>9. PsReadyMeansProgress
  BY DEF PsInit, PsReadyMeansProgress, NoAnswer
<1>5. CountInv
  BY DEF PsInit, CountInv, PsIdle
<1>6. SuspectInv
  BY DEF PsInit, SuspectInv, PsIdle
<1>7. TxOrder
  BY DEF PsInit, TxOrder, Shifting, Holding
<1>8. TxAccounts
  BY DEF PsInit, TxAccounts, Reporting, Pending, PsIdle, NoAnswer
<1> QED BY <1>1, <1>2, <1>3, <1>4, <1>5, <1>6, <1>7, <1>8, <1>9 DEF PsIInv, TxInv

\* Every step keeps it.
LEMMA NextPsIInv == PsIInv /\ [PsNext]_psVars => PsIInv'
<1> SUFFICES ASSUME PsIInv, [PsNext]_psVars PROVE PsIInv'
  OBVIOUS
<1>0. PsTypeOK /\ PsShapes /\ OrderInv /\ ReadyInv /\ PsReadyMeansProgress /\ CountInv
      /\ SuspectInv /\ TxOrder /\ TxAccounts
  BY DEF PsIInv, TxInv
<1>1. OrderInv' /\ ReadyInv' /\ PsReadyMeansProgress' /\ CountInv' /\ SuspectInv' /\ TxOrder'
      /\ TxAccounts'
  BY <1>0, NextOrder, NextReady, NextProgress, NextCount, NextSuspect, NextTxOrder, NextTxAccounts
<1>2. PsShapes'
  <2>1. psCall' \in Calls /\ psFam' = psFam
    BY <1>0, NextCalls
  <2>2. AnswerOK
    BY <1>0, NextAnswers
  <2>3. psWire' \in [sent : Nat, bad : SUBSET Nat, lost : SUBSET Nat, raised : Nat]
        /\ (psFam = "F1x0" => psSaw' = {})
    BY <1>0, NextReg
  <2>4. psTx' \in [hold : Nat, shift : Nat, out : Seq(Nat)]
        /\ psHist' \in [got : Seq(Nat), stored : Nat, reported : Nat, dropped : Nat]
    BY <1>0, NextTxShape
  <2> QED BY <2>1, <2>2, <2>3, <2>4 DEF PsShapes, AnswerOK
<1>3. PsTypeOK'
  <2>1. psFam' \in PsFamilies
    BY <1>0, NextCalls DEF PsTypeOK
  <2>2. psReg' \in [data : 0 .. PsChars, rbne : BOOLEAN, flags : SUBSET ErrorFlags]
        /\ psSaw' \subseteq psReg'.flags /\ psWire'.sent \in 0 .. PsChars
    BY <1>0, NextReg
  <2>3. psWire'.bad \subseteq 1 .. PsChars /\ psWire'.lost \subseteq 1 .. PsChars
    BY <1>1, <2>2, PsAssumption DEF OrderInv
  <2>4. psTx'.hold \in 0 .. PsBytes /\ psTx'.shift \in 0 .. PsBytes
    <3>1. Pending' \in Nat
      <4>1. psCall' \in Calls
        BY <1>2 DEF PsShapes
      <4>2. CASE psCall'.pc \in {"first", "rest"}
        <5>1. psCall' \in WriteCalls
          BY <4>1, <4>2 DEF Calls, ReadCalls, WriteCalls, FlushCalls, ReadPcs, PsIdle
        <5>2. psCall'.n \in Nat /\ psCall'.len \in Nat
          BY <5>1, PsAssumption DEF WriteCalls
        <5>3. psCall'.n <= psCall'.len
          BY <1>1, <4>2, <5>2 DEF TxAccounts
        <5> QED BY <4>2, <5>2, <5>3 DEF Pending
      <4> QED BY <4>2 DEF Pending
    <3>2. psTx'.hold \in Nat /\ psTx'.shift \in Nat /\ Len(psTx'.out) \in Nat
          /\ psHist'.dropped \in Nat /\ psHist'.stored \in Nat
      BY <1>2 DEF PsShapes
    <3>3. psHist'.stored <= PsBytes
      BY <1>1, <3>1, <3>2, PsAssumption DEF TxAccounts
    <3>4. psTx'.hold <= psHist'.stored /\ psTx'.shift <= psHist'.stored
      <4>1. Shifting' \in {0, 1} /\ (psTx'.shift = 0 <=> Shifting' = 0)
            /\ Holding' \in {0, 1} /\ (psTx'.hold = 0 <=> Holding' = 0)
        BY DEF Shifting, Holding
      <4> QED BY <1>1, <3>2, <4>1 DEF TxOrder
    <3> QED BY <3>2, <3>3, <3>4, PsAssumption
  <2>5. psCnt' \in [{"line_errors", "rx_overruns", "tx_timeouts"} -> 0 .. PsCounterMax]
    BY <1>0, NextCnt
  <2>6. psLast'.op \in {"none", "ready", "read", "write", "flush"}
    BY <1>0, NextAnswers DEF AnswerOK
  <2> QED BY <2>1, <2>2, <2>3, <2>4, <2>5, <2>6 DEF PsTypeOK
<1> QED BY <1>1, <1>2, <1>3 DEF PsIInv, TxInv

\* The invariant holds in every reachable state.
THEOREM PsIInvAlways == PsSpec => []PsIInv
  BY InitPsIInv, NextPsIInv, PTL DEF PsSpec

------------------------------------------------------------------------------
(* The promises.                                                            *)

\* A sequence whose i-th element is i, and one more byte in line, or none.
LEMMA InLine ==
  ASSUME NEW s \in Seq(Nat), NEW b \in Nat, \A i \in 1 .. Len(s) : s[i] = i,
         b # 0 => b = Len(s) + 1
  PROVE  LET t == s \o (IF b = 0 THEN <<>> ELSE <<b>>)
         IN /\ t \in Seq(Nat) /\ Len(t) = Len(s) + (IF b = 0 THEN 0 ELSE 1)
            /\ \A i \in 1 .. Len(t) : t[i] = i
<1>1. CASE b = 0
  BY <1>1
<1>2. CASE b # 0
  <2>1. s \o <<b>> = Append(s, b)
    OBVIOUS
  <2>2. Append(s, b) \in Seq(Nat) /\ Len(Append(s, b)) = Len(s) + 1
        /\ Append(s, b)[Len(s) + 1] = b /\ \A i \in 1 .. Len(s) : Append(s, b)[i] = s[i]
    BY AppendProperties
  <2>3. \A i \in 1 .. Len(s) + 1 : i \in 1 .. Len(s) \/ i = Len(s) + 1
    OBVIOUS
  <2>4. \A i \in 1 .. Len(Append(s, b)) : Append(s, b)[i] = i
    BY <1>2, <2>2, <2>3
  <2> QED BY <1>2, <2>1, <2>2, <2>4
<1> QED BY <1>1, <1>2

\* What left, what is shifting and what is held are the bytes stored, in order.
LEMMA BytesInLine ==
  ASSUME PsShapes, TxOrder
  PROVE  LET Held(b) == IF b = 0 THEN <<>> ELSE <<b>>
         IN psTx.out \o Held(psTx.shift) \o Held(psTx.hold) = [i \in 1 .. psHist.stored |-> i]
<1> DEFINE s == psTx.out
           t == s \o (IF psTx.shift = 0 THEN <<>> ELSE <<psTx.shift>>)
           u == t \o (IF psTx.hold = 0 THEN <<>> ELSE <<psTx.hold>>)
<1>1. s \in Seq(Nat) /\ psTx.shift \in Nat /\ psTx.hold \in Nat /\ Len(s) \in Nat
  BY DEF PsShapes
<1>2. t \in Seq(Nat) /\ Len(t) = Len(s) + Shifting /\ \A i \in 1 .. Len(t) : t[i] = i
  <2>1. /\ \A i \in 1 .. Len(s) : s[i] = i
        /\ psTx.shift # 0 => psTx.shift = Len(s) + 1
    BY DEF TxOrder
  <2> HIDE DEF s
  <2> QED BY <1>1, <2>1, InLine DEF Shifting
<1>3. psTx.hold # 0 => psTx.hold = Len(t) + 1
  BY <1>2 DEF TxOrder
<1>4. psHist.stored = Len(t) + Holding
  BY <1>2 DEF TxOrder
<1> HIDE DEF s, t
<1>5. u \in Seq(Nat) /\ Len(u) = Len(t) + Holding /\ \A i \in 1 .. Len(u) : u[i] = i
  BY <1>1, <1>2, <1>3, InLine DEF Holding
<1>6. u = [i \in 1 .. psHist.stored |-> i]
  <2> HIDE DEF u
  <2> QED BY <1>4, <1>5
<1> QED BY <1>6 DEF s, t

\* The invariant holds every promise.
LEMMA PsIInvSafe == PsIInv => PsSafe
<1> SUFFICES ASSUME PsIInv PROVE PsSafe
  OBVIOUS
<1>0. PsTypeOK /\ PsShapes /\ OrderInv /\ PsReadyMeansProgress /\ CountInv /\ SuspectInv
      /\ TxOrder /\ TxAccounts
  BY DEF PsIInv, TxInv
<1>1. PsInOrder
  <2>1. Len(psHist.got) \in Nat
    BY <1>0 DEF PsShapes
  <2>2. ASSUME NEW i \in 2 .. Len(psHist.got)
        PROVE  psHist.got[i - 1] < psHist.got[i]
    <3>1. i - 1 \in 1 .. Len(psHist.got) /\ i \in 1 .. Len(psHist.got) /\ i - 1 < i
      BY <2>1
    <3> QED BY <1>0, <3>1 DEF OrderInv
  <2>3. \A i \in 1 .. Len(psHist.got) : psHist.got[i] \notin psWire.lost
    BY <1>0 DEF OrderInv
  <2> QED BY <2>2, <2>3 DEF PsInOrder
<1>2. PsNeverOvercounts
  BY <1>0 DEF CountInv, PsNeverOvercounts
<1>3. PsSuspectDroppedF10x
  BY <1>0 DEF SuspectInv, PsSuspectDroppedF10x
<1>4. PsEveryByteAccounted
  <2>1. psCall = PsIdle => psHist.reported = psHist.stored + psHist.dropped
    <3> SUFFICES ASSUME psCall.pc = "idle"
                 PROVE  psHist.reported = psHist.stored + psHist.dropped
      BY IdleShape
    <3> QED BY <1>0 DEF TxAccounts, Reporting, PsShapes
  <2> QED BY <1>0, <2>1, BytesInLine DEF TxAccounts, PsEveryByteAccounted
<1> QED BY <1>0, <1>1, <1>2, <1>3, <1>4 DEF PsSafe

\* The polled port keeps every promise it makes: characters come in order, none
\* the receiver had refused; read_ready's yes means a byte or a counted condition;
\* each overrun is counted at most once; on F10x no suspect character is handed
\* over before the first overrun; every byte a write reports leaves once, in
\* order, or was dropped under a counted timeout.
THEOREM PolledSafety == PsSpec => []PsSafe
  BY PsIInvAlways, PsIInvSafe, PTL

\* Characters in order, for any stream (usart.rs try_read_byte under
\* serial.rs read).
THEOREM PolledInOrder == PsSpec => []PsInOrder
<1>1. PsSafe => PsInOrder
  BY DEF PsSafe
<1> QED BY <1>1, PolledSafety, PTL

\* The bytes on the line are those stored, in order, none twice and none lost.
THEOREM PolledBytesAccounted == PsSpec => []PsEveryByteAccounted
<1>1. PsSafe => PsEveryByteAccounted
  BY DEF PsSafe
<1> QED BY <1>1, PolledSafety, PTL

---------------------------------------------------------------------------
(* The adapter over two backends (SplitSerial).                           *)

\* The shapes a call takes.
SsReadPcs == {"cond", "line", "snap", "pop"}
SsReads == [pc : SsReadPcs, len : SsBufs, n : Nat, tries : 0 .. 3, ready : BOOLEAN]
SsWrites == [pc : {"first", "rest"}, len : SsBufs \ {0}, n : Nat, left : Nat, ready : BOOLEAN]
SsFlushes == [pc : {"flush"}, left : Nat]
SsCalls == {SsIdle} \cup SsReads \cup SsWrites \cup SsFlushes
SsKindSet == [rx : {"ring", "dma"}, tx : {"polled", "dma"}]
SsRxSet == [q : Seq(Nat), overflow : BOOLEAN, line_error : LineErrors \cup {"none"}]
SsEnvSet == [chars : Nat, faults : Nat, line_errors : Nat, lap_overruns : Nat]
SsTxSet == [pend : Seq(Nat), shift : Nat, fly : BOOLEAN, late : BOOLEAN]
SsOutSet == [stored : Nat, reported : Nat, dropped : Nat, abandoned : Nat, wire : Seq(Nat)]

\* A sequence rises; one lies before another; its elements are c at most.
Rising(s) == \A i, j \in 1 .. Len(s) : i < j => s[i] < s[j]
Ahead(s, t) == \A i \in 1 .. Len(s), j \in 1 .. Len(t) : s[i] < t[j]
UpTo(s, c) == \A i \in 1 .. Len(s) : s[i] <= c

SsShapes ==
  /\ ssKind \in SsKindSet
  /\ ssRx \in SsRxSet /\ ssEnv \in SsEnvSet
  /\ ssTx \in SsTxSet /\ ssOut \in SsOutSet
  /\ ssCnt \in [Counters -> Nat]
  /\ ssGot \in Seq(Nat)
  /\ ssCall \in SsCalls
  /\ ssCall.pc # "idle" => ssLast.op = "none"
  /\ ssLast.op \in {"ready", "wready"} => ssLast.yes \in BOOLEAN

\* The receive backend holds what it can, and later characters than any
\* delivered.
SsRxInv ==
  /\ ssEnv.chars <= SsChars /\ Len(ssRx.q) <= ssEnv.chars
  /\ ssKind.rx = "ring" => Len(ssRx.q) <= SsCap /\ ssCall.pc # "snap"
  /\ ssKind.rx = "dma" => ~ssRx.overflow /\ ssCall.pc \notin {"line", "pop"}
  /\ Rising(ssGot) /\ Ahead(ssGot, ssRx.q) /\ Rising(ssRx.q)
  /\ UpTo(ssGot, ssEnv.chars) /\ UpTo(ssRx.q, ssEnv.chars)

\* What was behind a yes of read_ready is still there when the read looks for
\* it, or the read has counted a condition.
Latched == ssRx.overflow \/ ssRx.line_error # "none"
SsReadyInv ==
  /\ ssLast.op = "ready" /\ ssLast.yes => ssRx.q # <<>> \/ Latched
  /\ ssCall.pc \in {"cond", "line", "snap"} => ssCall.n = 0
  /\ ssCall.pc \in SsReadPcs /\ ssCall.ready /\ ssCall.tries = 0 /\ ssCall.n = 0 =>
       \/ ssRx.q # <<>>
       \/ ssCall.pc = "cond" /\ ssRx.overflow
       \/ ssCall.pc \in {"cond", "line"} /\ ssRx.line_error # "none"

\* A transmit half that said it was ready stays so until the write takes it.
SsWriteInv ==
  /\ ssLast.op = "wready" /\ ssLast.yes => TxReady
  /\ ssCall.pc = "first" => ssCall.n = 0 /\ (ssCall.ready => TxReady)
  /\ ssCall.pc = "rest" => ssCall.n \in 1 .. ssCall.len /\ ssKind.tx = "polled"

\* Bytes leave in the order they were stored.
SsTxOrder ==
  /\ Rising(ssOut.wire) /\ Ahead(ssOut.wire, ssTx.pend) /\ Rising(ssTx.pend)
  /\ UpTo(ssOut.wire, ssOut.stored) /\ UpTo(ssTx.pend, ssOut.stored)
  /\ \A i \in 1 .. Len(ssTx.pend) : ssTx.pend[i] > 0
  /\ ssTx.shift <= ssOut.stored
  /\ ssTx.shift # 0 =>
       Ahead(ssOut.wire, <<ssTx.shift>>) /\ Ahead(<<ssTx.shift>>, ssTx.pend)

\* Every byte stored is on its way, sent or abandoned; what is reported was
\* stored or dropped, up to the write in progress.
SsShifting == IF ssTx.shift # 0 THEN 1 ELSE 0
SsReporting == IF ssCall.pc = "rest" THEN ssCall.n ELSE 0
SsPending == IF ssCall.pc \in {"first", "rest"} THEN ssCall.len - ssCall.n ELSE 0
SsTxAccounts ==
  /\ Len(ssTx.pend) <= (IF ssKind.tx = "polled" THEN 1 ELSE SsDmaBuf)
  /\ ssKind.tx = "dma" /\ ~ssTx.fly => ssTx.pend = <<>>
  /\ Len(ssOut.wire) + Len(ssTx.pend) + SsShifting + ssOut.abandoned = ssOut.stored
  /\ ssOut.reported + SsReporting = ssOut.stored + ssOut.dropped
  /\ ssOut.stored + ssOut.dropped + SsPending <= SsBytes
  /\ ssOut.dropped > 0 => ssCnt["drops"] > 0
  /\ ssOut.abandoned > 0 => ssCnt["abandons"] > 0

SsIInv ==
  /\ SsShapes /\ SsRxInv /\ SsCountedOnce /\ SsReadyInv /\ SsEmptyMeansEmpty /\ SsReadyHonest
  /\ SsWriteInv /\ SsWriteHonest /\ SsTxOrder /\ SsTxAccounts

------------------------------------------------------------------------------
(* What each step does to the fields.                                       *)

\* The lengths the calls are made of.
LEMMA SsLens ==
  ASSUME SsAssumption
  PROVE  /\ ssCall \in SsReads =>
              ssCall.len \in Nat /\ ssCall.n \in Nat /\ ssCall.tries \in 0 .. 3
         /\ ssCall \in SsWrites => ssCall.len \in Nat \ {0} /\ ssCall.n \in Nat
<1>1. SsBufs \subseteq Nat
  BY DEF SsAssumption
<1>2. ssCall \in SsReads => ssCall.len \in SsBufs /\ ssCall.n \in Nat /\ ssCall.tries \in 0 .. 3
  BY DEF SsReads
<1>3. ssCall \in SsWrites => ssCall.len \in SsBufs \ {0} /\ ssCall.n \in Nat
  BY DEF SsWrites
<1> QED BY <1>1, <1>2, <1>3

\* A call between its steps is told apart by where it is.
LEMMA SsCallShape ==
  ASSUME ssCall \in SsCalls
  PROVE  /\ ssCall.pc \in SsReadPcs => ssCall \in SsReads
         /\ ssCall.pc \in {"first", "rest"} => ssCall \in SsWrites
         /\ ssCall.pc = "flush" => ssCall \in SsFlushes
         /\ ssCall.pc \in {"idle", "first", "rest", "flush"} \cup SsReadPcs
         /\ ssCall.pc = "idle" <=> ssCall = SsIdle
  BY DEF SsCalls, SsReads, SsWrites, SsFlushes, SsReadPcs, SsIdle

\* An idle port is in no call.
LEMMA SsIdleShape == SsIdle.pc = "idle" /\ SsIdle \in SsCalls
  BY DEF SsIdle, SsCalls

\* A counter ticks, and moves no other.
LEMMA SsTickEffect ==
  ASSUME ssCnt \in [Counters -> Nat], NEW c \in Counters, ssCnt' = SsTick(c)
  PROVE  /\ ssCnt' \in [Counters -> Nat] /\ ssCnt'[c] = ssCnt[c] + 1
         /\ \A o \in Counters \ {c} : ssCnt'[o] = ssCnt[o]
  BY DEF SsTick

\* A character arrives: refused by a full ring, or queued.
LEMMA RxCharEffect ==
  ASSUME SsShapes, RxChar
  PROVE  /\ ssRx' \in SsRxSet /\ ssEnv' \in SsEnvSet
         /\ ssEnv.chars < SsChars /\ ssEnv'.chars = ssEnv.chars + 1
         /\ ssEnv'.line_errors = ssEnv.line_errors /\ ssRx'.line_error = ssRx.line_error
         /\ \/ /\ ssKind.rx = "ring" /\ Len(ssRx.q) = SsCap
               /\ ssRx'.q = ssRx.q /\ ssRx'.overflow
               /\ ssEnv'.lap_overruns = IF ssRx.overflow THEN ssEnv.lap_overruns
                                        ELSE ssEnv.lap_overruns + 1
            \/ /\ ssKind.rx = "ring" => Len(ssRx.q) # SsCap
               /\ ssRx'.q = Append(ssRx.q, ssEnv.chars + 1)
               /\ ssRx'.overflow <=> ssRx.overflow
               /\ ssEnv'.lap_overruns = IF ssKind.rx = "dma" /\ Len(ssRx.q) = SsCap
                                        THEN ssEnv.lap_overruns + 1 ELSE ssEnv.lap_overruns
         /\ UNCHANGED <<ssKind, ssTx, ssCall, ssCnt, ssGot, ssOut, ssLast>>
<1> DEFINE c == ssEnv.chars + 1
           full == ssKind.rx = "ring" /\ Len(ssRx.q) = SsCap
           laps == ssKind.rx = "dma" /\ Len(ssRx.q) = SsCap
           lap == IF laps \/ (full /\ ~ssRx.overflow) THEN ssEnv.lap_overruns + 1
                  ELSE ssEnv.lap_overruns
           q == Append(ssRx.q, c)
<1>1. ssRx \in SsRxSet /\ ssEnv \in SsEnvSet
  BY DEF SsShapes
<1>2. /\ ssRx' = IF full THEN [ssRx EXCEPT !.overflow = TRUE] ELSE [ssRx EXCEPT !.q = q]
      /\ ssEnv' = [ssEnv EXCEPT !.chars = c, !.lap_overruns = lap]
  BY <1>1 DEF RxChar, SsEnvSet
<1>3. c \in Nat /\ lap \in Nat
  BY <1>1 DEF SsEnvSet
<1>4. q \in Seq(Nat)
  BY <1>1, <1>3 DEF SsRxSet
<1> HIDE DEF c, lap, q
<1>5. ssEnv' \in SsEnvSet /\ ssEnv'.chars = c /\ ssEnv'.lap_overruns = lap
      /\ ssEnv'.line_errors = ssEnv.line_errors
  BY <1>1, <1>2, <1>3 DEF SsEnvSet
<1>6. CASE full
  <2>1. ssRx' \in SsRxSet /\ ssRx'.q = ssRx.q /\ ssRx'.overflow /\ ssRx'.line_error = ssRx.line_error
    BY <1>1, <1>2, <1>6 DEF SsRxSet
  <2> QED BY <1>5, <1>6, <2>1 DEF RxChar, c, lap
<1>7. CASE ~full
  <2>1. ssRx' \in SsRxSet /\ ssRx'.q = q /\ (ssRx'.overflow <=> ssRx.overflow)
        /\ ssRx'.line_error = ssRx.line_error
    BY <1>1, <1>2, <1>4, <1>7 DEF SsRxSet
  <2> QED BY <1>5, <1>7, <2>1 DEF RxChar, c, lap, q
<1> QED BY <1>6, <1>7

\* A line error latches, or folds into the one that is.
LEMMA RxFaultEffect ==
  ASSUME SsShapes, RxFault
  PROVE  /\ ssRx' \in SsRxSet /\ ssEnv' \in SsEnvSet
         /\ ssEnv'.chars = ssEnv.chars
         /\ ssRx'.q = ssRx.q /\ (ssRx'.overflow <=> ssRx.overflow)
         /\ \/ /\ ssRx.line_error # "none" /\ ssRx'.line_error = ssRx.line_error
               /\ ssEnv'.line_errors = ssEnv.line_errors
               /\ ssEnv'.lap_overruns = ssEnv.lap_overruns
            \/ /\ ssRx.line_error = "none" /\ ssRx'.line_error # "none"
               /\ ssEnv'.line_errors = IF CounterOf(ssRx'.line_error) = "line_errors"
                                       THEN ssEnv.line_errors + 1 ELSE ssEnv.line_errors
               /\ ssEnv'.lap_overruns = IF CounterOf(ssRx'.line_error) = "lap_overruns"
                                        THEN ssEnv.lap_overruns + 1 ELSE ssEnv.lap_overruns
         /\ UNCHANGED <<ssKind, ssTx, ssCall, ssCnt, ssGot, ssOut, ssLast>>
<1>1. ssRx \in SsRxSet /\ ssEnv \in SsEnvSet
  BY DEF SsShapes
<1>2. PICK code \in LineErrors :
        LET first == ssRx.line_error = "none" IN
        /\ ssRx' = IF first THEN [ssRx EXCEPT !.line_error = code] ELSE ssRx
        /\ ssEnv' = [ssEnv EXCEPT !.faults = @ + 1,
                       ![CounterOf(code)] = IF first THEN @ + 1 ELSE @]
  BY DEF RxFault
<1>3. CounterOf(code) \in {"line_errors", "lap_overruns"}
  BY DEF CounterOf
<1>4. code # "none" /\ code \in LineErrors \cup {"none"}
  BY DEF LineErrors
<1> DEFINE f == ssEnv.faults + 1
           e == ssEnv.line_errors + 1
           o == ssEnv.lap_overruns + 1
<1>7. f \in Nat /\ e \in Nat /\ o \in Nat
  BY <1>1 DEF SsEnvSet
<1>5. CASE ssRx.line_error = "none"
  <2>1. ssRx' = [ssRx EXCEPT !.line_error = code]
        /\ ssEnv' = [ssEnv EXCEPT !.faults = @ + 1, ![CounterOf(code)] = @ + 1]
    BY <1>2, <1>5
  <2>2. ssRx' \in SsRxSet /\ ssRx'.q = ssRx.q /\ (ssRx'.overflow <=> ssRx.overflow)
        /\ ssRx'.line_error = code
    BY <1>1, <1>4, <2>1 DEF SsRxSet
  <2>3. CASE CounterOf(code) = "line_errors"
    <3>1. ssEnv' = [ssEnv EXCEPT !.faults = f, !.line_errors = e]
      BY <1>1, <2>1, <2>3 DEF SsEnvSet
    <3> HIDE DEF f, e
    <3>2. ssEnv' \in SsEnvSet /\ ssEnv'.chars = ssEnv.chars
          /\ ssEnv'.line_errors = e /\ ssEnv'.lap_overruns = ssEnv.lap_overruns
      BY <1>1, <1>7, <3>1 DEF SsEnvSet
    <3> QED BY <1>4, <1>5, <2>2, <2>3, <3>2 DEF RxFault, e
  <2>4. CASE CounterOf(code) = "lap_overruns"
    <3>1. ssEnv' = [ssEnv EXCEPT !.faults = f, !.lap_overruns = o]
      BY <1>1, <2>1, <2>4 DEF SsEnvSet
    <3> HIDE DEF f, o
    <3>2. ssEnv' \in SsEnvSet /\ ssEnv'.chars = ssEnv.chars
          /\ ssEnv'.line_errors = ssEnv.line_errors /\ ssEnv'.lap_overruns = o
      BY <1>1, <1>7, <3>1 DEF SsEnvSet
    <3> QED BY <1>4, <1>5, <2>2, <2>4, <3>2 DEF RxFault, o
  <2> QED BY <1>3, <2>3, <2>4
<1>6. CASE ssRx.line_error # "none"
  <2>1. ssRx' = ssRx /\ ssEnv' = [ssEnv EXCEPT !.faults = @ + 1, ![CounterOf(code)] = @]
    BY <1>2, <1>6
  <2>2. ssEnv' = [ssEnv EXCEPT !.faults = f]
    <3>1. CASE CounterOf(code) = "line_errors"
      BY <1>1, <2>1, <3>1 DEF SsEnvSet
    <3>2. CASE CounterOf(code) = "lap_overruns"
      BY <1>1, <2>1, <3>2 DEF SsEnvSet
    <3> QED BY <1>3, <3>1, <3>2
  <2> HIDE DEF f
  <2>3. ssEnv' \in SsEnvSet /\ ssEnv'.chars = ssEnv.chars
        /\ ssEnv'.line_errors = ssEnv.line_errors
        /\ ssEnv'.lap_overruns = ssEnv.lap_overruns
    BY <1>1, <1>7, <2>2 DEF SsEnvSet
  <2> QED BY <1>1, <1>6, <2>1, <2>3 DEF RxFault
<1> QED BY <1>5, <1>6

\* The wire takes a byte, the shifter the next, a transfer ends or is late.
LEMMA TxWireEffect ==
  ASSUME SsShapes, TxWire
  PROVE  /\ ssTx' \in SsTxSet /\ ssOut' \in SsOutSet
         /\ ssOut'.stored = ssOut.stored /\ ssOut'.reported = ssOut.reported
         /\ ssOut'.dropped = ssOut.dropped /\ ssOut'.abandoned = ssOut.abandoned
         /\ \/ /\ ssTx.shift # 0 /\ ssTx'.shift = 0 /\ ssTx'.pend = ssTx.pend
               /\ (ssTx'.fly <=> ssTx.fly) /\ (ssTx'.late <=> ssTx.late)
               /\ ssOut'.wire = Append(ssOut.wire, ssTx.shift)
            \/ /\ ssTx.shift = 0 /\ ssTx.pend # <<>>
               /\ ssTx'.shift = Head(ssTx.pend) /\ ssTx'.pend = Tail(ssTx.pend)
               /\ (ssTx'.fly <=> ssTx.fly) /\ (ssTx'.late <=> ssTx.late) /\ ssOut'.wire = ssOut.wire
            \/ /\ ssTx'.shift = ssTx.shift /\ ssTx'.pend = ssTx.pend /\ ssOut'.wire = ssOut.wire
               /\ \/ ssTx.fly /\ ssTx.pend = <<>> /\ ~ssTx'.fly
                  \/ (ssTx'.fly <=> ssTx.fly) /\ ssTx'.late
         /\ UNCHANGED <<ssKind, ssRx, ssEnv, ssCall, ssCnt, ssGot, ssLast>>
<1>1. ssTx \in SsTxSet /\ ssOut \in SsOutSet
  BY DEF SsShapes
<1>2. CASE ssTx.shift # 0 /\ ssTx' = [ssTx EXCEPT !.shift = 0]
           /\ ssOut' = [ssOut EXCEPT !.wire = Append(@, ssTx.shift)]
  <2> DEFINE w == Append(ssOut.wire, ssTx.shift)
  <2>1. w \in Seq(Nat)
    BY <1>1 DEF SsTxSet, SsOutSet
  <2>2. ssOut' = [ssOut EXCEPT !.wire = w]
    BY <1>1, <1>2 DEF SsOutSet
  <2> HIDE DEF w
  <2>3. ssOut' \in SsOutSet /\ ssOut'.wire = w
        /\ ssOut'.stored = ssOut.stored /\ ssOut'.reported = ssOut.reported
        /\ ssOut'.dropped = ssOut.dropped /\ ssOut'.abandoned = ssOut.abandoned
    BY <1>1, <2>1, <2>2 DEF SsOutSet
  <2>4. ssTx' \in SsTxSet /\ ssTx'.shift = 0 /\ ssTx'.pend = ssTx.pend
        /\ (ssTx'.fly <=> ssTx.fly) /\ (ssTx'.late <=> ssTx.late)
    BY <1>1, <1>2 DEF SsTxSet
  <2> QED BY <1>2, <2>3, <2>4 DEF TxWire, w
<1>3. CASE ssTx.shift = 0 /\ ssTx.pend # <<>>
           /\ ssTx' = [ssTx EXCEPT !.shift = Head(ssTx.pend), !.pend = Tail(@)] /\ ssOut' = ssOut
  <2> DEFINE h == Head(ssTx.pend)
             t == Tail(ssTx.pend)
  <2>1. h \in Nat /\ t \in Seq(Nat)
    BY <1>1, <1>3 DEF SsTxSet
  <2>2. ssTx' = [ssTx EXCEPT !.shift = h, !.pend = t]
    BY <1>1, <1>3 DEF SsTxSet
  <2> HIDE DEF h, t
  <2>3. ssTx' \in SsTxSet /\ ssTx'.shift = h /\ ssTx'.pend = t
        /\ (ssTx'.fly <=> ssTx.fly) /\ (ssTx'.late <=> ssTx.late)
    BY <1>1, <2>1, <2>2 DEF SsTxSet
  <2> QED BY <1>1, <1>3, <2>3 DEF TxWire, h, t
<1>4. CASE ssTx.fly /\ ssTx.pend = <<>> /\ ssTx' = [ssTx EXCEPT !.fly = FALSE] /\ ssOut' = ssOut
  <2>1. ssTx' \in SsTxSet /\ ssTx'.shift = ssTx.shift /\ ssTx'.pend = ssTx.pend /\ ~ssTx'.fly
    BY <1>1, <1>4 DEF SsTxSet
  <2> QED BY <1>1, <1>4, <2>1 DEF TxWire
<1>5. CASE ssTx.fly /\ ~ssTx.late /\ ssTx' = [ssTx EXCEPT !.late = TRUE] /\ ssOut' = ssOut
  <2>1. ssTx' \in SsTxSet /\ ssTx'.shift = ssTx.shift /\ ssTx'.pend = ssTx.pend
        /\ (ssTx'.fly <=> ssTx.fly) /\ ssTx'.late
    BY <1>1, <1>5 DEF SsTxSet
  <2> QED BY <1>1, <1>5, <2>1 DEF TxWire
<1> QED BY <1>2, <1>3, <1>4, <1>5 DEF TxWire

\* read_ready looks at the queue and the latches.
LEMMA SsReadReadyEffect ==
  ASSUME SsShapes, SsReadReady
  PROVE  /\ ssCall = SsIdle /\ ssLast'.op = "ready" /\ ssLast'.yes \in BOOLEAN
         /\ ssLast'.yes <=> (ssRx.q # <<>> \/ Latched)
         /\ UNCHANGED <<ssKind, ssRx, ssEnv, ssTx, ssCall, ssCnt, ssGot, ssOut>>
<1> DEFINE yes == ssRx.q # <<>> \/ ssRx.overflow \/ ssRx.line_error # "none"
<1>1. yes \in BOOLEAN
  BY DEF SsShapes, SsRxSet
<1>2. ssLast' = [op |-> "ready", yes |-> yes]
  BY DEF SsReadReady
<1> HIDE DEF yes
<1>3. ssLast'.op = "ready" /\ ssLast'.yes \in BOOLEAN /\ (ssLast'.yes <=> yes)
  BY <1>1, <1>2
<1> QED BY <1>3 DEF SsReadReady, yes, Latched

\* A read begins.
LEMMA SsReadCallEffect ==
  ASSUME SsShapes, SsReadCall
  PROVE  /\ ssCall = SsIdle /\ ssCall' \in SsReads /\ ssCall'.pc = "cond"
         /\ ssCall'.n = 0 /\ ssCall'.tries = 0
         /\ ssCall'.ready => ssLast.op = "ready" /\ ssLast.yes
         /\ ssLast'.op = "none"
         /\ UNCHANGED <<ssKind, ssRx, ssEnv, ssTx, ssCnt, ssGot, ssOut>>
<1> DEFINE ready == ssLast.op = "ready" /\ ssLast.yes
<1>1. ready \in BOOLEAN
  BY DEF SsShapes
<1>2. PICK len \in SsBufs :
        ssCall' = [pc |-> "cond", len |-> len, n |-> 0, tries |-> 0, ready |-> ready]
  BY DEF SsReadCall
<1>3. ssCall'.ready <=> ready
  BY <1>2
<1> HIDE DEF ready
<1>4. ssCall' \in SsReads /\ ssCall'.pc = "cond" /\ ssCall'.n = 0 /\ ssCall'.tries = 0
  BY <1>1, <1>2 DEF SsReads, SsReadPcs
<1>5. ssLast'.op = "none"
  BY DEF SsReadCall
<1> QED BY <1>3, <1>4, <1>5 DEF SsReadCall, ready

\* A read ends.
LEMMA SsReadReturnEffect ==
  ASSUME NEW t \in Nat, SsReadReturn(t)
  PROVE  /\ ssCall' = SsIdle /\ ssCall'.pc = "idle"
         /\ ssLast'.op = "read" /\ ssLast'.len = ssCall.len /\ ssLast'.n = ssCall.n
         /\ ssLast'.tries = t /\ ssLast'.ready = ssCall.ready
         /\ ssLast'.left <=> (ssRx.q # <<>>)
  BY SsIdleShape DEF SsReadReturn

\* What a condition that surfaces does: the read tries again, or has tried
\* four times.
Retried ==
  \/ /\ ssCall' \in SsReads /\ ssCall'.pc = "cond" /\ ssCall'.n = ssCall.n
     /\ ssCall'.tries = ssCall.tries + 1 /\ ssLast' = ssLast
  \/ /\ ssCall' = SsIdle /\ ssCall'.pc = "idle"
     /\ ssLast'.op = "read" /\ ssLast'.tries = 4

\* What surfacing a condition leaves.
LEMMA SurfaceEffect ==
  ASSUME SsShapes, ssCall \in SsReads, NEW c \in Counters, Surface(c)
  PROVE  /\ ssCnt' \in [Counters -> Nat] /\ ssCnt'[c] = ssCnt[c] + 1
         /\ \A o \in Counters \ {c} : ssCnt'[o] = ssCnt[o]
         /\ ssGot' = ssGot /\ Retried
<1>1. ssCnt' \in [Counters -> Nat] /\ ssCnt'[c] = ssCnt[c] + 1
      /\ (\A o \in Counters \ {c} : ssCnt'[o] = ssCnt[o]) /\ ssGot' = ssGot
  BY SsTickEffect DEF Surface, SsShapes
<1>2. CASE ssCall.tries = 3
  <2>1. SsReadReturn(4)
    BY <1>2 DEF Surface
  <2> QED BY <1>1, <2>1, SsReadReturnEffect DEF Retried
<1>3. CASE ssCall.tries # 3
  <2>1. ssCall' = [ssCall EXCEPT !.tries = ssCall.tries + 1, !.pc = "cond"] /\ ssLast' = ssLast
    BY <1>3 DEF Surface, SsReads
  <2>2. ssCall.tries + 1 \in 0 .. 3 /\ ssCall.tries \in 0 .. 3
    BY <1>3 DEF SsReads
  <2>3. ssCall' \in SsReads
    BY <2>1, <2>2 DEF SsReads, SsReadPcs
  <2>4. ssCall'.pc = "cond" /\ ssCall'.n = ssCall.n /\ ssCall'.tries = ssCall.tries + 1
    BY <2>1 DEF SsReads
  <2> QED BY <1>1, <2>1, <2>3, <2>4 DEF Retried
<1> QED BY <1>2, <1>3

\* BufferedRx looks at its overflow latch.
LEMMA RingOverflowEffect ==
  ASSUME SsShapes, RingOverflow
  PROVE  /\ ssCall \in SsReads /\ ssCall.pc = "cond" /\ ssKind.rx = "ring"
         /\ ssRx' \in SsRxSet /\ ssCnt' \in [Counters -> Nat]
         /\ ssRx'.q = ssRx.q /\ ssRx'.line_error = ssRx.line_error /\ ~ssRx'.overflow
         /\ ssGot' = ssGot
         /\ \/ /\ ssRx.overflow /\ ssCnt'["lap_overruns"] = ssCnt["lap_overruns"] + 1
               /\ \A o \in Counters \ {"lap_overruns"} : ssCnt'[o] = ssCnt[o]
               /\ Retried
            \/ /\ ~ssRx.overflow /\ ssCnt' = ssCnt /\ ssLast' = ssLast
               /\ ssCall' \in SsReads /\ ssCall'.pc = "line" /\ ssCall'.n = ssCall.n
               /\ ssCall'.tries = ssCall.tries /\ (ssCall'.ready <=> ssCall.ready)
         /\ UNCHANGED <<ssKind, ssEnv, ssTx, ssOut>>
<1>1. ssCall \in SsReads /\ ssCall.pc = "cond" /\ ssKind.rx = "ring" /\ ssRx \in SsRxSet
  BY SsCallShape DEF RingOverflow, SsAt, SsReadPcs, SsShapes
<1>2. CASE ssRx.overflow
  <2>1. ssRx' = [ssRx EXCEPT !.overflow = FALSE] /\ Surface("lap_overruns")
    BY <1>2 DEF RingOverflow
  <2>2. ssRx' \in SsRxSet /\ ssRx'.q = ssRx.q /\ ssRx'.line_error = ssRx.line_error
        /\ ~ssRx'.overflow
    BY <1>1, <2>1 DEF SsRxSet
  <2>3. "lap_overruns" \in Counters
    BY DEF Counters
  <2> QED BY <1>1, <1>2, <2>1, <2>2, <2>3, SurfaceEffect DEF RingOverflow
<1>3. CASE ~ssRx.overflow
  <2>1. ssCall' = [ssCall EXCEPT !.pc = "line"] /\ UNCHANGED <<ssRx, ssCnt, ssGot, ssLast>>
    BY <1>3 DEF RingOverflow
  <2>2. ssCall' \in SsReads /\ ssCall'.pc = "line" /\ ssCall'.n = ssCall.n
        /\ ssCall'.tries = ssCall.tries /\ (ssCall'.ready <=> ssCall.ready)
    BY <1>1, <2>1 DEF SsReads, SsReadPcs
  <2> QED BY <1>1, <1>3, <2>1, <2>2 DEF RingOverflow, SsShapes
<1> QED BY <1>2, <1>3

\* Either backend looks at its line error; that of the DMA drops what is unread.
LEMMA LineErrorLookEffect ==
  ASSUME SsShapes, LineErrorLook
  PROVE  /\ ssCall \in SsReads /\ (ssCall.pc = "line" \/ (ssCall.pc = "cond" /\ ssKind.rx = "dma"))
         /\ ssRx' \in SsRxSet /\ ssCnt' \in [Counters -> Nat]
         /\ (ssRx'.overflow <=> ssRx.overflow) /\ ssRx'.line_error = "none" /\ ssGot' = ssGot
         /\ \/ /\ ssRx.line_error # "none"
               /\ ssRx'.q = IF ssKind.rx = "dma" THEN <<>> ELSE ssRx.q
               /\ ssCnt'[CounterOf(ssRx.line_error)] = ssCnt[CounterOf(ssRx.line_error)] + 1
               /\ \A o \in Counters \ {CounterOf(ssRx.line_error)} : ssCnt'[o] = ssCnt[o]
               /\ Retried
            \/ /\ ssRx.line_error = "none" /\ ssRx' = ssRx /\ ssCnt' = ssCnt /\ ssLast' = ssLast
               /\ ssCall' \in SsReads
               /\ ssCall'.pc = IF ssKind.rx = "dma" THEN "snap" ELSE "pop"
               /\ ssCall'.n = ssCall.n
               /\ ssCall'.tries = ssCall.tries /\ (ssCall'.ready <=> ssCall.ready)
         /\ UNCHANGED <<ssKind, ssEnv, ssTx, ssOut>>
<1>1. ssCall \in SsReads /\ (ssCall.pc = "line" \/ (ssCall.pc = "cond" /\ ssKind.rx = "dma"))
      /\ ssRx \in SsRxSet
  BY SsCallShape DEF LineErrorLook, SsAt, SsReadPcs, SsShapes
<1>2. CASE ssRx.line_error # "none"
  <2> DEFINE q == IF ssKind.rx = "dma" THEN <<>> ELSE ssRx.q
             c == CounterOf(ssRx.line_error)
  <2>1. ssRx' = [ssRx EXCEPT !.line_error = "none", !.q = q] /\ Surface(c)
    BY <1>1, <1>2 DEF LineErrorLook, SsRxSet
  <2>2. q \in Seq(Nat)
    BY <1>1 DEF SsRxSet
  <2>3. c \in Counters
    BY DEF Counters, CounterOf
  <2> HIDE DEF q, c
  <2>4. ssRx' \in SsRxSet /\ ssRx'.q = q /\ ssRx'.line_error = "none"
        /\ (ssRx'.overflow <=> ssRx.overflow)
    BY <1>1, <2>1, <2>2 DEF SsRxSet
  <2>5. /\ ssCnt' \in [Counters -> Nat] /\ ssCnt'[c] = ssCnt[c] + 1
        /\ \A o \in Counters \ {c} : ssCnt'[o] = ssCnt[o]
        /\ ssGot' = ssGot /\ Retried
    BY <1>1, <2>1, <2>3, SurfaceEffect
  <2> QED BY <1>1, <1>2, <2>4, <2>5 DEF LineErrorLook, q, c
<1>3. CASE ssRx.line_error = "none"
  <2> DEFINE pc == IF ssKind.rx = "dma" THEN "snap" ELSE "pop"
  <2>1. ssCall' = [ssCall EXCEPT !.pc = pc] /\ UNCHANGED <<ssRx, ssCnt, ssGot, ssLast>>
    BY <1>3 DEF LineErrorLook
  <2>2. pc \in SsReadPcs
    BY DEF SsReadPcs
  <2> HIDE DEF pc
  <2>3. ssCall' \in SsReads /\ ssCall'.pc = pc /\ ssCall'.n = ssCall.n
        /\ ssCall'.tries = ssCall.tries /\ (ssCall'.ready <=> ssCall.ready)
    BY <1>1, <2>1, <2>2 DEF SsReads
  <2> QED BY <1>1, <1>3, <2>1, <2>3 DEF LineErrorLook, SsShapes, pc
<1> QED BY <1>2, <1>3

\* RingBufferedRx takes a snapshot: a lap drops what is unread, else the bytes
\* that fit are delivered.
Fits == IF Len(ssRx.q) < ssCall.len THEN Len(ssRx.q) ELSE ssCall.len
\* What the look before a read leaves.
LEMMA SnapshotLookEffect ==
  ASSUME SsAssumption, SsShapes, SnapshotLook
  PROVE  /\ ssCall \in SsReads /\ ssCall.pc = "snap"
         /\ ssRx' \in SsRxSet /\ ssCnt' \in [Counters -> Nat] /\ ssGot' \in Seq(Nat)
         /\ (ssRx'.overflow <=> ssRx.overflow) /\ ssRx'.line_error = ssRx.line_error
         /\ \/ /\ Lapped /\ ssRx'.q = <<>> /\ ssGot' = ssGot
               /\ ssCnt'["lap_overruns"] = ssCnt["lap_overruns"] + 1
               /\ \A o \in Counters \ {"lap_overruns"} : ssCnt'[o] = ssCnt[o]
               /\ Retried
            \/ /\ ~Lapped /\ Fits \in 0 .. Len(ssRx.q)
               /\ ssGot' = ssGot \o SubSeq(ssRx.q, 1, Fits)
               /\ ssRx'.q = SubSeq(ssRx.q, Fits + 1, Len(ssRx.q))
               /\ ssCnt' = ssCnt /\ ssCall' = SsIdle /\ ssCall'.pc = "idle"
               /\ ssLast'.op = "read" /\ ssLast'.len = ssCall.len /\ ssLast'.n = Fits
               /\ ssLast'.tries = ssCall.tries /\ ssLast'.ready = ssCall.ready
               /\ ssLast'.left <=> (Fits < Len(ssRx.q))
         /\ UNCHANGED <<ssKind, ssEnv, ssTx, ssOut>>
<1>1. ssCall \in SsReads /\ ssCall.pc = "snap" /\ ssRx \in SsRxSet
  BY SsCallShape DEF SnapshotLook, SsAt, SsReadPcs, SsShapes
<1>2. CASE Lapped
  <2>1. ssRx' = [ssRx EXCEPT !.q = <<>>] /\ Surface("lap_overruns")
    BY <1>2 DEF SnapshotLook
  <2>2. <<>> \in Seq(Nat) /\ "lap_overruns" \in Counters
    BY DEF Counters
  <2>3. ssRx' \in SsRxSet /\ ssRx'.q = <<>> /\ ssRx'.line_error = ssRx.line_error
        /\ (ssRx'.overflow <=> ssRx.overflow)
    BY <1>1, <2>1, <2>2 DEF SsRxSet
  <2> QED BY <1>1, <1>2, <2>1, <2>2, <2>3, SurfaceEffect DEF SnapshotLook, SsShapes
<1>3. CASE ~Lapped
  <2> DEFINE q == SubSeq(ssRx.q, Fits + 1, Len(ssRx.q))
             last == [op |-> "read", len |-> ssCall.len, n |-> Fits, tries |-> ssCall.tries,
                      ready |-> ssCall.ready, left |-> Fits < Len(ssRx.q)]
  <2>1. /\ ssGot' = ssGot \o SubSeq(ssRx.q, 1, Fits)
        /\ ssRx' = [ssRx EXCEPT !.q = q]
        /\ ssCall' = SsIdle /\ UNCHANGED ssCnt /\ ssLast' = last
    BY <1>1, <1>3 DEF SnapshotLook, Fits, SsRxSet
  <2>2. ssCall.len \in Nat /\ Len(ssRx.q) \in Nat
    BY <1>1, SsLens DEF SsRxSet
  <2>3. Fits \in 0 .. Len(ssRx.q)
    BY <2>2 DEF Fits
  <2>4. ssRx.q \in Seq(Nat) /\ q \in Seq(Nat) /\ SubSeq(ssRx.q, 1, Fits) \in Seq(Nat)
    BY <1>1, <2>2, <2>3 DEF SsRxSet
  <2>5. ssGot' \in Seq(Nat)
    BY <2>1, <2>4 DEF SsShapes
  <2> HIDE DEF q
  <2>6. ssRx' \in SsRxSet /\ ssRx'.q = q /\ ssRx'.line_error = ssRx.line_error
        /\ (ssRx'.overflow <=> ssRx.overflow)
    BY <1>1, <2>1, <2>4 DEF SsRxSet
  <2>7. /\ ssLast'.op = "read" /\ ssLast'.len = ssCall.len /\ ssLast'.n = Fits
        /\ ssLast'.tries = ssCall.tries /\ ssLast'.ready = ssCall.ready
        /\ ssLast'.left <=> (Fits < Len(ssRx.q))
    BY <2>1
  <2>8. UNCHANGED <<ssKind, ssEnv, ssTx, ssOut>> /\ ssCnt' \in [Counters -> Nat]
    BY <2>1 DEF SnapshotLook, SsShapes
  <2> QED BY <1>1, <1>3, <2>1, <2>3, <2>5, <2>6, <2>7, <2>8, SsIdleShape DEF q
<1> QED BY <1>2, <1>3

\* BufferedRx pops a byte, or returns.
LEMMA PopByteEffect ==
  ASSUME SsShapes, PopByte
  PROVE  /\ ssCall \in SsReads /\ ssCall.pc = "pop"
         /\ ssRx' \in SsRxSet /\ ssGot' \in Seq(Nat)
         /\ (ssRx'.overflow <=> ssRx.overflow) /\ ssRx'.line_error = ssRx.line_error
         /\ \/ /\ ssRx.q # <<>> /\ ssCall.n < ssCall.len
               /\ ssGot' = Append(ssGot, Head(ssRx.q)) /\ ssRx'.q = Tail(ssRx.q)
               /\ ssCall' \in SsReads /\ ssCall'.pc = "pop" /\ ssCall'.n = ssCall.n + 1
               /\ ssCall'.tries = ssCall.tries /\ ssCall'.ready = ssCall.ready /\ ssLast' = ssLast
            \/ /\ ~(ssCall.n < ssCall.len /\ ssRx.q # <<>>)
               /\ ssRx' = ssRx /\ ssGot' = ssGot /\ SsReadReturn(ssCall.tries)
         /\ UNCHANGED <<ssKind, ssEnv, ssTx, ssCnt, ssOut>>
<1>1. ssCall \in SsReads /\ ssCall.pc = "pop" /\ ssRx \in SsRxSet /\ ssGot \in Seq(Nat)
  BY SsCallShape DEF PopByte, SsAt, SsReadPcs, SsShapes
<1>2. CASE ssCall.n < ssCall.len /\ ssRx.q # <<>>
  <2> DEFINE h == Head(ssRx.q)
             t == Tail(ssRx.q)
  <2>1. h \in Nat /\ t \in Seq(Nat)
    BY <1>1, <1>2 DEF SsRxSet
  <2>2. ssGot' = Append(ssGot, h) /\ ssRx' = [ssRx EXCEPT !.q = t]
        /\ ssCall' = [ssCall EXCEPT !.n = ssCall.n + 1] /\ ssLast' = ssLast
    BY <1>1, <1>2 DEF PopByte, SsRxSet, SsReads
  <2> HIDE DEF h, t
  <2>3. ssRx' \in SsRxSet /\ ssRx'.q = t /\ ssRx'.line_error = ssRx.line_error
        /\ (ssRx'.overflow <=> ssRx.overflow)
    BY <1>1, <2>1, <2>2 DEF SsRxSet
  <2>4. ssGot' \in Seq(Nat)
    BY <1>1, <2>1, <2>2
  <2>5. ssCall' \in SsReads /\ ssCall'.pc = "pop" /\ ssCall'.n = ssCall.n + 1
        /\ ssCall'.tries = ssCall.tries /\ ssCall'.ready = ssCall.ready
    BY <1>1, <2>2 DEF SsReads
  <2> QED BY <1>1, <1>2, <2>2, <2>3, <2>4, <2>5 DEF PopByte, h, t
<1>3. CASE ~(ssCall.n < ssCall.len /\ ssRx.q # <<>>)
  BY <1>1, <1>3 DEF PopByte
<1> QED BY <1>2, <1>3

\* write_ready looks at the transmit half.
LEMMA SsWriteReadyEffect ==
  ASSUME SsShapes, SsWriteReady
  PROVE  /\ ssCall = SsIdle /\ ssLast'.op = "wready" /\ ssLast'.yes \in BOOLEAN
         /\ ssLast'.yes <=> TxReady
         /\ UNCHANGED <<ssKind, ssRx, ssEnv, ssTx, ssCall, ssCnt, ssGot, ssOut>>
<1>1. TxReady \in BOOLEAN
  BY DEF SsShapes, SsTxSet, TxReady
<1>2. ssLast' = [op |-> "wready", yes |-> TxReady]
  BY DEF SsWriteReady
<1>3. ssLast'.op = "wready" /\ ssLast'.yes \in BOOLEAN /\ (ssLast'.yes <=> TxReady)
  BY <1>1, <1>2
<1> QED BY <1>3 DEF SsWriteReady

\* A write begins.
LEMMA SsWriteCallEffect ==
  ASSUME SsAssumption, SsShapes, SsWriteCall
  PROVE  /\ ssCall = SsIdle /\ ssCall' \in SsWrites /\ ssCall'.pc = "first"
         /\ ssCall'.n = 0 /\ ssOut.stored + ssOut.dropped + ssCall'.len <= SsBytes
         /\ ssCall'.ready => ssLast.op = "wready" /\ ssLast.yes
         /\ ssLast'.op = "none"
         /\ UNCHANGED <<ssKind, ssRx, ssEnv, ssTx, ssCnt, ssGot, ssOut>>
<1> DEFINE ready == ssLast.op = "wready" /\ ssLast.yes
<1>1. ready \in BOOLEAN
  BY DEF SsShapes
<1>2. PICK len \in SsBufs \ {0} :
        /\ ssOut.stored + ssOut.dropped + len <= SsBytes
        /\ ssCall' = [pc |-> "first", len |-> len, n |-> 0, left |-> SsBudget, ready |-> ready]
  BY DEF SsWriteCall
<1>3. ssCall'.ready <=> ready
  BY <1>2
<1> HIDE DEF ready
<1>4. SsBudget \in Nat
  BY SsAssumption DEF SsAssumption
<1>5. ssCall' \in SsWrites /\ ssCall'.pc = "first" /\ ssCall'.n = 0 /\ ssCall'.len = len
  BY <1>1, <1>2, <1>4 DEF SsWrites
<1>6. ssLast'.op = "none"
  BY DEF SsWriteCall
<1> QED BY <1>2, <1>3, <1>5, <1>6 DEF SsWriteCall, ready

\* A write returns.
LEMMA WriteReturnEffect ==
  ASSUME NEW n, NEW t, t \in BOOLEAN, WriteReturn(n, t)
  PROVE  /\ ssCall' = SsIdle /\ ssCall'.pc = "idle"
         /\ ssLast'.op = "write" /\ ssLast'.len = ssCall.len /\ ssLast'.n = n
         /\ (ssLast'.timedOut <=> t) /\ ssLast'.ready = ssCall.ready
  BY SsIdleShape DEF WriteReturn

\* try_write_byte takes a byte.
LEMMA StoreByteEffect ==
  ASSUME SsShapes, ssCall \in SsWrites, StoreByte
  PROVE  /\ ssTx' \in SsTxSet /\ ssOut' \in SsOutSet
         /\ ssTx.pend = <<>> /\ ssTx'.pend = <<ssOut.stored + 1>> /\ ssTx'.shift = ssTx.shift
         /\ (ssTx'.fly <=> ssTx.fly) /\ (ssTx'.late <=> ssTx.late)
         /\ ssOut'.stored = ssOut.stored + 1 /\ ssOut'.reported = ssOut.reported
         /\ ssOut'.dropped = ssOut.dropped /\ ssOut'.abandoned = ssOut.abandoned
         /\ ssOut'.wire = ssOut.wire
         /\ ssCall' \in SsWrites /\ ssCall'.pc = "rest" /\ ssCall'.n = ssCall.n + 1
         /\ ssCall'.len = ssCall.len
         /\ ssCnt' = ssCnt /\ ssLast' = ssLast
<1> DEFINE c == ssOut.stored + 1
           p == <<c>>
           m == ssCall.n + 1
<1>1. ssTx \in SsTxSet /\ ssOut \in SsOutSet
  BY DEF SsShapes
<1>2. c \in Nat /\ m \in Nat
  BY <1>1 DEF SsOutSet, SsWrites
<1>3. p \in Seq(Nat)
  BY <1>2
<1>4. ssTx' = [ssTx EXCEPT !.pend = p] /\ ssOut' = [ssOut EXCEPT !.stored = c]
      /\ ssCall' = [ssCall EXCEPT !.pc = "rest", !.n = m]
  BY <1>1 DEF StoreByte, SsOutSet, SsWrites
<1> HIDE DEF p, c, m
<1>5. ssTx' \in SsTxSet /\ ssTx'.pend = p /\ ssTx'.shift = ssTx.shift
      /\ (ssTx'.fly <=> ssTx.fly) /\ (ssTx'.late <=> ssTx.late)
  BY <1>1, <1>3, <1>4 DEF SsTxSet
<1>6. /\ ssOut' \in SsOutSet /\ ssOut'.stored = c /\ ssOut'.reported = ssOut.reported
      /\ ssOut'.dropped = ssOut.dropped /\ ssOut'.abandoned = ssOut.abandoned
      /\ ssOut'.wire = ssOut.wire
  BY <1>1, <1>2, <1>4 DEF SsOutSet
<1>7. ssCall' \in SsWrites /\ ssCall'.pc = "rest" /\ ssCall'.n = m /\ ssCall'.len = ssCall.len
  BY <1>2, <1>4 DEF SsWrites
<1> QED BY <1>5, <1>6, <1>7 DEF StoreByte, p, c, m

\* try_send stages a frame, over what an expired transfer still held.
Staged == IF ssCall.len < SsDmaBuf THEN ssCall.len ELSE SsDmaBuf
Forsaken == IF ssTx.fly THEN Len(ssTx.pend) ELSE 0
\* What offering a byte to the transmitter leaves.
LEMMA TrySendEffect ==
  ASSUME SsAssumption, SsShapes, ssCall \in SsWrites, TrySend
  PROVE  /\ ssTx' \in SsTxSet /\ ssOut' \in SsOutSet /\ ssCnt' \in [Counters -> Nat]
         /\ Staged \in 1 .. ssCall.len /\ Staged <= SsDmaBuf /\ Forsaken \in Nat
         /\ ssTx'.pend = [i \in 1 .. Staged |-> ssOut.stored + i] /\ Len(ssTx'.pend) = Staged
         /\ ssTx'.shift = ssTx.shift /\ ssTx'.fly /\ ~ssTx'.late
         /\ ssOut'.stored = ssOut.stored + Staged /\ ssOut'.reported = ssOut.reported + Staged
         /\ ssOut'.abandoned = ssOut.abandoned + Forsaken
         /\ ssOut'.dropped = ssOut.dropped /\ ssOut'.wire = ssOut.wire
         /\ \/ ~ssTx.fly /\ ssCnt' = ssCnt
            \/ /\ ssTx.fly /\ ssCnt'["abandons"] = ssCnt["abandons"] + 1
               /\ \A o \in Counters \ {"abandons"} : ssCnt'[o] = ssCnt[o]
         /\ WriteReturn(Staged, FALSE)
<1> DEFINE n == Staged
           f == Forsaken
           p == [i \in 1 .. n |-> ssOut.stored + i]
           s == ssOut.stored + n
           r == ssOut.reported + n
           a == ssOut.abandoned + f
<1>1. ssTx \in SsTxSet /\ ssOut \in SsOutSet
  BY DEF SsShapes
<1>2. ssCall.len \in Nat \ {0} /\ SsDmaBuf \in Nat \ {0}
  BY SsAssumption DEF SsAssumption, SsWrites
<1>3. n \in 1 .. ssCall.len /\ n <= SsDmaBuf /\ n \in Nat
  BY <1>2 DEF Staged
<1>4. f \in Nat
  BY <1>1 DEF SsTxSet, Forsaken
<1>5. p \in Seq(Nat) /\ Len(p) = n
  <2>1. ssOut.stored \in Nat
    BY <1>1 DEF SsOutSet
  <2>2. \A i \in 1 .. n : ssOut.stored + i \in Nat
    BY <2>1, <1>3
  <2>3. p \in [1 .. n -> Nat]
    BY <2>2
  <2> HIDE DEF p
  <2> QED BY <1>3, <2>3
<1>6. s \in Nat /\ r \in Nat /\ a \in Nat
  BY <1>1, <1>3, <1>4 DEF SsOutSet
<1>7. /\ ssTx' = [ssTx EXCEPT !.pend = p, !.fly = TRUE, !.late = FALSE]
      /\ ssOut' = [ssOut EXCEPT !.stored = s, !.reported = r, !.abandoned = a]
      /\ ssCnt' = IF ssTx.fly THEN SsTick("abandons") ELSE ssCnt
      /\ WriteReturn(n, FALSE)
  BY <1>1 DEF TrySend, Staged, Forsaken, SsOutSet, SsTxSet
<1> HIDE DEF n, f, p, s, r, a
<1>8. ssTx' \in SsTxSet /\ ssTx'.pend = p /\ ssTx'.shift = ssTx.shift /\ ssTx'.fly /\ ~ssTx'.late
  BY <1>1, <1>5, <1>7 DEF SsTxSet
<1>9. /\ ssOut' \in SsOutSet /\ ssOut'.stored = s /\ ssOut'.reported = r
      /\ ssOut'.abandoned = a
      /\ ssOut'.dropped = ssOut.dropped /\ ssOut'.wire = ssOut.wire
  BY <1>1, <1>6, <1>7 DEF SsOutSet
<1>10. /\ ssCnt' \in [Counters -> Nat]
       /\ \/ ~ssTx.fly /\ ssCnt' = ssCnt
          \/ /\ ssTx.fly /\ ssCnt'["abandons"] = ssCnt["abandons"] + 1
             /\ \A o \in Counters \ {"abandons"} : ssCnt'[o] = ssCnt[o]
  <2>1. "abandons" \in Counters /\ ssCnt \in [Counters -> Nat]
    BY DEF Counters, SsShapes
  <2> QED BY <1>7, <2>1, SsTickEffect
<1>11. Len(ssTx'.pend) = n
  BY <1>5, <1>8
<1> QED BY <1>3, <1>4, <1>7, <1>8, <1>9, <1>10, <1>11 DEF n, f, p, s, r, a

\* The first byte or the transfer of a write: taken, waited for, or dropped.
LEMMA SsWriteFirstEffect ==
  ASSUME SsAssumption, SsShapes, SsWriteFirst
  PROVE  /\ ssCall \in SsWrites /\ ssCall.pc = "first"
         /\ \/ ssKind.tx = "polled" /\ StoreByte
            \/ ssKind.tx = "dma" /\ TrySend
            \/ /\ ssCall' \in SsWrites /\ ssCall'.pc = "first" /\ ssCall'.n = ssCall.n
               /\ ssCall'.len = ssCall.len /\ ssCall'.ready = ssCall.ready
               /\ UNCHANGED <<ssTx, ssOut, ssCnt, ssLast>>
            \/ /\ ~TxReady /\ ssTx' = ssTx /\ ssOut' \in SsOutSet /\ ssCnt' \in [Counters -> Nat]
               /\ ssCnt'["drops"] = ssCnt["drops"] + 1
               /\ \A o \in Counters \ {"drops"} : ssCnt'[o] = ssCnt[o]
               /\ ssOut'.stored = ssOut.stored /\ ssOut'.wire = ssOut.wire
               /\ ssOut'.abandoned = ssOut.abandoned
               /\ ssOut'.reported = ssOut.reported + ssCall.len
               /\ ssOut'.dropped = ssOut.dropped + ssCall.len
               /\ WriteReturn(ssCall.len, TRUE)
         /\ UNCHANGED <<ssKind, ssRx, ssEnv, ssGot>>
<1>1. ssCall \in SsWrites /\ ssCall.pc = "first" /\ ssOut \in SsOutSet
      /\ ssCnt \in [Counters -> Nat] /\ "drops" \in Counters
  BY SsCallShape DEF SsWriteFirst, SsAt, SsShapes, Counters
<1>2. UNCHANGED <<ssKind, ssRx, ssEnv, ssGot>>
  BY DEF SsWriteFirst
<1>3. CASE \/ ssKind.tx = "polled" /\ StoreByte
           \/ ssKind.tx = "dma" /\ TrySend
  BY <1>1, <1>2, <1>3
<1>4. CASE /\ ~TxReady /\ ssCall.left > 0
           /\ ssCall' = [ssCall EXCEPT !.left = @ - 1]
           /\ UNCHANGED <<ssTx, ssOut, ssCnt, ssLast>>
  <2>1. ssCall.left - 1 \in Nat /\ ssCall' = [ssCall EXCEPT !.left = ssCall.left - 1]
    BY <1>1, <1>4 DEF SsWrites
  <2>2. ssCall' \in SsWrites /\ ssCall'.pc = "first" /\ ssCall'.n = ssCall.n
        /\ ssCall'.len = ssCall.len /\ ssCall'.ready = ssCall.ready
    BY <1>1, <2>1 DEF SsWrites
  <2> QED BY <1>1, <1>2, <1>4, <2>2
<1>5. CASE /\ ~TxReady /\ ssCall.left = 0
           /\ ssCnt' = SsTick("drops")
           /\ ssOut' = [ssOut EXCEPT !.reported = @ + ssCall.len, !.dropped = @ + ssCall.len]
           /\ WriteReturn(ssCall.len, TRUE)
           /\ UNCHANGED ssTx
  <2> DEFINE r == ssOut.reported + ssCall.len
             d == ssOut.dropped + ssCall.len
  <2>1. ssCall.len \in Nat
    BY <1>1, SsAssumption DEF SsAssumption, SsWrites
  <2>2. r \in Nat /\ d \in Nat
    BY <1>1, <2>1 DEF SsOutSet
  <2>3. ssOut' = [ssOut EXCEPT !.reported = r, !.dropped = d]
    BY <1>1, <1>5 DEF SsOutSet
  <2> HIDE DEF r, d
  <2>4. /\ ssOut' \in SsOutSet /\ ssOut'.stored = ssOut.stored /\ ssOut'.wire = ssOut.wire
        /\ ssOut'.abandoned = ssOut.abandoned /\ ssOut'.reported = r /\ ssOut'.dropped = d
    BY <1>1, <2>2, <2>3 DEF SsOutSet
  <2>5. /\ ssCnt' \in [Counters -> Nat] /\ ssCnt'["drops"] = ssCnt["drops"] + 1
        /\ \A o \in Counters \ {"drops"} : ssCnt'[o] = ssCnt[o]
    BY <1>1, <1>5, SsTickEffect
  <2> QED BY <1>1, <1>2, <1>5, <2>4, <2>5 DEF r, d
<1> QED BY <1>3, <1>4, <1>5 DEF SsWriteFirst

\* The rest of a write: one more byte, or the end.
LEMMA SsWriteRestEffect ==
  ASSUME SsAssumption, SsShapes, SsWriteRest
  PROVE  /\ ssCall \in SsWrites /\ ssCall.pc = "rest"
         /\ \/ ssCall.n < ssCall.len /\ StoreByte
            \/ /\ ssOut' \in SsOutSet /\ ssOut'.reported = ssOut.reported + ssCall.n
               /\ ssOut'.stored = ssOut.stored /\ ssOut'.wire = ssOut.wire
               /\ ssOut'.abandoned = ssOut.abandoned /\ ssOut'.dropped = ssOut.dropped
               /\ WriteReturn(ssCall.n, FALSE) /\ UNCHANGED <<ssTx, ssCnt>>
         /\ UNCHANGED <<ssKind, ssRx, ssEnv, ssGot>>
<1>1. ssCall \in SsWrites /\ ssCall.pc = "rest" /\ ssOut \in SsOutSet
  BY SsCallShape DEF SsWriteRest, SsAt, SsShapes
<1>2. CASE ssCall.n < ssCall.len /\ StoreByte
  BY <1>1, <1>2 DEF SsWriteRest
<1>3. CASE /\ ssCall.n = ssCall.len \/ ssTx.pend # <<>>
           /\ ssOut' = [ssOut EXCEPT !.reported = @ + ssCall.n]
           /\ WriteReturn(ssCall.n, FALSE)
           /\ UNCHANGED <<ssTx, ssCnt>>
  <2> DEFINE r == ssOut.reported + ssCall.n
  <2>1. r \in Nat
    BY <1>1 DEF SsOutSet, SsWrites
  <2>2. ssOut' = [ssOut EXCEPT !.reported = r]
    BY <1>1, <1>3 DEF SsOutSet
  <2> HIDE DEF r
  <2>3. /\ ssOut' \in SsOutSet /\ ssOut'.stored = ssOut.stored /\ ssOut'.wire = ssOut.wire
        /\ ssOut'.abandoned = ssOut.abandoned /\ ssOut'.reported = r
        /\ ssOut'.dropped = ssOut.dropped
    BY <1>1, <2>1, <2>2 DEF SsOutSet
  <2> QED BY <1>1, <1>3, <2>3 DEF r, SsWriteRest
<1> QED BY <1>2, <1>3 DEF SsWriteRest

\* A flush begins.
LEMMA SsFlushCallEffect ==
  ASSUME SsAssumption, SsShapes, SsFlushCall
  PROVE  /\ ssCall = SsIdle /\ ssCall' \in SsFlushes /\ ssCall'.pc = "flush"
         /\ ssLast'.op = "none"
         /\ UNCHANGED <<ssKind, ssRx, ssEnv, ssTx, ssCnt, ssGot, ssOut>>
  BY SsAssumption DEF SsAssumption, SsFlushCall, SsFlushes

\* A flush polls, or ends, counted when it gave up.
LEMMA SsFlushEffect ==
  ASSUME SsShapes, SsFlush
  PROVE  /\ ssCall \in SsFlushes /\ ssCall.pc = "flush"
         /\ ssCnt' \in [Counters -> Nat]
         /\ \A o \in Counters \ {"gave_up"} : ssCnt'[o] = ssCnt[o]
         /\ ssCnt'["gave_up"] >= ssCnt["gave_up"]
         /\ \/ ssCall' \in SsFlushes /\ ssCall'.pc = "flush" /\ ssLast' = ssLast
            \/ ssCall' = SsIdle /\ ssCall'.pc = "idle" /\ ssLast'.op = "flush"
         /\ UNCHANGED <<ssKind, ssRx, ssEnv, ssTx, ssGot, ssOut>>
<1>1. ssCall \in SsFlushes /\ ssCall.pc = "flush" /\ ssCnt \in [Counters -> Nat]
      /\ "gave_up" \in Counters
  BY SsCallShape DEF SsFlush, SsAt, SsShapes, Counters
<1>2. ssCnt["gave_up"] \in Nat
  BY <1>1
<1>3. CASE /\ ~TxDone /\ ssCall.left > 0
           /\ ssCall' = [ssCall EXCEPT !.left = @ - 1]
           /\ UNCHANGED <<ssCnt, ssLast>>
  BY <1>1, <1>2, <1>3 DEF SsFlush, SsFlushes
<1>4. CASE /\ TxDone \/ ssCall.left = 0
           /\ ssCnt' = IF TxDone THEN ssCnt ELSE SsTick("gave_up")
           /\ ssCall' = SsIdle
           /\ ssLast' = [op |-> "flush", timedOut |-> ~TxDone]
  <2>1. ssLast'.op = "flush" /\ ssCall'.pc = "idle"
    BY <1>4, SsIdleShape
  <2>2. /\ ssCnt' \in [Counters -> Nat]
        /\ \A o \in Counters \ {"gave_up"} : ssCnt'[o] = ssCnt[o]
        /\ ssCnt'["gave_up"] >= ssCnt["gave_up"]
    BY <1>1, <1>2, <1>4, SsTickEffect
  <2> QED BY <1>1, <1>4, <2>1, <2>2 DEF SsFlush
<1> QED BY <1>3, <1>4 DEF SsFlush

------------------------------------------------------------------------------
(* Rising sequences.                                                        *)

\* A later element at the end keeps the order.
LEMMA RisingAppend ==
  ASSUME NEW s \in Seq(Nat), NEW c \in Nat
  PROVE  LET a == Append(s, c) IN
         /\ Len(a) = Len(s) + 1
         /\ Rising(s) /\ Ahead(s, <<c>>) => Rising(a)
         /\ \A t \in Seq(Nat) : Ahead(s, t) /\ Ahead(<<c>>, t) => Ahead(a, t)
         /\ \A t \in Seq(Nat) : Ahead(t, s) /\ Ahead(t, <<c>>) => Ahead(t, a)
         /\ \A d \in Nat : UpTo(s, d) /\ c <= d => UpTo(a, d)
<1> DEFINE a == Append(s, c)
<1>1. Len(a) = Len(s) + 1 /\ Len(s) \in Nat /\ a[Len(s) + 1] = c
      /\ \A i \in 1 .. Len(s) : a[i] = s[i] /\ s[i] \in Nat
  OBVIOUS
<1>2. Len(<<c>>) = 1 /\ <<c>>[1] = c
  OBVIOUS
<1>3. \A i \in 1 .. Len(a) : i \in 1 .. Len(s) \/ i = Len(s) + 1
  BY <1>1
<1> HIDE DEF a
<1>4. Rising(s) /\ Ahead(s, <<c>>) => Rising(a)
  BY <1>1, <1>2, <1>3 DEF Rising, Ahead
<1>5. ASSUME NEW t \in Seq(Nat), Ahead(s, t), Ahead(<<c>>, t) PROVE Ahead(a, t)
  <2> SUFFICES ASSUME NEW i \in 1 .. Len(a), NEW j \in 1 .. Len(t) PROVE a[i] < t[j]
    BY DEF Ahead
  <2>1. CASE i \in 1 .. Len(s)
    BY <1>1, <1>5, <2>1 DEF Ahead
  <2>2. CASE i = Len(s) + 1
    <3>1. <<c>>[1] < t[j] /\ 1 \in 1 .. Len(<<c>>)
      BY <1>2, <1>5 DEF Ahead
    <3> QED BY <1>1, <1>2, <2>2, <3>1
  <2> QED BY <1>3, <2>1, <2>2
<1>6. ASSUME NEW t \in Seq(Nat), Ahead(t, s), Ahead(t, <<c>>) PROVE Ahead(t, a)
  <2> SUFFICES ASSUME NEW i \in 1 .. Len(t), NEW j \in 1 .. Len(a) PROVE t[i] < a[j]
    BY DEF Ahead
  <2>1. CASE j \in 1 .. Len(s)
    BY <1>1, <1>6, <2>1 DEF Ahead
  <2>2. CASE j = Len(s) + 1
    <3>1. t[i] < <<c>>[1] /\ 1 \in 1 .. Len(<<c>>)
      BY <1>2, <1>6 DEF Ahead
    <3> QED BY <1>1, <1>2, <2>2, <3>1
  <2> QED BY <1>3, <2>1, <2>2
<1>7. ASSUME NEW d \in Nat, UpTo(s, d), c <= d PROVE UpTo(a, d)
  BY <1>1, <1>3, <1>7 DEF UpTo
<1> QED BY <1>1, <1>4, <1>5, <1>6, <1>7 DEF a

\* The first element lies before the others.
LEMMA RisingTail ==
  ASSUME NEW s \in Seq(Nat), s # <<>>
  PROVE  /\ Head(s) = s[1] /\ Len(s) > 0 /\ Head(s) \in Nat /\ Tail(s) \in Seq(Nat)
         /\ Len(Tail(s)) = Len(s) - 1
         /\ Rising(s) => Rising(Tail(s)) /\ Ahead(<<Head(s)>>, Tail(s))
         /\ \A t \in Seq(Nat) : Ahead(t, s) => Ahead(t, Tail(s)) /\ Ahead(t, <<Head(s)>>)
         /\ \A d \in Nat : UpTo(s, d) => UpTo(Tail(s), d) /\ Head(s) <= d
         /\ (\A i \in 1 .. Len(s) : s[i] > 0) =>
              Head(s) > 0 /\ \A i \in 1 .. Len(Tail(s)) : Tail(s)[i] > 0
<1> DEFINE h == Head(s)
           r == Tail(s)
<1>1. Len(s) \in Nat /\ Len(s) > 0 /\ h = s[1] /\ h \in Nat /\ r \in Seq(Nat)
      /\ Len(r) = Len(s) - 1
  OBVIOUS
<1>2. \A i \in 1 .. Len(r) : r[i] = s[i + 1] /\ i + 1 \in 1 .. Len(s) /\ i + 1 > 1
  BY <1>1
<1>3. 1 \in 1 .. Len(s) /\ Len(<<h>>) = 1 /\ <<h>>[1] = h
  BY <1>1
<1> HIDE DEF h, r
<1>4. ASSUME Rising(s) PROVE Rising(r)
  <2> SUFFICES ASSUME NEW i \in 1 .. Len(r), NEW j \in 1 .. Len(r), i < j PROVE r[i] < r[j]
    BY DEF Rising
  <2>1. i + 1 < j + 1
    BY <1>1
  <2> QED BY <1>2, <1>4, <2>1 DEF Rising
<1>5. ASSUME Rising(s) PROVE Ahead(<<h>>, r)
  <2> SUFFICES ASSUME NEW i \in 1 .. 1, NEW j \in 1 .. Len(r) PROVE <<h>>[i] < r[j]
    BY <1>3 DEF Ahead
  <2>1. s[1] < s[j + 1]
    BY <1>2, <1>3, <1>5 DEF Rising
  <2>2. i = 1
    OBVIOUS
  <2> QED BY <1>1, <1>2, <1>3, <2>1, <2>2
<1>6. ASSUME NEW t \in Seq(Nat), Ahead(t, s) PROVE Ahead(t, r) /\ Ahead(t, <<h>>)
  <2>1. ASSUME NEW i \in 1 .. Len(t), NEW j \in 1 .. Len(r) PROVE t[i] < r[j]
    BY <1>2, <1>6, <2>1 DEF Ahead
  <2>2. ASSUME NEW i \in 1 .. Len(t), NEW j \in 1 .. 1 PROVE t[i] < <<h>>[j]
    <3>1. t[i] < s[1] /\ j = 1
      BY <1>3, <1>6, <2>2 DEF Ahead
    <3> QED BY <1>1, <1>3, <3>1
  <2> QED BY <1>3, <2>1, <2>2 DEF Ahead
<1>7. \A d \in Nat : UpTo(s, d) => UpTo(r, d) /\ h <= d
  BY <1>1, <1>2, <1>3 DEF UpTo
<1>8. (\A i \in 1 .. Len(s) : s[i] > 0) => h > 0 /\ \A i \in 1 .. Len(r) : r[i] > 0
  BY <1>1, <1>2, <1>3
<1> QED BY <1>1, <1>4, <1>5, <1>6, <1>7, <1>8 DEF h, r

\* Taking the first n elements of one sequence to the end of another.
LEMMA RisingMove ==
  ASSUME NEW s \in Seq(Nat), NEW q \in Seq(Nat), NEW n \in 0 .. Len(q), NEW d \in Nat,
         Rising(s), Rising(q), Ahead(s, q), UpTo(s, d), UpTo(q, d)
  PROVE  LET g == s \o SubSeq(q, 1, n)
             r == SubSeq(q, n + 1, Len(q))
         IN /\ Rising(g) /\ Rising(r) /\ Ahead(g, r) /\ UpTo(g, d) /\ UpTo(r, d)
            /\ Len(r) = Len(q) - n
<1> DEFINE m == SubSeq(q, 1, n)
           g == s \o m
           r == SubSeq(q, n + 1, Len(q))
<1>1. Len(q) \in Nat /\ n \in Nat /\ n <= Len(q) /\ Len(s) \in Nat
  OBVIOUS
<1>2. m \in Seq(Nat) /\ Len(m) = n /\ \A i \in 1 .. n : m[i] = q[i]
  BY <1>1
<1>3. r \in Seq(Nat) /\ Len(r) = Len(q) - n /\ \A i \in 1 .. Len(q) - n : r[i] = q[n + i]
  BY <1>1
<1> HIDE DEF m, r
<1>4. g \in Seq(Nat) /\ Len(g) = Len(s) + n
      /\ (\A i \in 1 .. Len(s) : g[i] = s[i])
      /\ \A i \in Len(s) + 1 .. Len(s) + n : g[i] = m[i - Len(s)]
  <2>1. /\ g \in Seq(Nat) /\ Len(g) = Len(s) + Len(m)
        /\ \A i \in 1 .. Len(s) + Len(m) : g[i] = IF i <= Len(s) THEN s[i] ELSE m[i - Len(s)]
    BY <1>2, ConcatProperties
  <2> HIDE DEF g
  <2>2. \A i \in 1 .. Len(s) : i \in 1 .. Len(s) + Len(m) /\ i <= Len(s)
    BY <1>1, <1>2
  <2>3. \A i \in Len(s) + 1 .. Len(s) + n : i \in 1 .. Len(s) + Len(m) /\ ~(i <= Len(s))
    BY <1>1, <1>2
  <2> QED BY <1>2, <2>1, <2>2, <2>3
<1>5. \A i \in 1 .. Len(g) : \/ i \in 1 .. Len(s) /\ g[i] = s[i]
                             \/ i \notin 1 .. Len(s) /\ i - Len(s) \in 1 .. n
                                /\ i - Len(s) \in 1 .. Len(q) /\ g[i] = q[i - Len(s)]
  BY <1>1, <1>2, <1>4
<1>6. \A i \in 1 .. Len(r) : r[i] = q[n + i] /\ n + i \in 1 .. Len(q)
  BY <1>1, <1>3
<1> HIDE DEF g
<1>7. Rising(g)
  <2> SUFFICES ASSUME NEW i \in 1 .. Len(g), NEW j \in 1 .. Len(g), i < j PROVE g[i] < g[j]
    BY DEF Rising
  <2>1. CASE i \in 1 .. Len(s) /\ j \in 1 .. Len(s)
    BY <1>5, <2>1 DEF Rising
  <2>2. CASE i \in 1 .. Len(s) /\ j \notin 1 .. Len(s)
    BY <1>5, <2>2 DEF Ahead
  <2>3. CASE i \notin 1 .. Len(s)
    <3>1. j \notin 1 .. Len(s) /\ i - Len(s) < j - Len(s)
      BY <1>1, <1>4, <2>3
    <3> QED BY <1>5, <2>3, <3>1 DEF Rising
  <2> QED BY <2>1, <2>2, <2>3
<1>8. Rising(r)
  <2> SUFFICES ASSUME NEW i \in 1 .. Len(r), NEW j \in 1 .. Len(r), i < j PROVE r[i] < r[j]
    BY DEF Rising
  <2>1. n + i < n + j
    BY <1>1, <1>3
  <2> QED BY <1>6, <2>1 DEF Rising
<1>9. Ahead(g, r)
  <2> SUFFICES ASSUME NEW i \in 1 .. Len(g), NEW j \in 1 .. Len(r) PROVE g[i] < r[j]
    BY DEF Ahead
  <2>1. CASE i \in 1 .. Len(s)
    BY <1>5, <1>6, <2>1 DEF Ahead
  <2>2. CASE i \notin 1 .. Len(s)
    <3>1. i - Len(s) \in 1 .. n /\ g[i] = q[i - Len(s)] /\ i - Len(s) \in 1 .. Len(q)
      BY <1>5, <2>2
    <3>2. n + j \in 1 .. Len(q) /\ r[j] = q[n + j]
      BY <1>6
    <3>4. i - Len(s) < n + j
      <4>1. i - Len(s) <= n
        BY <1>1, <3>1
      <4>2. j \in Nat /\ j > 0 /\ i \in Nat
        BY <1>1, <1>3, <1>4
      <4> QED BY <1>1, <4>1, <4>2
    <3> QED BY <3>1, <3>2, <3>4 DEF Rising
  <2> QED BY <2>1, <2>2
<1>10. UpTo(g, d) /\ UpTo(r, d)
  BY <1>5, <1>6 DEF UpTo
<1> QED BY <1>3, <1>7, <1>8, <1>9, <1>10 DEF g, m, r

\* Nothing comes after an empty sequence.
LEMMA RisingEmpty ==
  Rising(<<>>) /\ Len(<<>>) = 0 /\ \A s, d : Ahead(s, <<>>) /\ Ahead(<<>>, s) /\ UpTo(<<>>, d)
  BY DEF Rising, Ahead, UpTo

------------------------------------------------------------------------------
(* The steps that leave one side alone.                                     *)

SsTxSide == TxWire \/ SsWriteFirst \/ SsWriteRest
SsBetween ==
  SsReadReady \/ SsReadCall \/ SsWriteReady \/ SsWriteCall \/ SsFlushCall \/ SsFlush
SsRxSide == RxChar \/ RxFault \/ SsReadStep

\* The transmit side does not touch what was received, nor what was counted of it.
LEMMA SsRxQuiet ==
  ASSUME SsAssumption, SsShapes, SsTxSide \/ SsBetween
  PROVE  /\ UNCHANGED <<ssKind, ssRx, ssEnv, ssGot>>
         /\ ssCall' = ssCall \/ ssCall'.pc \notin {"line", "snap", "pop"}
         /\ ssCnt'["line_errors"] = ssCnt["line_errors"]
         /\ ssCnt'["lap_overruns"] = ssCnt["lap_overruns"]
<1>1. {"line_errors", "lap_overruns"} \subseteq Counters \ {"drops", "abandons", "gave_up"}
  BY DEF Counters
<1>2. CASE TxWire
  BY <1>2, TxWireEffect
<1>3. CASE SsReadReady
  BY <1>3, SsReadReadyEffect
<1>4. CASE SsReadCall
  BY <1>4, SsReadCallEffect
<1>5. CASE SsWriteReady
  BY <1>5, SsWriteReadyEffect
<1>6. CASE SsWriteCall
  BY <1>6, SsWriteCallEffect
<1>7. CASE SsWriteFirst
  <2>1. ssCall \in SsWrites /\ UNCHANGED <<ssKind, ssRx, ssEnv, ssGot>>
    BY <1>7, SsWriteFirstEffect
  <2>2. CASE StoreByte
    BY <2>1, <2>2, StoreByteEffect
  <2>3. CASE TrySend
    BY <1>1, <2>1, <2>3, TrySendEffect, WriteReturnEffect
  <2>4. CASE ssCall'.pc = "first" /\ UNCHANGED <<ssTx, ssOut, ssCnt, ssLast>>
    BY <2>1, <2>4
  <2>5. CASE /\ \A o \in Counters \ {"drops"} : ssCnt'[o] = ssCnt[o]
             /\ WriteReturn(ssCall.len, TRUE)
    BY <1>1, <2>1, <2>5, WriteReturnEffect
  <2> QED BY <1>7, <2>2, <2>3, <2>4, <2>5, SsWriteFirstEffect
<1>8. CASE SsWriteRest
  <2>1. ssCall \in SsWrites /\ UNCHANGED <<ssKind, ssRx, ssEnv, ssGot>>
    BY <1>8, SsWriteRestEffect
  <2>2. CASE StoreByte
    BY <2>1, <2>2, StoreByteEffect
  <2>3. CASE WriteReturn(ssCall.n, FALSE) /\ UNCHANGED <<ssTx, ssCnt>>
    BY <2>1, <2>3, WriteReturnEffect
  <2> QED BY <1>8, <2>2, <2>3, SsWriteRestEffect
<1>9. CASE SsFlushCall
  BY <1>9, SsFlushCallEffect
<1>10. CASE SsFlush
  BY <1>1, <1>10, SsFlushEffect
<1> QED BY <1>2, <1>3, <1>4, <1>5, <1>6, <1>7, <1>8, <1>9, <1>10 DEF SsTxSide, SsBetween

\* The receive side does not touch what is sent, nor what was counted of it.
LEMMA SsTxQuiet ==
  ASSUME SsAssumption, SsShapes,
         SsRxSide \/ SsReadReady \/ SsReadCall \/ SsWriteReady \/ SsFlushCall \/ SsFlush
  PROVE  /\ UNCHANGED <<ssKind, ssTx, ssOut>>
         /\ \/ ssCall' = ssCall
            \/ ssCall.pc \notin {"first", "rest"} /\ ssCall'.pc \notin {"first", "rest"}
         /\ ssCnt'["drops"] = ssCnt["drops"] /\ ssCnt'["abandons"] = ssCnt["abandons"]
<1>1. {"drops", "abandons"} \subseteq Counters \ {"line_errors", "lap_overruns", "gave_up"}
  BY DEF Counters
<1>2. SsIdle.pc = "idle"
  BY SsIdleShape
<1>3. CASE RxChar
  BY <1>3, RxCharEffect
<1>4. CASE RxFault
  BY <1>4, RxFaultEffect
<1>5. CASE SsReadReady
  BY <1>5, SsReadReadyEffect
<1>6. CASE SsReadCall
  BY <1>2, <1>6, SsReadCallEffect
<1>7. CASE RingOverflow
  BY <1>1, <1>7, RingOverflowEffect DEF Retried
<1>8. CASE LineErrorLook
  <2>1. CounterOf(ssRx.line_error) \in {"line_errors", "lap_overruns"}
    BY DEF CounterOf
  <2>2. \A o \in {"drops", "abandons"} : o \in Counters \ {CounterOf(ssRx.line_error)}
    BY <1>1, <2>1
  <2> QED BY <1>8, <2>2, LineErrorLookEffect DEF Retried
<1>9. CASE SnapshotLook
  BY <1>1, <1>9, SnapshotLookEffect DEF Retried
<1>10. CASE PopByte
  <2>1. ssCall \in SsReads /\ ssCall.tries \in Nat
    BY <1>10, PopByteEffect DEF SsReads
  <2> QED BY <1>10, <2>1, PopByteEffect, SsReadReturnEffect
<1>11. CASE SsWriteReady
  BY <1>11, SsWriteReadyEffect
<1>12. CASE SsFlushCall
  BY <1>2, <1>12, SsFlushCallEffect
<1>13. CASE SsFlush
  BY <1>1, <1>13, SsFlushEffect
<1> QED BY <1>3, <1>4, <1>5, <1>6, <1>7, <1>8, <1>9, <1>10, <1>11, <1>12, <1>13
     DEF SsRxSide, SsReadStep

------------------------------------------------------------------------------
(* Each part of the invariant, step by step.                                *)

\* The step of the specification is one of the thirteen.
SsAction ==
  \/ RxChar \/ RxFault \/ TxWire \/ SsReadReady \/ SsReadCall
  \/ RingOverflow \/ LineErrorLook \/ SnapshotLook \/ PopByte
  \/ SsWriteReady \/ SsWriteCall \/ SsWriteFirst \/ SsWriteRest \/ SsFlushCall \/ SsFlush

\* Where a call stands when it is none.
LEMMA SsIdleCall ==
  ASSUME ssCall' = SsIdle
  PROVE  ssCall'.pc = "idle" /\ ssCall' \in SsCalls
  BY SsIdleShape

\* The shapes are kept.
LEMMA SsShapesNext == ASSUME SsAssumption, SsIInv, SsAction PROVE SsShapes'
<1>1. SsShapes
  BY DEF SsIInv
<1>2. SsReads \subseteq SsCalls /\ SsWrites \subseteq SsCalls /\ SsFlushes \subseteq SsCalls
  BY DEF SsCalls
<1>3. \A c \in SsReads : c.pc # "idle"
  BY DEF SsReads, SsReadPcs
<1>4. ssKind' = ssKind
  BY <1>1, SsRxQuiet, SsTxQuiet DEF SsAction, SsTxSide, SsBetween, SsRxSide, SsReadStep
<1>5. CASE RxChar
  BY <1>1, <1>5, RxCharEffect DEF SsShapes
<1>6. CASE RxFault
  BY <1>1, <1>6, RxFaultEffect DEF SsShapes
<1>7. CASE TxWire
  BY <1>1, <1>7, TxWireEffect DEF SsShapes
<1>8. CASE SsReadReady
  <2>1. ssCall.pc = "idle"
    BY <1>1, <1>8, SsReadReadyEffect, SsIdleShape
  <2> QED BY <1>1, <1>8, <2>1, SsReadReadyEffect DEF SsShapes
<1>9. CASE SsReadCall
  BY <1>1, <1>2, <1>9, SsReadCallEffect DEF SsShapes
<1>10. ASSUME Retried, ssCall \in SsReads
       PROVE  ssCall' \in SsCalls /\ (ssCall'.pc # "idle" => ssLast'.op = "none")
              /\ (ssLast'.op \in {"ready", "wready"} => ssLast'.yes \in BOOLEAN)
  <2>1. ssLast.op = "none"
    BY <1>1, <1>3, <1>10 DEF SsShapes
  <2>2. CASE ssCall' \in SsReads /\ ssLast' = ssLast
    BY <1>2, <2>1, <2>2
  <2>3. CASE ssCall' = SsIdle /\ ssLast'.op = "read"
    BY <2>3, SsIdleCall
  <2> QED BY <1>10, <2>2, <2>3 DEF Retried
<1>11. ASSUME ssCall \in SsReads PROVE ssLast.op = "none"
  BY <1>1, <1>3, <1>11 DEF SsShapes
<1>12. CASE RingOverflow
  <2>1. CASE Retried
    BY <1>1, <1>4, <1>10, <1>12, <2>1, RingOverflowEffect DEF SsShapes
  <2>2. CASE ssLast' = ssLast /\ ssCall' \in SsReads
    BY <1>1, <1>2, <1>4, <1>11, <1>12, <2>2, RingOverflowEffect DEF SsShapes
  <2> QED BY <1>1, <1>12, <2>1, <2>2, RingOverflowEffect
<1>13. CASE LineErrorLook
  <2>1. CASE Retried
    BY <1>1, <1>4, <1>10, <1>13, <2>1, LineErrorLookEffect DEF SsShapes
  <2>2. CASE ssLast' = ssLast /\ ssCall' \in SsReads
    BY <1>1, <1>2, <1>4, <1>11, <1>13, <2>2, LineErrorLookEffect DEF SsShapes
  <2> QED BY <1>1, <1>13, <2>1, <2>2, LineErrorLookEffect
<1>14. CASE SnapshotLook
  <2>1. CASE Retried
    BY <1>1, <1>4, <1>10, <1>14, <2>1, SnapshotLookEffect DEF SsShapes
  <2>2. CASE ssCall' = SsIdle /\ ssLast'.op = "read"
    BY <1>1, <1>4, <1>14, <2>2, SnapshotLookEffect, SsIdleCall DEF SsShapes
  <2> QED BY <1>1, <1>14, <2>1, <2>2, SnapshotLookEffect
<1>15. CASE PopByte
  <2>1. ssCall \in SsReads /\ ssCall.tries \in Nat
    BY <1>1, <1>15, PopByteEffect DEF SsReads
  <2>2. CASE ssCall' \in SsReads /\ ssLast' = ssLast
    BY <1>1, <1>2, <1>4, <1>11, <1>15, <2>1, <2>2, PopByteEffect DEF SsShapes
  <2>3. CASE SsReadReturn(ssCall.tries)
    <3>1. ssCall' = SsIdle /\ ssLast'.op = "read"
      BY <2>1, <2>3, SsReadReturnEffect
    <3> QED BY <1>1, <1>4, <1>15, <3>1, PopByteEffect, SsIdleCall DEF SsShapes
  <2> QED BY <1>1, <1>15, <2>2, <2>3, PopByteEffect
<1>16. CASE SsWriteReady
  <2>1. ssCall.pc = "idle"
    BY <1>1, <1>16, SsWriteReadyEffect, SsIdleShape
  <2> QED BY <1>1, <1>16, <2>1, SsWriteReadyEffect DEF SsShapes
<1>17. CASE SsWriteCall
  BY <1>1, <1>2, <1>17, SsWriteCallEffect DEF SsShapes
<1>18. \A c \in SsWrites : c.pc # "idle"
  BY DEF SsWrites
<1>19. CASE SsWriteFirst
  <2>1. ssCall \in SsWrites /\ ssLast.op = "none" /\ UNCHANGED <<ssKind, ssRx, ssEnv, ssGot>>
    BY <1>1, <1>18, <1>19, SsWriteFirstEffect DEF SsShapes
  <2>2. CASE StoreByte
    BY <1>1, <1>2, <2>1, <2>2, StoreByteEffect DEF SsShapes
  <2>3. CASE TrySend
    <3>1. ssCall' = SsIdle /\ ssLast'.op = "write"
      BY <1>1, <2>1, <2>3, TrySendEffect, WriteReturnEffect
    <3> QED BY <1>1, <2>1, <2>3, <3>1, TrySendEffect, SsIdleCall DEF SsShapes
  <2>4. CASE ssCall' \in SsWrites /\ UNCHANGED <<ssTx, ssOut, ssCnt, ssLast>>
    BY <1>1, <1>2, <2>1, <2>4 DEF SsShapes
  <2>5. CASE ssTx' = ssTx /\ ssOut' \in SsOutSet /\ ssCnt' \in [Counters -> Nat]
             /\ WriteReturn(ssCall.len, TRUE)
    <3>1. ssCall' = SsIdle /\ ssLast'.op = "write"
      BY <2>5, WriteReturnEffect
    <3> QED BY <1>1, <2>1, <2>5, <3>1, SsIdleCall DEF SsShapes
  <2> QED BY <1>1, <1>19, <2>2, <2>3, <2>4, <2>5, SsWriteFirstEffect
<1>20. CASE SsWriteRest
  <2>1. ssCall \in SsWrites /\ ssLast.op = "none" /\ UNCHANGED <<ssKind, ssRx, ssEnv, ssGot>>
    BY <1>1, <1>18, <1>20, SsWriteRestEffect DEF SsShapes
  <2>2. CASE StoreByte
    BY <1>1, <1>2, <2>1, <2>2, StoreByteEffect DEF SsShapes
  <2>3. CASE ssOut' \in SsOutSet /\ WriteReturn(ssCall.n, FALSE) /\ UNCHANGED <<ssTx, ssCnt>>
    <3>1. ssCall' = SsIdle /\ ssLast'.op = "write"
      BY <2>3, WriteReturnEffect
    <3> QED BY <1>1, <2>1, <2>3, <3>1, SsIdleCall DEF SsShapes
  <2> QED BY <1>1, <1>20, <2>2, <2>3, SsWriteRestEffect
<1>21. CASE SsFlushCall
  BY <1>1, <1>2, <1>21, SsFlushCallEffect DEF SsShapes
<1>22. CASE SsFlush
  <2>1. ssCall \in SsFlushes /\ ssCall.pc = "flush" /\ ssLast.op = "none"
    BY <1>1, <1>22, SsFlushEffect DEF SsShapes
  <2>2. CASE ssCall' \in SsFlushes /\ ssLast' = ssLast
    BY <1>1, <1>2, <1>22, <2>1, <2>2, SsFlushEffect DEF SsShapes
  <2>3. CASE ssCall' = SsIdle /\ ssLast'.op = "flush"
    BY <1>1, <1>22, <2>3, SsFlushEffect, SsIdleCall DEF SsShapes
  <2> QED BY <1>1, <1>22, <2>2, <2>3, SsFlushEffect
<1> QED BY <1>5, <1>6, <1>7, <1>8, <1>9, <1>12, <1>13, <1>14, <1>15, <1>16, <1>17, <1>19,
        <1>20, <1>21, <1>22 DEF SsAction

\* The order of what is received.
LEMMA SsRxNext == ASSUME SsAssumption, SsIInv, SsAction PROVE SsRxInv'
<1>1. SsShapes /\ SsRxInv
  BY DEF SsIInv
<1>2. ssRx.q \in Seq(Nat) /\ ssGot \in Seq(Nat) /\ ssEnv.chars \in Nat /\ SsChars \in Nat
      /\ SsCap \in Nat \ {0} /\ Len(ssRx.q) \in Nat
      /\ ssKind.rx \in {"ring", "dma"}
  BY <1>1, SsAssumption DEF SsShapes, SsRxSet, SsEnvSet, SsAssumption, SsKindSet
<1>3. CASE SsTxSide \/ SsBetween
  <2>1. /\ UNCHANGED <<ssKind, ssRx, ssEnv, ssGot>>
        /\ ssCall' = ssCall \/ ssCall'.pc \notin {"line", "snap", "pop"}
    BY <1>1, <1>3, SsRxQuiet
  <2> QED BY <1>1, <2>1 DEF SsRxInv
<1>4. CASE RxChar
  <2> DEFINE c == ssEnv.chars + 1
  <2>1. /\ ssEnv'.chars = c /\ c <= SsChars /\ UNCHANGED <<ssKind, ssCall, ssGot>>
        /\ \/ ssKind.rx = "ring" /\ ssRx'.q = ssRx.q
           \/ /\ ssKind.rx = "ring" => Len(ssRx.q) # SsCap
              /\ ssRx'.q = Append(ssRx.q, c) /\ (ssRx'.overflow <=> ssRx.overflow)
    BY <1>1, <1>2, <1>4, RxCharEffect
  <2>2. UpTo(ssGot, c) /\ UpTo(ssRx.q, c) /\ c \in Nat
    <3>1. \A i \in 1 .. Len(ssGot) : ssGot[i] \in Nat /\ ssGot[i] <= ssEnv.chars
      BY <1>1, <1>2 DEF SsRxInv, UpTo
    <3>2. \A i \in 1 .. Len(ssRx.q) : ssRx.q[i] \in Nat /\ ssRx.q[i] <= ssEnv.chars
      BY <1>1, <1>2 DEF SsRxInv, UpTo
    <3>3. c \in Nat /\ \A n \in Nat : n <= ssEnv.chars => n <= c
      BY <1>2
    <3> QED BY <3>1, <3>2, <3>3 DEF UpTo
  <2>3. CASE ssKind.rx = "ring" /\ ssRx'.q = ssRx.q
    BY <1>1, <1>2, <2>1, <2>2, <2>3 DEF SsRxInv
  <2>4. CASE /\ ssKind.rx = "ring" => Len(ssRx.q) # SsCap
             /\ ssRx'.q = Append(ssRx.q, c) /\ (ssRx'.overflow <=> ssRx.overflow)
    <3>1. Ahead(ssGot, <<c>>) /\ Ahead(ssRx.q, <<c>>)
      <4>1. Len(<<c>>) = 1 /\ <<c>>[1] = c
        OBVIOUS
      <4>2. \A i \in 1 .. Len(ssGot) : ssGot[i] < c
        BY <1>1, <1>2 DEF SsRxInv, UpTo
      <4>3. \A i \in 1 .. Len(ssRx.q) : ssRx.q[i] < c
        BY <1>1, <1>2 DEF SsRxInv, UpTo
      <4> HIDE DEF c
      <4> QED BY <4>1, <4>2, <4>3 DEF Ahead
    <3>2. /\ Len(ssRx'.q) = Len(ssRx.q) + 1 /\ Rising(ssRx'.q) /\ UpTo(ssRx'.q, c)
          /\ Ahead(ssGot, ssRx'.q)
      BY <1>1, <1>2, <2>2, <2>4, <3>1, RisingAppend DEF SsRxInv
    <3>3. Len(ssRx'.q) <= c /\ (ssKind.rx = "ring" => Len(ssRx'.q) <= SsCap)
      BY <1>1, <1>2, <2>4, <3>2 DEF SsRxInv
    <3> QED BY <1>1, <2>1, <2>2, <2>4, <3>2, <3>3 DEF SsRxInv
  <2> QED BY <2>1, <2>3, <2>4
<1>5. CASE RxFault
  BY <1>1, <1>5, RxFaultEffect DEF SsRxInv
<1>6. ASSUME ssRx'.q = <<>> PROVE /\ Ahead(ssGot, ssRx'.q) /\ Rising(ssRx'.q)
                                  /\ UpTo(ssRx'.q, ssEnv.chars) /\ Len(ssRx'.q) = 0
  BY <1>6, RisingEmpty
<1>7. CASE RingOverflow
  <2>1. ssKind.rx = "ring" /\ ssKind.rx # "dma" /\ ssRx'.q = ssRx.q /\ ssGot' = ssGot
        /\ UNCHANGED <<ssKind, ssEnv>> /\ ssCall'.pc # "snap"
    BY <1>1, <1>7, RingOverflowEffect DEF Retried
  <2> QED BY <1>1, <2>1 DEF SsRxInv
<1>8. CASE LineErrorLook
  <2>1. ssGot' = ssGot /\ UNCHANGED <<ssKind, ssEnv>> /\ (ssRx'.overflow <=> ssRx.overflow)
        /\ (ssRx'.q = ssRx.q \/ ssRx'.q = <<>>)
        /\ (ssKind.rx = "ring" => ssCall'.pc # "snap")
        /\ (ssKind.rx = "dma" => ssCall'.pc \notin {"line", "pop"})
    BY <1>1, <1>8, LineErrorLookEffect DEF Retried
  <2>2. CASE ssRx'.q = ssRx.q
    BY <1>1, <2>1, <2>2 DEF SsRxInv
  <2>3. CASE ssRx'.q = <<>>
    BY <1>1, <1>2, <1>6, <2>1, <2>3 DEF SsRxInv
  <2> QED BY <2>1, <2>2, <2>3
<1>9. CASE SnapshotLook
  <2>1. ssKind.rx = "dma" /\ ssKind.rx # "ring" /\ UNCHANGED <<ssKind, ssEnv>>
        /\ (ssRx'.overflow <=> ssRx.overflow) /\ ssCall'.pc \notin {"line", "pop"}
    BY <1>1, <1>2, <1>9, SnapshotLookEffect DEF Retried, SsRxInv
  <2>2. CASE ssRx'.q = <<>> /\ ssGot' = ssGot
    BY <1>1, <1>2, <1>6, <2>1, <2>2 DEF SsRxInv
  <2>3. CASE /\ Fits \in 0 .. Len(ssRx.q) /\ ssGot' = ssGot \o SubSeq(ssRx.q, 1, Fits)
             /\ ssRx'.q = SubSeq(ssRx.q, Fits + 1, Len(ssRx.q))
    <3>1. /\ Rising(ssGot') /\ Rising(ssRx'.q) /\ Ahead(ssGot', ssRx'.q)
          /\ UpTo(ssGot', ssEnv.chars) /\ UpTo(ssRx'.q, ssEnv.chars)
          /\ Len(ssRx'.q) = Len(ssRx.q) - Fits
      BY <1>1, <1>2, <2>3, RisingMove DEF SsRxInv
    <3>2. Len(ssRx'.q) <= ssEnv.chars
      BY <1>1, <1>2, <2>3, <3>1 DEF SsRxInv
    <3> QED BY <1>1, <2>1, <3>1, <3>2 DEF SsRxInv
  <2> QED BY <1>1, <1>9, <2>2, <2>3, SnapshotLookEffect
<1>10. CASE PopByte
  <2>1. ssKind.rx = "ring" /\ ssKind.rx # "dma" /\ UNCHANGED <<ssKind, ssEnv>>
    BY <1>1, <1>2, <1>10, PopByteEffect DEF SsRxInv
  <2>2. CASE /\ ssRx.q # <<>> /\ ssGot' = Append(ssGot, Head(ssRx.q)) /\ ssRx'.q = Tail(ssRx.q)
             /\ ssCall'.pc = "pop"
    <3> DEFINE h == Head(ssRx.q)
               t == Tail(ssRx.q)
    <3>1. /\ h \in Nat /\ t \in Seq(Nat) /\ Len(t) = Len(ssRx.q) - 1
          /\ Rising(t) /\ Ahead(<<h>>, t) /\ Ahead(ssGot, t) /\ Ahead(ssGot, <<h>>)
          /\ UpTo(t, ssEnv.chars) /\ h <= ssEnv.chars
      BY <1>1, <1>2, <2>2, RisingTail DEF SsRxInv
    <3>2. ssGot' = Append(ssGot, h) /\ ssRx'.q = t
      BY <2>2
    <3> HIDE DEF h, t
    <3>3. Rising(ssGot') /\ Ahead(ssGot', t) /\ UpTo(ssGot', ssEnv.chars)
      BY <1>1, <1>2, <3>1, <3>2, RisingAppend DEF SsRxInv
    <3>4. Len(t) <= ssEnv.chars /\ Len(t) <= SsCap
      BY <1>1, <1>2, <2>1, <3>1 DEF SsRxInv
    <3> QED BY <1>1, <2>1, <2>2, <3>1, <3>2, <3>3, <3>4 DEF SsRxInv
  <2>3. CASE ssRx' = ssRx /\ ssGot' = ssGot /\ SsReadReturn(ssCall.tries)
    <3>1. ssCall \in SsReads /\ ssCall.tries \in Nat
      BY <1>1, <1>10, PopByteEffect DEF SsReads
    <3>2. ssCall'.pc = "idle"
      BY <2>3, <3>1, SsReadReturnEffect
    <3> QED BY <1>1, <2>1, <2>3, <3>2 DEF SsRxInv
  <2> QED BY <1>1, <1>10, <2>2, <2>3, PopByteEffect
<1> QED BY <1>3, <1>4, <1>5, <1>7, <1>8, <1>9, <1>10
     DEF SsAction, SsTxSide, SsBetween

\* What is latched of each counter.
ErrLatch(c) == IF ssRx.line_error # "none" /\ CounterOf(ssRx.line_error) = c THEN 1 ELSE 0
LapLatch == IF ssRx.overflow \/ Lapped THEN 1 ELSE 0
SsCounted ==
  /\ ssCnt["line_errors"] + ErrLatch("line_errors") = ssEnv.line_errors
  /\ ssKind.rx = "ring" =>
       ssCnt["lap_overruns"] + ErrLatch("lap_overruns") + LapLatch = ssEnv.lap_overruns
  /\ ssKind.rx = "dma" =>
       ssCnt["lap_overruns"] + ErrLatch("lap_overruns") + LapLatch <= ssEnv.lap_overruns

\* The sum over the latches, opened.
LEMMA SsCountedOpen ==
  SsShapes => (SsCountedOnce <=> SsCounted)
<1> SUFFICES ASSUME SsShapes PROVE SsCountedOnce <=> SsCounted
  OBVIOUS
<1>1. {"line_errors", "lap_overruns"} \subseteq Counters /\ ssCnt \in [Counters -> Nat]
  BY DEF Counters, SsShapes
<1>2. ssCnt["line_errors"] \in Nat /\ ssCnt["lap_overruns"] \in Nat
  BY <1>1
<1> QED BY <1>2 DEF SsCountedOnce, SsCounted, ErrLatch, LapLatch

\* What the latches hold depends on the fields they are made of.
LEMMA LatchFrame ==
  ASSUME SsAssumption, SsShapes, ssKind' = ssKind
  PROVE  /\ ssRx'.line_error = ssRx.line_error =>
              ErrLatch("line_errors")' = ErrLatch("line_errors")
              /\ ErrLatch("lap_overruns")' = ErrLatch("lap_overruns")
         /\ ssKind.rx = "ring" =>
              /\ LapLatch = IF ssRx.overflow THEN 1 ELSE 0
              /\ LapLatch' = IF ssRx'.overflow THEN 1 ELSE 0
         /\ ssKind.rx = "dma" =>
              /\ LapLatch = IF ssRx.overflow \/ Len(ssRx.q) > SsCap THEN 1 ELSE 0
              /\ LapLatch' = IF ssRx'.overflow \/ Len(ssRx'.q) > SsCap THEN 1 ELSE 0
         /\ ErrLatch("line_errors") \in {0, 1} /\ ErrLatch("line_errors")' \in {0, 1}
         /\ ErrLatch("lap_overruns") \in {0, 1} /\ ErrLatch("lap_overruns")' \in {0, 1}
         /\ LapLatch \in {0, 1} /\ LapLatch' \in {0, 1}
         /\ ssKind.rx \in {"ring", "dma"}
<1>1. ssKind.rx \in {"ring", "dma"}
  BY DEF SsShapes, SsKindSet
<1>2. ssRx'.line_error = ssRx.line_error =>
        ErrLatch("line_errors")' = ErrLatch("line_errors")
        /\ ErrLatch("lap_overruns")' = ErrLatch("lap_overruns")
  BY DEF ErrLatch, CounterOf
<1>3. ssKind.rx = "ring" =>
        /\ LapLatch = IF ssRx.overflow THEN 1 ELSE 0
        /\ LapLatch' = IF ssRx'.overflow THEN 1 ELSE 0
  BY DEF LapLatch, Lapped
<1>4. ssKind.rx = "dma" =>
        /\ LapLatch = IF ssRx.overflow \/ Len(ssRx.q) > SsCap THEN 1 ELSE 0
        /\ LapLatch' = IF ssRx'.overflow \/ Len(ssRx'.q) > SsCap THEN 1 ELSE 0
  BY DEF LapLatch, Lapped
<1>5. /\ ErrLatch("line_errors") \in {0, 1} /\ ErrLatch("line_errors")' \in {0, 1}
      /\ ErrLatch("lap_overruns") \in {0, 1} /\ ErrLatch("lap_overruns")' \in {0, 1}
      /\ LapLatch \in {0, 1} /\ LapLatch' \in {0, 1}
  BY DEF ErrLatch, LapLatch
<1> QED BY <1>1, <1>2, <1>3, <1>4, <1>5

\* Each condition is counted once.
LEMMA SsCountNext == ASSUME SsAssumption, SsIInv, SsAction PROVE SsCountedOnce'
<1> DEFINE e == "line_errors"
           o == "lap_overruns"
<1>1. SsShapes /\ SsShapes' /\ SsRxInv /\ SsCounted
  BY SsShapesNext, SsCountedOpen DEF SsIInv
<1>2. /\ ssCnt[e] \in Nat /\ ssCnt[o] \in Nat /\ ssCnt[e]' \in Nat /\ ssCnt[o]' \in Nat
      /\ ssEnv.line_errors \in Nat /\ ssEnv.lap_overruns \in Nat
      /\ Len(ssRx.q) \in Nat /\ SsCap \in Nat \ {0} /\ e \in Counters /\ o \in Counters /\ e # o
  BY <1>1, SsAssumption DEF SsShapes, Counters, SsEnvSet, SsRxSet, SsAssumption
<1>3. ssKind' = ssKind
  BY <1>1, SsRxQuiet, SsTxQuiet DEF SsAction, SsTxSide, SsBetween, SsRxSide, SsReadStep
<1>4. SsCountedOnce' <=> SsCounted'
  BY <1>1, SsCountedOpen, PTL
<1> SUFFICES SsCounted'
  BY <1>4
<1>5. CASE SsTxSide \/ SsBetween
  <2>1. UNCHANGED <<ssKind, ssRx, ssEnv>> /\ ssCnt'[e] = ssCnt[e] /\ ssCnt'[o] = ssCnt[o]
    BY <1>1, <1>5, SsRxQuiet
  <2>2. ErrLatch(e)' = ErrLatch(e) /\ ErrLatch(o)' = ErrLatch(o) /\ LapLatch' = LapLatch
    BY <2>1 DEF ErrLatch, LapLatch, CounterOf, Lapped
  <2> QED BY <1>1, <2>1, <2>2 DEF SsCounted
<1>6. CASE RxChar
  <2>1. /\ ssRx'.line_error = ssRx.line_error /\ ssCnt' = ssCnt
        /\ ssEnv'.line_errors = ssEnv.line_errors
    BY <1>1, <1>6, RxCharEffect
  <2>2. ErrLatch(e)' = ErrLatch(e) /\ ErrLatch(o)' = ErrLatch(o)
    BY <1>1, <1>3, <2>1, LatchFrame
  <2>3. CASE ssKind.rx = "ring"
    <3>1. LapLatch' - LapLatch = ssEnv'.lap_overruns - ssEnv.lap_overruns
      BY <1>1, <1>2, <1>3, <1>6, <2>3, RxCharEffect, LatchFrame
    <3>2. LapLatch \in {0, 1} /\ LapLatch' \in {0, 1} /\ ErrLatch(o) \in {0, 1}
          /\ ssEnv'.lap_overruns \in Nat /\ ssKind.rx # "dma"
      BY <1>1, <1>3, <2>3, LatchFrame DEF SsShapes, SsEnvSet
    <3>3. ssCnt[o] + ErrLatch(o) + LapLatch = ssEnv.lap_overruns
      BY <1>1, <2>3 DEF SsCounted
    <3>4. ssCnt[o] + ErrLatch(o) + LapLatch' = ssEnv'.lap_overruns
      BY <1>2, <3>1, <3>2, <3>3
    <3> QED BY <1>1, <1>3, <2>1, <2>2, <2>3, <3>2, <3>4 DEF SsCounted
  <2>4. CASE ssKind.rx = "dma"
    <3>1. /\ ssRx'.q = Append(ssRx.q, ssEnv.chars + 1) /\ (ssRx'.overflow <=> ssRx.overflow)
          /\ ssEnv'.lap_overruns = IF Len(ssRx.q) = SsCap THEN ssEnv.lap_overruns + 1
                                   ELSE ssEnv.lap_overruns
      BY <1>1, <1>6, <2>4, RxCharEffect
    <3>2. Len(ssRx'.q) = Len(ssRx.q) + 1
      BY <1>1, <3>1 DEF SsShapes, SsRxSet, SsEnvSet
    <3>3. ~ssRx.overflow
      BY <1>1, <2>4 DEF SsRxInv
    <3>4. LapLatch' - LapLatch = ssEnv'.lap_overruns - ssEnv.lap_overruns
      BY <1>1, <1>2, <1>3, <2>4, <3>1, <3>2, <3>3, LatchFrame
    <3> QED BY <1>1, <1>2, <1>3, <2>1, <2>2, <2>4, <3>1, <3>4, LatchFrame DEF SsCounted
  <2> QED BY <1>1, <1>3, <2>3, <2>4, LatchFrame
<1>7. CASE RxFault
  <2>1. /\ ssCnt' = ssCnt /\ ssRx'.q = ssRx.q /\ (ssRx'.overflow <=> ssRx.overflow)
    BY <1>1, <1>7, RxFaultEffect
  <2>2. LapLatch' = LapLatch
    BY <1>3, <2>1 DEF LapLatch, Lapped
  <2>3. CASE /\ ssRx.line_error # "none" /\ ssRx'.line_error = ssRx.line_error
             /\ ssEnv'.line_errors = ssEnv.line_errors
             /\ ssEnv'.lap_overruns = ssEnv.lap_overruns
    <3>1. ErrLatch(e)' = ErrLatch(e) /\ ErrLatch(o)' = ErrLatch(o)
      BY <1>1, <1>3, <2>3, LatchFrame
    <3> QED BY <1>1, <1>3, <2>1, <2>2, <2>3, <3>1 DEF SsCounted
  <2>4. CASE /\ ssRx.line_error = "none" /\ ssRx'.line_error # "none"
             /\ ssEnv'.line_errors = IF CounterOf(ssRx'.line_error) = "line_errors"
                                     THEN ssEnv.line_errors + 1 ELSE ssEnv.line_errors
             /\ ssEnv'.lap_overruns = IF CounterOf(ssRx'.line_error) = "lap_overruns"
                                      THEN ssEnv.lap_overruns + 1 ELSE ssEnv.lap_overruns
    <3>1. ErrLatch(e) = 0 /\ ErrLatch(o) = 0
      BY <2>4 DEF ErrLatch
    <3>2. /\ ErrLatch(e)' = IF CounterOf(ssRx'.line_error) = e THEN 1 ELSE 0
          /\ ErrLatch(o)' = IF CounterOf(ssRx'.line_error) = o THEN 1 ELSE 0
      BY <1>3, <2>4 DEF ErrLatch, CounterOf
    <3>3. ErrLatch(e)' = ssEnv'.line_errors - ssEnv.line_errors
      BY <1>2, <2>4, <3>2
    <3>4. ErrLatch(o)' = ssEnv'.lap_overruns - ssEnv.lap_overruns
      BY <1>2, <2>4, <3>2
    <3>5. ssEnv'.line_errors \in Nat /\ ssEnv'.lap_overruns \in Nat
      BY <1>1 DEF SsShapes, SsEnvSet
    <3>6. LapLatch \in {0, 1} /\ ErrLatch(e)' \in {0, 1} /\ ErrLatch(o)' \in {0, 1}
      BY <1>1, <1>3, LatchFrame
    <3>7. ssCnt'[e] + ErrLatch(e)' = ssEnv'.line_errors
      BY <1>1, <1>2, <2>1, <3>1, <3>3, <3>5, <3>6 DEF SsCounted
    <3>8. ssCnt'[o] + ErrLatch(o)' + LapLatch'
            = ssCnt[o] + ErrLatch(o) + LapLatch + (ssEnv'.lap_overruns - ssEnv.lap_overruns)
      BY <1>2, <2>1, <2>2, <3>1, <3>4, <3>5, <3>6
    <3>9. /\ ssKind.rx = "ring" => ssCnt'[o] + ErrLatch(o)' + LapLatch' = ssEnv'.lap_overruns
          /\ ssKind.rx = "dma" => ssCnt'[o] + ErrLatch(o)' + LapLatch' <= ssEnv'.lap_overruns
      <4>1. /\ ssKind.rx = "ring" => ssCnt[o] + ErrLatch(o) + LapLatch = ssEnv.lap_overruns
            /\ ssKind.rx = "dma" => ssCnt[o] + ErrLatch(o) + LapLatch <= ssEnv.lap_overruns
        BY <1>1 DEF SsCounted
      <4>2. ssCnt[o] + ErrLatch(o) + LapLatch \in Nat
        BY <1>2, <3>1, <3>6
      <4> QED BY <1>2, <3>5, <3>8, <4>1, <4>2
    <3> QED BY <1>3, <3>7, <3>9 DEF SsCounted
  <2> QED BY <1>1, <1>7, <2>3, <2>4, RxFaultEffect
<1>8. CASE RingOverflow
  <2>1. /\ ssKind.rx = "ring" /\ ssKind.rx # "dma" /\ ssRx'.line_error = ssRx.line_error
        /\ ~ssRx'.overflow /\ ssEnv' = ssEnv
    BY <1>1, <1>8, RingOverflowEffect
  <2>2. ErrLatch(e)' = ErrLatch(e) /\ ErrLatch(o)' = ErrLatch(o)
    BY <1>1, <1>3, <2>1, LatchFrame
  <2>3. /\ LapLatch = IF ssRx.overflow THEN 1 ELSE 0
        /\ LapLatch' = 0
    BY <1>1, <1>3, <2>1, LatchFrame
  <2>4. \/ ssRx.overflow /\ ssCnt'[o] = ssCnt[o] + 1 /\ ssCnt'[e] = ssCnt[e]
        \/ ~ssRx.overflow /\ ssCnt' = ssCnt
    BY <1>1, <1>2, <1>8, RingOverflowEffect
  <2> QED BY <1>1, <1>2, <1>3, <2>1, <2>2, <2>3, <2>4, LatchFrame DEF SsCounted
<1>9. CASE LineErrorLook
  <2> DEFINE c == CounterOf(ssRx.line_error)
  <2>1. /\ (ssRx'.overflow <=> ssRx.overflow) /\ ssRx'.line_error = "none" /\ ssEnv' = ssEnv
    BY <1>1, <1>9, LineErrorLookEffect
  <2>2. ErrLatch(e)' = 0 /\ ErrLatch(o)' = 0
    BY <2>1 DEF ErrLatch
  <2>3. c \in {e, o} /\ (ssKind.rx = "dma" => c = e)
    BY DEF CounterOf
  <2>4. CASE ssRx.line_error = "none" /\ ssRx' = ssRx /\ ssCnt' = ssCnt
    <3>1. LapLatch' = LapLatch /\ ErrLatch(e) = 0 /\ ErrLatch(o) = 0
      BY <1>3, <2>4 DEF LapLatch, Lapped, ErrLatch
    <3> QED BY <1>1, <1>3, <2>1, <2>2, <2>4, <3>1 DEF SsCounted
  <2>5. CASE /\ ssRx.line_error # "none"
             /\ ssRx'.q = IF ssKind.rx = "dma" THEN <<>> ELSE ssRx.q
             /\ ssCnt'[c] = ssCnt[c] + 1 /\ \A k \in Counters \ {c} : ssCnt'[k] = ssCnt[k]
    <3>1. ErrLatch(e) = (IF c = e THEN 1 ELSE 0) /\ ErrLatch(o) = (IF c = o THEN 1 ELSE 0)
      BY <2>5 DEF ErrLatch
    <3> HIDE DEF c
    <3>2. ssCnt'[e] = ssCnt[e] + ErrLatch(e) /\ ssCnt'[o] = ssCnt[o] + ErrLatch(o)
      BY <1>2, <2>3, <2>5, <3>1
    <3>3. CASE ssKind.rx = "ring"
      <4>1. LapLatch' = LapLatch
        BY <1>1, <1>3, <2>1, <3>3, LatchFrame
      <4> QED BY <1>1, <1>2, <1>3, <2>1, <2>2, <3>2, <3>3, <4>1, LatchFrame DEF SsCounted
    <3>4. CASE ssKind.rx = "dma"
      <4>1. ssRx'.q = <<>> /\ ~ssRx.overflow
        BY <1>1, <2>5, <3>4 DEF SsRxInv
      <4>2. LapLatch' = 0
        BY <1>1, <1>2, <1>3, <2>1, <3>4, <4>1, LatchFrame
      <4> QED BY <1>1, <1>2, <1>3, <2>1, <2>2, <3>2, <3>4, <4>2, LatchFrame DEF SsCounted
    <3> QED BY <1>1, <1>3, <3>3, <3>4, LatchFrame
  <2> QED BY <1>1, <1>9, <2>4, <2>5, LineErrorLookEffect
<1>10. CASE SnapshotLook
  <2>1. /\ ssCall.pc = "snap" /\ (ssRx'.overflow <=> ssRx.overflow)
        /\ ssRx'.line_error = ssRx.line_error /\ ssEnv' = ssEnv
    BY <1>1, <1>10, SnapshotLookEffect
  <2>2. ssKind.rx = "dma" /\ ~ssRx.overflow /\ ssKind.rx # "ring"
    BY <1>1, <1>3, <2>1, LatchFrame DEF SsRxInv
  <2>3. ErrLatch(e)' = ErrLatch(e) /\ ErrLatch(o)' = ErrLatch(o)
    BY <1>1, <1>3, <2>1, LatchFrame
  <2>4. CASE /\ Lapped /\ ssRx'.q = <<>> /\ ssCnt'[o] = ssCnt[o] + 1
             /\ \A k \in Counters \ {o} : ssCnt'[k] = ssCnt[k]
    <3>1. LapLatch = 1
      BY <2>4 DEF LapLatch
    <3>2. LapLatch' = 0
      BY <1>1, <1>2, <1>3, <2>1, <2>2, <2>4, LatchFrame
    <3>3. ssCnt'[e] = ssCnt[e]
      BY <1>2, <2>4
    <3> QED BY <1>1, <1>2, <1>3, <2>1, <2>2, <2>3, <2>4, <3>1, <3>2, <3>3, LatchFrame DEF SsCounted
  <2>5. CASE /\ ~Lapped /\ ssCnt' = ssCnt /\ Fits \in 0 .. Len(ssRx.q)
             /\ ssRx'.q = SubSeq(ssRx.q, Fits + 1, Len(ssRx.q))
    <3>1. LapLatch = 0 /\ Len(ssRx.q) <= SsCap
      BY <1>2, <2>2, <2>5 DEF LapLatch, Lapped
    <3>2. Len(ssRx'.q) <= SsCap
      <4>1. ssRx.q \in Seq(Nat) /\ Fits \in Nat
        BY <1>1, <1>2, <2>5 DEF SsShapes, SsRxSet
      <4>2. Len(ssRx'.q) = Len(ssRx.q) - Fits
        BY <1>2, <2>5, <4>1
      <4> QED BY <1>2, <2>5, <3>1, <4>1, <4>2
    <3>3. LapLatch' = 0
      <4>1. Len(ssRx'.q) \in Nat
        BY <1>1 DEF SsShapes, SsRxSet
      <4> QED BY <1>1, <1>2, <1>3, <2>1, <2>2, <3>2, <4>1, LatchFrame
    <3> QED BY <1>1, <1>3, <2>1, <2>2, <2>3, <2>5, <3>1, <3>3 DEF SsCounted
  <2> QED BY <1>1, <1>10, <2>4, <2>5, SnapshotLookEffect
<1>11. CASE PopByte
  <2>1. /\ ssCall.pc = "pop" /\ (ssRx'.overflow <=> ssRx.overflow)
        /\ ssRx'.line_error = ssRx.line_error /\ ssEnv' = ssEnv /\ ssCnt' = ssCnt
    BY <1>1, <1>11, PopByteEffect
  <2>2. ssKind.rx = "ring"
    BY <1>1, <1>3, <2>1, LatchFrame DEF SsRxInv
  <2>3. ErrLatch(e)' = ErrLatch(e) /\ ErrLatch(o)' = ErrLatch(o) /\ LapLatch' = LapLatch
    BY <1>1, <1>3, <2>1, <2>2, LatchFrame
  <2> QED BY <1>1, <1>3, <2>1, <2>2, <2>3 DEF SsCounted
<1> QED BY <1>5, <1>6, <1>7, <1>8, <1>9, <1>10, <1>11 DEF SsAction, SsTxSide, SsBetween

\* A step that leaves no read behind keeps what reads promise.
LEMMA SsNoRead ==
  ASSUME ssCall'.pc \notin SsReadPcs, ssLast'.op \notin {"ready", "read"}
  PROVE  SsReadyInv' /\ SsEmptyMeansEmpty' /\ SsReadyHonest'
  BY DEF SsReadyInv, SsReadPcs, SsEmptyMeansEmpty, SsReadyHonest

\* A condition that surfaces excuses an empty answer.
LEMMA SsRetriedReady ==
  ASSUME SsReadyInv, ssCall \in SsReads, ssCall.pc # "pop", ssLast.op = "none", Retried
  PROVE  SsReadyInv' /\ SsEmptyMeansEmpty' /\ SsReadyHonest'
<1>1. ssCall.n = 0 /\ ssCall.tries \in 0 .. 3
  BY DEF SsReadyInv, SsReads, SsReadPcs
<1>2. CASE ssCall'.pc = "cond" /\ ssCall'.n = ssCall.n /\ ssCall'.tries = ssCall.tries + 1
           /\ ssLast' = ssLast
  <2>1. ssCall'.tries # 0 /\ ssCall'.n = 0 /\ ssLast'.op = "none"
    BY <1>1, <1>2
  <2> QED BY <2>1 DEF SsReadyInv, SsReadPcs, SsEmptyMeansEmpty, SsReadyHonest
<1>3. CASE ssCall'.pc = "idle" /\ ssLast'.op = "read" /\ ssLast'.tries = 4
  BY <1>3 DEF SsReadyInv, SsReadPcs, SsEmptyMeansEmpty, SsReadyHonest
<1> QED BY <1>2, <1>3 DEF Retried

\* What read_ready and the empty answer promise.
LEMMA SsReadyNext ==
  ASSUME SsAssumption, SsIInv, SsAction
  PROVE  SsReadyInv' /\ SsEmptyMeansEmpty' /\ SsReadyHonest'
<1>1. SsShapes /\ SsRxInv /\ SsReadyInv /\ SsEmptyMeansEmpty /\ SsReadyHonest
  BY DEF SsIInv
<1>2. ssRx.q \in Seq(Nat) /\ Len(ssRx.q) \in Nat /\ SsCap \in Nat \ {0}
      /\ ssKind.rx \in {"ring", "dma"}
  BY <1>1, SsAssumption DEF SsShapes, SsRxSet, SsAssumption, SsKindSet
<1>3. ssCall.pc # "idle" => ssLast.op = "none"
  BY <1>1 DEF SsShapes
<1>4. ssCall \in SsReads => ssCall.pc \in SsReadPcs /\ ssCall.pc # "idle" /\ ssCall.n \in Nat
                            /\ ssCall.tries \in 0 .. 3 /\ ssLast.op = "none"
  BY <1>3 DEF SsReads, SsReadPcs
<1>5. ssCall \in SsWrites \cup SsFlushes => ssCall.pc \notin SsReadPcs /\ ssLast.op = "none"
  BY <1>3 DEF SsWrites, SsFlushes, SsReadPcs
<1>6. ssCall = SsIdle => ssCall.pc = "idle" /\ ssCall.pc \notin SsReadPcs
  BY SsIdleShape DEF SsReadPcs
<1>7. "idle" \notin SsReadPcs /\ "first" \notin SsReadPcs /\ "rest" \notin SsReadPcs
      /\ "flush" \notin SsReadPcs
  BY DEF SsReadPcs
<1>8. CASE TxWire
  <2>1. UNCHANGED <<ssRx, ssCall, ssLast>>
    BY <1>1, <1>8, TxWireEffect
  <2> QED BY <1>1, <2>1 DEF SsReadyInv, Latched, SsEmptyMeansEmpty, SsReadyHonest
<1>9. CASE RxChar
  <2>1. UNCHANGED <<ssCall, ssLast>>
    BY <1>1, <1>9, RxCharEffect
  <2>2. ssRx'.q # <<>>
    <3>1. CASE Len(ssRx.q) = SsCap /\ ssRx'.q = ssRx.q
      BY <1>2, <3>1
    <3>2. CASE ssRx'.q = Append(ssRx.q, ssEnv.chars + 1)
      BY <1>2, <3>2
    <3> QED BY <1>1, <1>9, <3>1, <3>2, RxCharEffect
  <2> QED BY <1>1, <2>1, <2>2 DEF SsReadyInv, SsEmptyMeansEmpty, SsReadyHonest
<1>10. CASE RxFault
  <2>1. /\ UNCHANGED <<ssCall, ssLast>> /\ ssRx'.q = ssRx.q
        /\ (ssRx'.overflow <=> ssRx.overflow) /\ ssRx'.line_error # "none"
    BY <1>1, <1>10, RxFaultEffect
  <2> QED BY <1>1, <2>1 DEF SsReadyInv, Latched, SsEmptyMeansEmpty, SsReadyHonest
<1>11. CASE SsReadReady
  <2>1. /\ ssCall'.pc = "idle" /\ ssRx' = ssRx /\ ssLast'.op = "ready"
        /\ ssLast'.yes <=> (ssRx.q # <<>> \/ Latched)
    BY <1>1, <1>6, <1>11, SsReadReadyEffect
  <2> QED BY <1>7, <2>1 DEF SsReadyInv, Latched, SsEmptyMeansEmpty, SsReadyHonest
<1>12. CASE SsReadCall
  <2>1. /\ ssCall'.pc = "cond" /\ ssCall'.n = 0 /\ ssRx' = ssRx /\ ssLast'.op = "none"
        /\ ssCall'.ready => ssLast.op = "ready" /\ ssLast.yes
    BY <1>1, <1>12, SsReadCallEffect
  <2>2. ssCall'.ready => ssRx.q # <<>> \/ Latched
    BY <1>1, <2>1 DEF SsReadyInv
  <2> QED BY <2>1, <2>2 DEF SsReadyInv, Latched, SsEmptyMeansEmpty, SsReadyHonest
<1>13. CASE RingOverflow
  <2>1. ssCall \in SsReads /\ ssCall.pc = "cond" /\ ssLast.op = "none"
    BY <1>1, <1>4, <1>13, RingOverflowEffect
  <2>2. CASE Retried
    BY <1>1, <2>1, <2>2, SsRetriedReady
  <2>3. CASE /\ ~ssRx.overflow /\ ssLast' = ssLast /\ ssCall'.pc = "line" /\ ssCall'.n = ssCall.n
             /\ ssCall'.tries = ssCall.tries /\ (ssCall'.ready <=> ssCall.ready)
    <3>1. ssRx'.q = ssRx.q /\ ssRx'.line_error = ssRx.line_error
      BY <1>1, <1>13, RingOverflowEffect
    <3>2. ssCall.n = 0
      BY <1>1, <2>1 DEF SsReadyInv
    <3>3. ssCall'.ready /\ ssCall'.tries = 0 => ssRx.q # <<>> \/ ssRx.line_error # "none"
      BY <1>1, <2>1, <2>3, <3>2 DEF SsReadyInv, SsReadPcs
    <3> QED BY <2>1, <2>3, <3>1, <3>2, <3>3
            DEF SsReadyInv, SsReadPcs, SsEmptyMeansEmpty, SsReadyHonest
  <2> QED BY <1>1, <1>13, <2>2, <2>3, RingOverflowEffect
<1>14. CASE LineErrorLook
  <2>1. /\ ssCall \in SsReads /\ ssLast.op = "none" /\ ssCall.pc # "pop"
        /\ (ssCall.pc = "line" \/ (ssCall.pc = "cond" /\ ssKind.rx = "dma"))
    BY <1>1, <1>4, <1>14, LineErrorLookEffect
  <2>2. CASE Retried
    BY <1>1, <2>1, <2>2, SsRetriedReady
  <2>3. CASE /\ ssRx.line_error = "none" /\ ssRx' = ssRx /\ ssLast' = ssLast
             /\ ssCall'.pc = IF ssKind.rx = "dma" THEN "snap" ELSE "pop"
             /\ ssCall'.n = ssCall.n
             /\ ssCall'.tries = ssCall.tries /\ (ssCall'.ready <=> ssCall.ready)
    <3>1. ssCall.n = 0
      BY <1>1, <2>1 DEF SsReadyInv
    <3>2. ssCall.pc = "cond" => ~ssRx.overflow
      BY <1>1, <2>1 DEF SsRxInv
    <3>3. ssCall'.ready /\ ssCall'.tries = 0 => ssRx.q # <<>>
      BY <1>1, <2>1, <2>3, <3>1, <3>2 DEF SsReadyInv, SsReadPcs
    <3>4. ssCall'.n = 0 /\ ssLast'.op = "none"
      BY <2>1, <2>3, <3>1
    <3> QED BY <2>3, <3>3, <3>4 DEF SsReadyInv, SsReadPcs, SsEmptyMeansEmpty, SsReadyHonest
  <2> QED BY <1>1, <1>14, <2>2, <2>3, LineErrorLookEffect
<1>15. CASE SnapshotLook
  <2>1. ssCall \in SsReads /\ ssCall.pc = "snap" /\ ssCall.pc # "pop" /\ ssLast.op = "none"
        /\ ssCall.tries \in 0 .. 3
    BY <1>1, <1>4, <1>15, SnapshotLookEffect
  <2>2. CASE Retried
    BY <1>1, <2>1, <2>2, SsRetriedReady
  <2>3. CASE /\ ssCall' = SsIdle /\ ssCall'.pc = "idle"
             /\ ssLast'.op = "read" /\ ssLast'.len = ssCall.len /\ ssLast'.n = Fits
             /\ ssLast'.tries = ssCall.tries /\ ssLast'.ready = ssCall.ready
             /\ ssLast'.left <=> (Fits < Len(ssRx.q))
    <3>1. ssCall.n = 0
      BY <1>1, <2>1 DEF SsReadyInv
    <3>2. ssCall.ready /\ ssCall.tries = 0 => ssRx.q # <<>>
      BY <1>1, <2>1, <3>1 DEF SsReadyInv, SsReadPcs
    <3>3. ssCall.len \in Nat /\ (ssRx.q # <<>> => Len(ssRx.q) > 0)
      BY <1>2, <2>1, SsLens
    <3>4. ssCall.len > 0 /\ Fits = 0 => ~(Fits < Len(ssRx.q))
      BY <1>2, <3>3 DEF Fits
    <3>5. ssCall.len > 0 /\ ssCall.ready => Fits > 0 \/ ssCall.tries > 0
      BY <1>2, <2>1, <3>2, <3>3 DEF Fits
    <3> HIDE DEF Fits
    <3>6. SsEmptyMeansEmpty'
      BY <2>3, <3>4 DEF SsEmptyMeansEmpty
    <3>7. SsReadyHonest'
      BY <2>3, <3>5 DEF SsReadyHonest
    <3>8. SsReadyInv'
      BY <1>7, <2>3 DEF SsReadyInv
    <3> QED BY <3>6, <3>7, <3>8
  <2> QED BY <1>1, <1>15, <2>2, <2>3, SnapshotLookEffect
<1>16. CASE PopByte
  <2>1. ssCall \in SsReads /\ ssCall.pc = "pop" /\ ssLast.op = "none" /\ ssCall.n \in Nat
        /\ ssCall.tries \in 0 .. 3
    BY <1>1, <1>4, <1>16, PopByteEffect
  <2>2. CASE ssCall'.pc = "pop" /\ ssCall'.n = ssCall.n + 1 /\ ssLast' = ssLast
    <3>1. ssCall'.n # 0 /\ ssLast'.op = "none"
      BY <2>1, <2>2
    <3> QED BY <2>2, <3>1 DEF SsReadyInv, SsEmptyMeansEmpty, SsReadyHonest
  <2>3. CASE ~(ssCall.n < ssCall.len /\ ssRx.q # <<>>) /\ SsReadReturn(ssCall.tries)
    <3>1. ssCall.tries \in Nat /\ ssCall.len \in Nat
      BY <2>1, SsLens
    <3>2. /\ ssCall'.pc = "idle"
          /\ ssLast'.op = "read" /\ ssLast'.len = ssCall.len /\ ssLast'.n = ssCall.n
          /\ ssLast'.tries = ssCall.tries /\ ssLast'.ready = ssCall.ready
          /\ ssLast'.left <=> (ssRx.q # <<>>)
      BY <2>3, <3>1, SsReadReturnEffect
    <3>3. ssCall.len > 0 /\ ssCall.n = 0 => ssRx.q = <<>>
      BY <2>3, <3>1
    <3>4. ssCall.ready /\ ssCall.tries = 0 /\ ssCall.n = 0 => ssRx.q # <<>>
      BY <1>1, <2>1 DEF SsReadyInv, SsReadPcs
    <3>5. SsEmptyMeansEmpty'
      BY <3>2, <3>3 DEF SsEmptyMeansEmpty
    <3>6. SsReadyHonest'
      <4>1. ssCall.len > 0 /\ ssCall.ready => ssCall.n > 0 \/ ssCall.tries > 0
        BY <2>1, <3>3, <3>4
      <4> QED BY <3>2, <4>1 DEF SsReadyHonest
    <3>7. SsReadyInv'
      BY <1>7, <3>2 DEF SsReadyInv
    <3> QED BY <3>5, <3>6, <3>7
  <2> QED BY <1>1, <1>16, <2>2, <2>3, PopByteEffect
<1>17. CASE SsWriteReady
  <2>1. ssCall'.pc = "idle" /\ ssLast'.op = "wready"
    BY <1>1, <1>6, <1>17, SsWriteReadyEffect
  <2> QED BY <1>7, <2>1, SsNoRead
<1>18. CASE SsWriteCall
  <2>1. ssCall'.pc = "first" /\ ssLast'.op = "none"
    BY <1>1, <1>18, SsWriteCallEffect
  <2> QED BY <1>7, <2>1, SsNoRead
<1>19. CASE SsWriteFirst \/ SsWriteRest
  <2>1. ssCall \in SsWrites /\ ssLast.op = "none"
    BY <1>1, <1>5, <1>19, SsWriteFirstEffect, SsWriteRestEffect
  <2>2. ssCall'.pc \in {"idle", "first", "rest"} /\ ssLast'.op \in {"none", "write"}
    <3>1. CASE StoreByte
      BY <1>1, <2>1, <3>1, StoreByteEffect
    <3>2. CASE TrySend
      BY <1>1, <2>1, <3>2, TrySendEffect, WriteReturnEffect
    <3>3. CASE ssCall'.pc = "first" /\ UNCHANGED <<ssTx, ssOut, ssCnt, ssLast>>
      BY <2>1, <3>3
    <3>4. CASE WriteReturn(ssCall.len, TRUE)
      BY <3>4, WriteReturnEffect
    <3>5. CASE WriteReturn(ssCall.n, FALSE)
      BY <3>5, WriteReturnEffect
    <3> QED BY <1>1, <1>19, <3>1, <3>2, <3>3, <3>4, <3>5, SsWriteFirstEffect, SsWriteRestEffect
  <2> QED BY <1>7, <2>2, SsNoRead
<1>20. CASE SsFlushCall
  <2>1. ssCall'.pc = "flush" /\ ssLast'.op = "none"
    BY <1>1, <1>20, SsFlushCallEffect
  <2> QED BY <1>7, <2>1, SsNoRead
<1>21. CASE SsFlush
  <2>1. ssCall \in SsFlushes /\ ssLast.op = "none"
    BY <1>1, <1>5, <1>21, SsFlushEffect
  <2>2. ssCall'.pc \in {"idle", "flush"} /\ ssLast'.op \in {"none", "flush"}
    BY <1>1, <1>21, <2>1, SsFlushEffect
  <2> QED BY <1>7, <2>2, SsNoRead
<1> QED BY <1>8, <1>9, <1>10, <1>11, <1>12, <1>13, <1>14, <1>15, <1>16, <1>17, <1>18, <1>19,
        <1>20, <1>21 DEF SsAction

\* What the receive side answers is no answer about writing.
LEMMA SsTxAnswer ==
  ASSUME SsAssumption, SsShapes,
         SsRxSide \/ SsReadReady \/ SsReadCall \/ SsFlushCall \/ SsFlush
  PROVE  ssLast' = ssLast \/ ssLast'.op \in {"read", "ready", "flush", "none"}
<1>1. CASE RxChar
  BY <1>1, RxCharEffect
<1>2. CASE RxFault
  BY <1>2, RxFaultEffect
<1>3. CASE SsReadReady
  BY <1>3, SsReadReadyEffect
<1>4. CASE SsReadCall
  BY <1>4, SsReadCallEffect
<1>5. CASE RingOverflow
  BY <1>5, RingOverflowEffect DEF Retried
<1>6. CASE LineErrorLook
  BY <1>6, LineErrorLookEffect DEF Retried
<1>7. CASE SnapshotLook
  BY <1>7, SnapshotLookEffect DEF Retried
<1>8. CASE PopByte
  <2>1. ssCall \in SsReads /\ ssCall.tries \in Nat
    BY <1>8, PopByteEffect DEF SsReads
  <2> QED BY <1>8, <2>1, PopByteEffect, SsReadReturnEffect
<1>9. CASE SsFlushCall
  BY <1>9, SsFlushCallEffect
<1>10. CASE SsFlush
  BY <1>10, SsFlushEffect
<1> QED BY <1>1, <1>2, <1>3, <1>4, <1>5, <1>6, <1>7, <1>8, <1>9, <1>10 DEF SsRxSide, SsReadStep

\* What write_ready and write promise.
LEMMA SsWriteNext ==
  ASSUME SsAssumption, SsIInv, SsAction
  PROVE  SsWriteInv' /\ SsWriteHonest'
<1>1. SsShapes /\ SsWriteInv /\ SsWriteHonest
  BY DEF SsIInv
<1>2. ssTx.pend \in Seq(Nat) /\ ssKind.tx \in {"polled", "dma"}
  BY <1>1 DEF SsShapes, SsTxSet, SsKindSet
<1>3. CASE TxWire
  <2>1. UNCHANGED <<ssKind, ssCall, ssLast>>
    BY <1>1, <1>3, TxWireEffect
  <2>2. TxReady => TxReady'
    <3>1. CASE ssTx'.pend = ssTx.pend /\ (ssTx'.fly <=> ssTx.fly) /\ (ssTx'.late <=> ssTx.late)
      BY <2>1, <3>1 DEF TxReady
    <3>2. CASE ssTx.pend # <<>> /\ (ssTx'.fly <=> ssTx.fly) /\ (ssTx'.late <=> ssTx.late)
      BY <2>1, <3>2 DEF TxReady
    <3>3. CASE ssTx'.pend = ssTx.pend /\ (~ssTx'.fly \/ ssTx'.late)
      BY <2>1, <3>3 DEF TxReady
    <3> QED BY <1>1, <1>3, <3>1, <3>2, <3>3, TxWireEffect
  <2> QED BY <1>1, <2>1, <2>2 DEF SsWriteInv, SsWriteHonest
<1>4. CASE SsRxSide \/ SsReadReady \/ SsReadCall \/ SsFlushCall \/ SsFlush
  <2>1. /\ UNCHANGED <<ssKind, ssTx>>
        /\ \/ ssCall' = ssCall
           \/ ssCall.pc \notin {"first", "rest"} /\ ssCall'.pc \notin {"first", "rest"}
    BY <1>1, <1>4, SsTxQuiet
  <2>2. TxReady' <=> TxReady
    BY <2>1 DEF TxReady
  <2>3. ssLast' = ssLast \/ ssLast'.op \notin {"wready", "write"}
    BY <1>1, <1>4, SsTxAnswer
  <2>4. SsWriteHonest'
    BY <1>1, <2>3 DEF SsWriteHonest
  <2>5. ssLast'.op = "wready" /\ ssLast'.yes => TxReady'
    BY <1>1, <2>2, <2>3 DEF SsWriteInv
  <2>6. /\ ssCall'.pc = "first" => ssCall'.n = 0 /\ (ssCall'.ready => TxReady')
        /\ ssCall'.pc = "rest" => ssCall'.n \in 1 .. ssCall'.len /\ ssKind'.tx = "polled"
    BY <1>1, <2>1, <2>2 DEF SsWriteInv
  <2> QED BY <2>4, <2>5, <2>6 DEF SsWriteInv
<1>5. CASE SsWriteReady
  <2>1. /\ ssCall'.pc = "idle" /\ UNCHANGED <<ssKind, ssTx>> /\ ssLast'.op = "wready"
        /\ ssLast'.yes <=> TxReady
    BY <1>1, <1>5, SsWriteReadyEffect, SsIdleShape
  <2>2. TxReady' <=> TxReady
    BY <2>1 DEF TxReady
  <2> QED BY <2>1, <2>2 DEF SsWriteInv, SsWriteHonest
<1>6. CASE SsWriteCall
  <2>1. /\ ssCall'.pc = "first" /\ ssCall'.n = 0 /\ UNCHANGED <<ssKind, ssTx>>
        /\ ssLast'.op = "none" /\ (ssCall'.ready => ssLast.op = "wready" /\ ssLast.yes)
    BY <1>1, <1>6, SsWriteCallEffect
  <2>2. TxReady' <=> TxReady
    BY <2>1 DEF TxReady
  <2>3. ssCall'.ready => TxReady'
    BY <1>1, <2>1, <2>2 DEF SsWriteInv
  <2> QED BY <2>1, <2>3 DEF SsWriteInv, SsWriteHonest
<1>7. ASSUME ssCall \in SsWrites PROVE ssCall.len \in Nat \ {0} /\ ssLast.op = "none"
  BY <1>1, <1>7, SsAssumption DEF SsWrites, SsAssumption, SsShapes
<1>8. ASSUME NEW n, NEW t, t \in BOOLEAN, WriteReturn(n, t), n \in 1 .. ssCall.len,
             t => n = ssCall.len /\ ~ssCall.ready
      PROVE  SsWriteInv' /\ SsWriteHonest'
  <2>1. /\ ssCall'.pc = "idle" /\ ssLast'.op = "write" /\ ssLast'.len = ssCall.len
        /\ ssLast'.n = n /\ (ssLast'.timedOut <=> t) /\ ssLast'.ready = ssCall.ready
    BY <1>8, WriteReturnEffect
  <2>2. SsWriteInv'
    BY <2>1 DEF SsWriteInv
  <2>3. SsWriteHonest'
    BY <1>8, <2>1 DEF SsWriteHonest
  <2> QED BY <2>2, <2>3
<1>9. ASSUME ssCall \in SsWrites, StoreByte, ssCall.n \in Nat, ssCall.n < ssCall.len,
             ssKind.tx = "polled", ssKind' = ssKind
      PROVE  SsWriteInv' /\ SsWriteHonest'
  <2>1. /\ ssCall'.pc = "rest" /\ ssCall'.n = ssCall.n + 1 /\ ssCall'.len = ssCall.len
        /\ ssLast'.op = "none"
    BY <1>1, <1>7, <1>9, StoreByteEffect
  <2>2. ssCall'.n \in 1 .. ssCall'.len
    BY <1>7, <1>9, <2>1
  <2> QED BY <1>9, <2>1, <2>2 DEF SsWriteInv, SsWriteHonest
<1>10. CASE SsWriteFirst
  <2>1. ssCall \in SsWrites /\ ssCall.pc = "first" /\ ssCall.n = 0 /\ ssKind' = ssKind
        /\ (ssCall.ready => TxReady)
    BY <1>1, <1>10, SsWriteFirstEffect DEF SsWriteInv
  <2>2. CASE ssKind.tx = "polled" /\ StoreByte
    <3>1. ssCall.n \in Nat /\ ssCall.n < ssCall.len
      BY <1>7, <2>1
    <3> QED BY <1>9, <2>1, <2>2, <3>1
  <2>3. CASE ssKind.tx = "dma" /\ TrySend
    <3>1. WriteReturn(Staged, FALSE) /\ Staged \in 1 .. ssCall.len
      BY <1>1, <2>1, <2>3, TrySendEffect
    <3> QED BY <1>8, <3>1
  <2>4. CASE /\ ssCall'.pc = "first" /\ ssCall'.n = ssCall.n /\ ssCall'.ready = ssCall.ready
             /\ UNCHANGED <<ssTx, ssOut, ssCnt, ssLast>>
    <3>1. (TxReady' <=> TxReady) /\ ssLast'.op = "none"
      BY <1>7, <2>1, <2>4 DEF TxReady
    <3> QED BY <2>1, <2>4, <3>1 DEF SsWriteInv, SsWriteHonest
  <2>5. CASE ~TxReady /\ WriteReturn(ssCall.len, TRUE)
    <3>1. ssCall.len \in 1 .. ssCall.len /\ ~ssCall.ready
      BY <1>7, <2>1, <2>5
    <3> QED BY <1>8, <2>5, <3>1
  <2> QED BY <1>1, <1>10, <2>2, <2>3, <2>4, <2>5, SsWriteFirstEffect
<1>11. CASE SsWriteRest
  <2>1. ssCall \in SsWrites /\ ssCall.pc = "rest" /\ ssKind' = ssKind
        /\ ssCall.n \in 1 .. ssCall.len /\ ssKind.tx = "polled"
    BY <1>1, <1>11, SsWriteRestEffect DEF SsWriteInv
  <2>2. CASE ssCall.n < ssCall.len /\ StoreByte
    <3>1. ssCall.n \in Nat
      BY <2>1
    <3> QED BY <1>9, <2>1, <2>2, <3>1
  <2>3. CASE WriteReturn(ssCall.n, FALSE)
    BY <1>8, <2>1, <2>3
  <2> QED BY <1>1, <1>11, <2>2, <2>3, SsWriteRestEffect
<1> QED BY <1>3, <1>4, <1>5, <1>6, <1>10, <1>11 DEF SsAction, SsRxSide, SsReadStep

\* Bytes stored after what is on its way keep the order.
LEMMA SsOrderFresh ==
  ASSUME SsShapes, SsTxOrder, ssTx' \in SsTxSet, ssOut' \in SsOutSet,
         ssTx'.shift = ssTx.shift, ssOut'.wire = ssOut.wire, ssOut'.stored >= ssOut.stored,
         Rising(ssTx'.pend), UpTo(ssTx'.pend, ssOut'.stored),
         \A i \in 1 .. Len(ssTx'.pend) : ssTx'.pend[i] > ssOut.stored
  PROVE  SsTxOrder'
<1> DEFINE w == ssOut.wire
           p == ssTx'.pend
           s == ssOut.stored
           z == ssOut'.stored
           h == ssTx.shift
<1>1. w \in Seq(Nat) /\ p \in Seq(Nat) /\ s \in Nat /\ z \in Nat /\ s <= z /\ h \in Nat
  BY DEF SsShapes, SsTxSet, SsOutSet
<1>2. Rising(w) /\ UpTo(w, s) /\ h <= s /\ (h # 0 => Ahead(w, <<h>>))
  BY DEF SsTxOrder
<1>3. \A i \in 1 .. Len(w) : w[i] \in Nat /\ w[i] <= s
  BY <1>1, <1>2 DEF UpTo
<1>4. \A i \in 1 .. Len(p) : p[i] \in Nat /\ p[i] > s
  BY <1>1
<1>5. Len(<<h>>) = 1 /\ <<h>>[1] = h
  OBVIOUS
<1>6. Ahead(w, p)
  <2> SUFFICES ASSUME NEW i \in 1 .. Len(w), NEW j \in 1 .. Len(p) PROVE w[i] < p[j]
    BY DEF Ahead
  <2>1. w[i] \in Nat /\ w[i] <= s /\ p[j] \in Nat /\ p[j] > s
    BY <1>3, <1>4
  <2> HIDE DEF w, p, s
  <2> QED BY <1>1, <2>1
<1>7. Ahead(<<h>>, p)
  BY <1>1, <1>2, <1>4, <1>5 DEF Ahead
<1>8. UpTo(w, z)
  BY <1>1, <1>3 DEF UpTo
<1>9. \A i \in 1 .. Len(p) : p[i] > 0
  BY <1>1, <1>4
<1>10. h <= z
  BY <1>1, <1>2
<1> QED BY <1>2, <1>6, <1>7, <1>8, <1>9, <1>10 DEF SsTxOrder

\* One byte on its own is in order.
LEMMA RisingOne ==
  ASSUME NEW c \in Nat
  PROVE  Rising(<<c>>) /\ UpTo(<<c>>, c) /\ Len(<<c>>) = 1 /\ <<c>>[1] = c
<1>1. Len(<<c>>) = 1 /\ <<c>>[1] = c
  OBVIOUS
<1> QED BY <1>1 DEF Rising, UpTo

\* A byte taken by try_write_byte comes last.
LEMMA StoreByteOrder ==
  ASSUME SsShapes, SsTxOrder, ssCall \in SsWrites, StoreByte
  PROVE  SsTxOrder'
<1> DEFINE c == ssOut.stored + 1
<1>1. /\ ssTx' \in SsTxSet /\ ssOut' \in SsOutSet /\ ssTx'.pend = <<c>>
      /\ ssTx'.shift = ssTx.shift /\ ssOut'.wire = ssOut.wire /\ ssOut'.stored = c
  BY StoreByteEffect
<1>2. ssOut.stored \in Nat /\ c \in Nat /\ c > ssOut.stored
  BY DEF SsShapes, SsOutSet
<1>3. Rising(<<c>>) /\ UpTo(<<c>>, c) /\ Len(<<c>>) = 1 /\ <<c>>[1] = c
  BY <1>2, RisingOne
<1> HIDE DEF c
<1>4. \A i \in 1 .. Len(ssTx'.pend) : ssTx'.pend[i] > ssOut.stored
  BY <1>1, <1>2, <1>3
<1> QED BY <1>1, <1>2, <1>3, <1>4, SsOrderFresh

\* So does a frame staged by try_send.
LEMMA TrySendOrder ==
  ASSUME SsAssumption, SsShapes, SsTxOrder, ssCall \in SsWrites, TrySend
  PROVE  SsTxOrder'
<1> DEFINE n == Staged
           s == ssOut.stored
           p == [i \in 1 .. n |-> s + i]
<1>1. /\ ssTx' \in SsTxSet /\ ssOut' \in SsOutSet /\ ssTx'.pend = p /\ Len(ssTx'.pend) = n
      /\ ssTx'.shift = ssTx.shift /\ ssOut'.wire = ssOut.wire /\ ssOut'.stored = s + n
      /\ n \in 1 .. ssCall.len
  BY TrySendEffect
<1>2. s \in Nat /\ n \in Nat
  BY <1>1, SsAssumption DEF SsShapes, SsOutSet, SsWrites, SsAssumption
<1>3. \A i \in 1 .. n : p[i] = s + i
  OBVIOUS
<1> HIDE DEF n, p, s
<1>4. \A i \in 1 .. Len(ssTx'.pend) : ssTx'.pend[i] = s + i
  BY <1>1, <1>3
<1>5. Rising(ssTx'.pend)
  BY <1>1, <1>2, <1>4 DEF Rising
<1>6. UpTo(ssTx'.pend, ssOut'.stored)
  BY <1>1, <1>2, <1>4 DEF UpTo
<1>7. \A i \in 1 .. Len(ssTx'.pend) : ssTx'.pend[i] > s
  BY <1>1, <1>2, <1>4
<1>8. ssOut'.stored >= s
  BY <1>1, <1>2
<1> QED BY <1>1, <1>5, <1>6, <1>7, <1>8, SsOrderFresh DEF s

\* Bytes leave in the order they were stored.
LEMMA SsTxOrderNext == ASSUME SsAssumption, SsIInv, SsAction PROVE SsTxOrder'
<1>1. SsShapes /\ SsTxOrder
  BY DEF SsIInv
<1>2. ssTx.pend \in Seq(Nat) /\ ssOut.wire \in Seq(Nat) /\ ssTx.shift \in Nat /\ ssOut.stored \in Nat
  BY <1>1 DEF SsShapes, SsTxSet, SsOutSet
<1>3. ASSUME ssTx'.pend = ssTx.pend, ssTx'.shift = ssTx.shift, ssOut'.wire = ssOut.wire,
             ssOut'.stored = ssOut.stored
      PROVE  SsTxOrder'
  BY <1>1, <1>3 DEF SsTxOrder
<1>4. CASE TxWire
  <2>1. ssOut'.stored = ssOut.stored
    BY <1>1, <1>4, TxWireEffect
  <2>2. CASE /\ ssTx.shift # 0 /\ ssTx'.shift = 0 /\ ssTx'.pend = ssTx.pend
             /\ ssOut'.wire = Append(ssOut.wire, ssTx.shift)
    <3>1. /\ Rising(ssOut.wire) /\ Ahead(ssOut.wire, <<ssTx.shift>>)
          /\ Ahead(<<ssTx.shift>>, ssTx.pend) /\ Ahead(ssOut.wire, ssTx.pend)
          /\ UpTo(ssOut.wire, ssOut.stored) /\ ssTx.shift <= ssOut.stored
      BY <1>1, <2>2 DEF SsTxOrder
    <3>2. Rising(ssOut'.wire) /\ Ahead(ssOut'.wire, ssTx.pend) /\ UpTo(ssOut'.wire, ssOut.stored)
      BY <1>2, <2>2, <3>1, RisingAppend
    <3>3. 0 <= ssOut.stored
      BY <1>2
    <3> QED BY <1>1, <2>1, <2>2, <3>2, <3>3 DEF SsTxOrder
  <2>3. CASE /\ ssTx.shift = 0 /\ ssTx.pend # <<>>
             /\ ssTx'.shift = Head(ssTx.pend) /\ ssTx'.pend = Tail(ssTx.pend)
             /\ ssOut'.wire = ssOut.wire
    <3>1. /\ Rising(ssTx.pend) /\ Ahead(ssOut.wire, ssTx.pend) /\ UpTo(ssTx.pend, ssOut.stored)
          /\ \A i \in 1 .. Len(ssTx.pend) : ssTx.pend[i] > 0
      BY <1>1 DEF SsTxOrder
    <3>2. /\ Rising(Tail(ssTx.pend)) /\ Ahead(<<Head(ssTx.pend)>>, Tail(ssTx.pend))
          /\ Ahead(ssOut.wire, Tail(ssTx.pend)) /\ Ahead(ssOut.wire, <<Head(ssTx.pend)>>)
          /\ UpTo(Tail(ssTx.pend), ssOut.stored) /\ Head(ssTx.pend) <= ssOut.stored
          /\ \A i \in 1 .. Len(Tail(ssTx.pend)) : Tail(ssTx.pend)[i] > 0
      BY <1>2, <2>3, <3>1, RisingTail
    <3> QED BY <1>1, <2>1, <2>3, <3>2 DEF SsTxOrder
  <2>4. CASE ssTx'.shift = ssTx.shift /\ ssTx'.pend = ssTx.pend /\ ssOut'.wire = ssOut.wire
    BY <1>3, <2>1, <2>4
  <2> QED BY <1>1, <1>4, <2>2, <2>3, <2>4, TxWireEffect
<1>5. CASE SsRxSide \/ SsReadReady \/ SsReadCall \/ SsWriteReady \/ SsFlushCall \/ SsFlush
  BY <1>1, <1>3, <1>5, SsTxQuiet
<1>6. CASE SsWriteCall
  BY <1>1, <1>3, <1>6, SsWriteCallEffect
<1>7. CASE SsWriteFirst
  <2>1. ssCall \in SsWrites
    BY <1>1, <1>7, SsWriteFirstEffect
  <2>2. CASE StoreByte
    BY <1>1, <2>1, <2>2, StoreByteOrder
  <2>3. CASE TrySend
    BY <1>1, <2>1, <2>3, TrySendOrder
  <2>4. CASE ssTx' = ssTx /\ ssOut'.stored = ssOut.stored /\ ssOut'.wire = ssOut.wire
    BY <1>3, <2>4
  <2> QED BY <1>1, <1>7, <2>2, <2>3, <2>4, SsWriteFirstEffect
<1>8. CASE SsWriteRest
  <2>1. ssCall \in SsWrites
    BY <1>1, <1>8, SsWriteRestEffect
  <2>2. CASE StoreByte
    BY <1>1, <2>1, <2>2, StoreByteOrder
  <2>3. CASE ssTx' = ssTx /\ ssOut'.stored = ssOut.stored /\ ssOut'.wire = ssOut.wire
    BY <1>3, <2>3
  <2> QED BY <1>1, <1>8, <2>2, <2>3, SsWriteRestEffect
<1> QED BY <1>4, <1>5, <1>6, <1>7, <1>8 DEF SsAction, SsRxSide, SsReadStep

------------------------------------------------------------------------------
(* The account of every byte.                                               *)

\* The numbers the account is made of.
LEMMA SsNumbers ==
  ASSUME SsAssumption, SsShapes
  PROVE  /\ Len(ssTx.pend) \in Nat /\ Len(ssOut.wire) \in Nat /\ SsShifting \in {0, 1}
         /\ ssOut.stored \in Nat /\ ssOut.reported \in Nat /\ ssOut.dropped \in Nat
         /\ ssOut.abandoned \in Nat /\ ssCnt["drops"] \in Nat /\ ssCnt["abandons"] \in Nat
         /\ SsBytes \in Nat /\ SsDmaBuf \in Nat \ {0} /\ ssTx.shift \in Nat
         /\ ssKind.tx \in {"polled", "dma"}
         /\ ssTx.pend \in Seq(Nat) /\ ssOut.wire \in Seq(Nat)
         /\ ssCall \in SsWrites => ssCall.len \in Nat \ {0} /\ ssCall.n \in Nat
<1>1. ssTx \in SsTxSet /\ ssOut \in SsOutSet /\ ssKind \in SsKindSet
      /\ ssCnt \in [Counters -> Nat] /\ {"drops", "abandons"} \subseteq Counters
  BY DEF SsShapes, Counters
<1>2. ssTx.pend \in Seq(Nat) /\ ssOut.wire \in Seq(Nat) /\ ssTx.shift \in Nat
  BY <1>1 DEF SsTxSet, SsOutSet
<1>3. Len(ssTx.pend) \in Nat /\ Len(ssOut.wire) \in Nat
  BY <1>2
<1>4. SsShifting \in {0, 1}
  BY DEF SsShifting
<1>5. /\ ssOut.stored \in Nat /\ ssOut.reported \in Nat /\ ssOut.dropped \in Nat
      /\ ssOut.abandoned \in Nat /\ ssCnt["drops"] \in Nat /\ ssCnt["abandons"] \in Nat
      /\ ssKind.tx \in {"polled", "dma"}
  BY <1>1 DEF SsOutSet, SsKindSet
<1>6. SsBytes \in Nat /\ SsDmaBuf \in Nat \ {0}
  BY SsAssumption DEF SsAssumption
<1>7. ssCall \in SsWrites => ssCall.len \in Nat \ {0} /\ ssCall.n \in Nat
  BY SsAssumption DEF SsAssumption, SsWrites
<1> QED BY <1>2, <1>3, <1>4, <1>5, <1>6, <1>7

\* A byte taken is accounted, as reported by the write in progress.
LEMMA StoreByteAccounts ==
  ASSUME SsAssumption, SsShapes, SsTxAccounts, ssCall \in SsWrites, StoreByte,
         ssKind' = ssKind, ssKind.tx = "polled", ssCall.n < ssCall.len,
         ssCall.pc = "first" => ssCall.n = 0
  PROVE  SsTxAccounts'
<1>1. /\ ssTx.pend = <<>> /\ ssTx'.pend = <<ssOut.stored + 1>> /\ ssTx'.shift = ssTx.shift
      /\ ssOut'.stored = ssOut.stored + 1 /\ ssOut'.reported = ssOut.reported
      /\ ssOut'.dropped = ssOut.dropped /\ ssOut'.abandoned = ssOut.abandoned
      /\ ssOut'.wire = ssOut.wire
      /\ ssCall'.pc = "rest" /\ ssCall'.n = ssCall.n + 1 /\ ssCall'.len = ssCall.len
      /\ ssCnt' = ssCnt /\ ssCall.pc \in {"first", "rest"}
  BY StoreByteEffect DEF SsWrites
<1>2. Len(ssTx.pend) = 0 /\ Len(ssTx'.pend) = 1
  BY <1>1
<1>3. SsShifting' = SsShifting
  BY <1>1 DEF SsShifting
<1>4. ssCall.len \in Nat \ {0} /\ ssCall.n \in Nat
  BY SsNumbers
<1>5. SsReporting = ssCall.n /\ SsReporting' = ssCall.n + 1
  BY <1>1, <1>4 DEF SsReporting
<1>6. SsPending = ssCall.len - ssCall.n /\ SsPending' = ssCall.len - (ssCall.n + 1)
  BY <1>1 DEF SsPending
<1>10. /\ Len(ssOut.wire) \in Nat /\ SsShifting \in {0, 1} /\ ssOut.abandoned \in Nat
       /\ ssOut.stored \in Nat /\ ssOut.reported \in Nat /\ ssOut.dropped \in Nat
       /\ SsBytes \in Nat
  BY SsNumbers
<1>11. /\ Len(ssOut.wire) + Len(ssTx.pend) + SsShifting + ssOut.abandoned = ssOut.stored
       /\ ssOut.reported + SsReporting = ssOut.stored + ssOut.dropped
       /\ ssOut.stored + ssOut.dropped + SsPending <= SsBytes
  BY DEF SsTxAccounts
<1>12. /\ ssOut'.stored = ssOut.stored + 1 /\ ssOut'.reported = ssOut.reported
       /\ ssOut'.dropped = ssOut.dropped
  BY <1>1
<1>7. Len(ssOut'.wire) + Len(ssTx'.pend) + SsShifting' + ssOut'.abandoned = ssOut'.stored
  BY <1>1, <1>2, <1>3, <1>10, <1>11
<1>8. ssOut'.reported + SsReporting' = ssOut'.stored + ssOut'.dropped
  <2> DEFINE r == ssOut.reported
             s == ssOut.stored
             d == ssOut.dropped
             n == ssCall.n
  <2>1. r + n = s + d
    BY <1>5, <1>11
  <2>2. r \in Nat /\ s \in Nat /\ d \in Nat /\ n \in Nat
    BY <1>4, <1>10
  <2> HIDE DEF r, s, d, n
  <2>3. r + (n + 1) = (s + 1) + d
    BY <2>1, <2>2
  <2> QED BY <1>5, <1>12, <2>3 DEF r, s, d, n
<1>9. ssOut'.stored + ssOut'.dropped + SsPending' <= SsBytes
  <2> DEFINE s == ssOut.stored
             d == ssOut.dropped
             l == ssCall.len
             n == ssCall.n
  <2>1. s + d + (l - n) <= SsBytes
    BY <1>6, <1>11
  <2>2. s \in Nat /\ d \in Nat /\ l \in Nat /\ n \in Nat /\ SsBytes \in Nat
    BY <1>4, <1>10
  <2> HIDE DEF s, d, l, n
  <2>3. (s + 1) + d + (l - (n + 1)) <= SsBytes
    BY <2>1, <2>2
  <2> QED BY <1>6, <1>12, <2>3 DEF s, d, l, n
<1> QED BY <1>1, <1>2, <1>7, <1>8, <1>9 DEF SsTxAccounts

\* A frame staged is accounted, and so is what it abandons.
LEMMA TrySendAccounts ==
  ASSUME SsAssumption, SsShapes, SsTxAccounts, ssCall \in SsWrites, TrySend,
         ssKind' = ssKind, ssKind.tx = "dma", ssCall.pc = "first", ssCall.n = 0
  PROVE  SsTxAccounts'
<1>1. /\ Staged \in 1 .. ssCall.len /\ Staged <= SsDmaBuf
      /\ Len(ssTx'.pend) = Staged /\ ssTx'.shift = ssTx.shift /\ ssTx'.fly
      /\ ssOut'.stored = ssOut.stored + Staged /\ ssOut'.reported = ssOut.reported + Staged
      /\ ssOut'.abandoned = ssOut.abandoned + Forsaken
      /\ ssOut'.dropped = ssOut.dropped /\ ssOut'.wire = ssOut.wire
      /\ ssCall'.pc = "idle"
  BY TrySendEffect, WriteReturnEffect
<1>2. ssCall.len \in Nat \ {0} /\ Staged \in Nat /\ ssKind.tx # "polled"
  BY <1>1, SsNumbers
<1>3. Forsaken = Len(ssTx.pend)
  <2>1. CASE ssTx.fly
    BY <2>1 DEF Forsaken
  <2>2. CASE ~ssTx.fly
    <3>1. ssTx.pend = <<>>
      BY <2>2 DEF SsTxAccounts
    <3> QED BY <2>2, <3>1 DEF Forsaken
  <2> QED BY <2>1, <2>2
<1>4. SsShifting' = SsShifting
  BY <1>1 DEF SsShifting
<1>5. SsReporting = 0 /\ SsReporting' = 0 /\ SsPending = ssCall.len /\ SsPending' = 0
  BY <1>1, <1>2 DEF SsReporting, SsPending
<1>6. ssCnt'["drops"] = ssCnt["drops"]
  <2>1. "drops" \in Counters \ {"abandons"}
    BY DEF Counters
  <2> QED BY <2>1, TrySendEffect
<1>7. ssOut'.abandoned > 0 => ssCnt'["abandons"] > 0
  <2>1. CASE ~ssTx.fly /\ ssCnt' = ssCnt
    <3>1. Forsaken = 0
      BY <2>1 DEF Forsaken
    <3> QED BY <1>1, <2>1, <3>1, SsNumbers DEF SsTxAccounts
  <2>2. CASE ssCnt'["abandons"] = ssCnt["abandons"] + 1
    BY <2>2, SsNumbers
  <2> QED BY <2>1, <2>2, TrySendEffect
<1>11. /\ Len(ssOut.wire) \in Nat /\ SsShifting \in {0, 1} /\ ssOut.abandoned \in Nat
       /\ ssOut.stored \in Nat /\ ssOut.reported \in Nat /\ ssOut.dropped \in Nat
       /\ SsBytes \in Nat /\ Len(ssTx.pend) \in Nat
  BY SsNumbers
<1>12. /\ Len(ssOut.wire) + Len(ssTx.pend) + SsShifting + ssOut.abandoned = ssOut.stored
       /\ ssOut.reported + SsReporting = ssOut.stored + ssOut.dropped
       /\ ssOut.stored + ssOut.dropped + SsPending <= SsBytes
  BY DEF SsTxAccounts
<1>8. Len(ssOut'.wire) + Len(ssTx'.pend) + SsShifting' + ssOut'.abandoned = ssOut'.stored
  <2>1. /\ Len(ssTx'.pend) = Staged /\ ssOut'.stored = ssOut.stored + Staged
        /\ ssOut'.abandoned = ssOut.abandoned + Len(ssTx.pend)
        /\ Len(ssOut'.wire) = Len(ssOut.wire)
    BY <1>1, <1>3
  <2> DEFINE w == Len(ssOut.wire)
             p == Len(ssTx.pend)
             h == SsShifting
             a == ssOut.abandoned
             t == ssOut.stored
  <2>2. w + p + h + a = t
    BY <1>12
  <2>3. w \in Nat /\ p \in Nat /\ h \in Nat /\ a \in Nat /\ t \in Nat
    BY <1>11
  <2> HIDE DEF w, p, h, a, t
  <2>4. w + Staged + h + (a + p) = t + Staged
    BY <1>2, <2>2, <2>3
  <2> QED BY <1>4, <2>1, <2>4 DEF w, p, h, a, t
<1>9. ssOut'.reported + SsReporting' = ssOut'.stored + ssOut'.dropped
  BY <1>1, <1>2, <1>5, <1>11, <1>12
<1>10. ssOut'.stored + ssOut'.dropped + SsPending' <= SsBytes
  BY <1>1, <1>2, <1>5, <1>11, <1>12
<1> QED BY <1>1, <1>2, <1>6, <1>7, <1>8, <1>9, <1>10 DEF SsTxAccounts

\* Every byte stored is on its way, sent or abandoned.
LEMMA SsTxAccountsNext == ASSUME SsAssumption, SsIInv, SsAction PROVE SsTxAccounts'
<1>1. SsShapes /\ SsTxOrder /\ SsTxAccounts /\ SsWriteInv
  BY DEF SsIInv
<1>2. CASE TxWire
  <2>1. /\ UNCHANGED <<ssKind, ssCall, ssCnt>> /\ ssOut'.stored = ssOut.stored
        /\ ssOut'.reported = ssOut.reported
        /\ ssOut'.dropped = ssOut.dropped /\ ssOut'.abandoned = ssOut.abandoned
    BY <1>1, <1>2, TxWireEffect
  <2>2. SsReporting' = SsReporting /\ SsPending' = SsPending
    BY <2>1 DEF SsReporting, SsPending
  <2>3. ASSUME Len(ssOut'.wire) + Len(ssTx'.pend) + SsShifting'
                 = Len(ssOut.wire) + Len(ssTx.pend) + SsShifting,
               Len(ssTx'.pend) <= Len(ssTx.pend), Len(ssTx'.pend) \in Nat,
               ssKind.tx = "dma" /\ ~ssTx'.fly => ssTx'.pend = <<>>
        PROVE  SsTxAccounts'
    <3> DEFINE m == Len(ssOut'.wire) + Len(ssTx'.pend) + SsShifting'
               b == IF ssKind.tx = "polled" THEN 1 ELSE SsDmaBuf
    <3>1. m + ssOut.abandoned = ssOut.stored
      BY <1>1, <2>3 DEF SsTxAccounts
    <3>2. Len(ssTx'.pend) <= b
      <4>1. b \in Nat /\ Len(ssTx.pend) \in Nat
        BY <1>1, SsNumbers
      <4>2. Len(ssTx.pend) <= b
        BY <1>1 DEF SsTxAccounts
      <4> HIDE DEF b
      <4> QED BY <2>3, <4>1, <4>2
    <3> QED BY <1>1, <2>1, <2>2, <2>3, <3>1, <3>2 DEF SsTxAccounts
  <2>4. CASE /\ ssTx.shift # 0 /\ ssTx'.shift = 0 /\ ssTx'.pend = ssTx.pend
             /\ (ssTx'.fly <=> ssTx.fly)
             /\ ssOut'.wire = Append(ssOut.wire, ssTx.shift)
    <3>1. SsShifting = 1 /\ SsShifting' = 0
      BY <2>4 DEF SsShifting
    <3>2. Len(ssOut'.wire) = Len(ssOut.wire) + 1
      BY <1>1, <2>4, SsNumbers
    <3>3. ssKind.tx = "dma" /\ ~ssTx'.fly => ssTx'.pend = <<>>
      BY <1>1, <2>4 DEF SsTxAccounts
    <3>4. Len(ssOut.wire) \in Nat /\ Len(ssTx.pend) \in Nat
      BY <1>1, SsNumbers
    <3>6. Len(ssTx'.pend) = Len(ssTx.pend)
      BY <2>4
    <3> DEFINE w == Len(ssOut.wire)
               p == Len(ssTx.pend)
    <3>8. w \in Nat /\ p \in Nat
      BY <3>4
    <3> HIDE DEF w, p
    <3>7. (w + 1) + p + 0 = w + p + 1
      BY <3>8
    <3> USE DEF w, p
    <3>5. Len(ssOut'.wire) + Len(ssTx'.pend) + SsShifting'
            = Len(ssOut.wire) + Len(ssTx.pend) + SsShifting
      BY <3>1, <3>2, <3>6, <3>7
    <3> QED BY <2>3, <2>4, <3>3, <3>4, <3>5
  <2>5. CASE /\ ssTx.shift = 0 /\ ssTx.pend # <<>>
             /\ ssTx'.shift = Head(ssTx.pend) /\ ssTx'.pend = Tail(ssTx.pend)
             /\ (ssTx'.fly <=> ssTx.fly) /\ ssOut'.wire = ssOut.wire
    <3>1. \A i \in 1 .. Len(ssTx.pend) : ssTx.pend[i] > 0
      BY <1>1 DEF SsTxOrder
    <3>2. Head(ssTx.pend) > 0 /\ Head(ssTx.pend) \in Nat /\ Len(Tail(ssTx.pend)) = Len(ssTx.pend) - 1
          /\ Len(ssTx.pend) > 0
      BY <1>1, <2>5, <3>1, SsNumbers, RisingTail
    <3>3. SsShifting = 0 /\ SsShifting' = 1
      BY <2>5, <3>2 DEF SsShifting
    <3>4. ssKind.tx = "dma" => ssTx.fly
      BY <1>1, <2>5 DEF SsTxAccounts
    <3>5. Len(ssOut.wire) \in Nat /\ Len(ssTx.pend) \in Nat
      BY <1>1, SsNumbers
    <3>8. Len(ssTx'.pend) = Len(ssTx.pend) - 1 /\ Len(ssOut'.wire) = Len(ssOut.wire)
      BY <2>5, <3>2
    <3>6. Len(ssOut'.wire) + Len(ssTx'.pend) + SsShifting'
            = Len(ssOut.wire) + Len(ssTx.pend) + SsShifting
      BY <3>3, <3>5, <3>8
    <3>7. Len(ssTx'.pend) <= Len(ssTx.pend) /\ Len(ssTx'.pend) \in Nat
      BY <2>5, <3>2, <3>5
    <3> QED BY <2>3, <2>5, <3>4, <3>6, <3>7
  <2>6. CASE /\ ssTx'.shift = ssTx.shift /\ ssTx'.pend = ssTx.pend /\ ssOut'.wire = ssOut.wire
             /\ \/ ssTx.fly /\ ssTx.pend = <<>> /\ ~ssTx'.fly
                \/ (ssTx'.fly <=> ssTx.fly) /\ ssTx'.late
    <3>1. SsShifting' = SsShifting
      BY <2>6 DEF SsShifting
    <3>2. ssKind.tx = "dma" /\ ~ssTx'.fly => ssTx'.pend = <<>>
      BY <1>1, <2>6 DEF SsTxAccounts
    <3> QED BY <1>1, <2>3, <2>6, <3>1, <3>2, SsNumbers
  <2> QED BY <1>1, <1>2, <2>4, <2>5, <2>6, TxWireEffect
<1>3. ASSUME UNCHANGED <<ssKind, ssTx, ssOut>>, ssCnt'["drops"] = ssCnt["drops"],
             ssCnt'["abandons"] = ssCnt["abandons"], SsReporting' = SsReporting,
             ssOut.stored + ssOut.dropped + SsPending' <= SsBytes
      PROVE  SsTxAccounts'
  <2>1. SsShifting' = SsShifting
    BY <1>3 DEF SsShifting
  <2> QED BY <1>1, <1>3, <2>1 DEF SsTxAccounts
<1>4. CASE SsRxSide \/ SsReadReady \/ SsReadCall \/ SsWriteReady \/ SsFlushCall \/ SsFlush
  <2>1. /\ UNCHANGED <<ssKind, ssTx, ssOut>>
        /\ \/ ssCall' = ssCall
           \/ ssCall.pc \notin {"first", "rest"} /\ ssCall'.pc \notin {"first", "rest"}
        /\ ssCnt'["drops"] = ssCnt["drops"] /\ ssCnt'["abandons"] = ssCnt["abandons"]
    BY <1>1, <1>4, SsTxQuiet
  <2>2. SsReporting' = SsReporting /\ SsPending' = SsPending
    BY <2>1 DEF SsReporting, SsPending
  <2>3. ssOut.stored + ssOut.dropped + SsPending' <= SsBytes
    BY <1>1, <2>2 DEF SsTxAccounts
  <2> QED BY <1>3, <2>1, <2>2, <2>3
<1>5. CASE SsWriteCall
  <2>1. /\ ssCall.pc = "idle" /\ ssCall'.pc = "first" /\ ssCall'.n = 0 /\ ssCall' \in SsWrites
        /\ ssOut.stored + ssOut.dropped + ssCall'.len <= SsBytes
        /\ UNCHANGED <<ssKind, ssTx, ssCnt, ssOut>>
    BY <1>1, <1>5, SsWriteCallEffect, SsIdleShape
  <2>2. ssCall'.len \in Nat
    BY <2>1, SsAssumption DEF SsWrites, SsAssumption
  <2>3. SsReporting' = SsReporting /\ SsPending' = ssCall'.len
    BY <2>1, <2>2 DEF SsReporting, SsPending
  <2> QED BY <1>3, <2>1, <2>3
<1>6. CASE SsWriteFirst
  <2>1. ssCall \in SsWrites /\ ssCall.pc = "first" /\ ssKind' = ssKind /\ ssCall.n = 0
    BY <1>1, <1>6, SsWriteFirstEffect DEF SsWriteInv
  <2>2. ssCall.len \in Nat \ {0} /\ SsPending = ssCall.len /\ SsReporting = 0
    BY <1>1, <2>1, SsNumbers DEF SsPending, SsReporting
  <2>3. CASE ssKind.tx = "polled" /\ StoreByte
    <3>1. ssCall.n < ssCall.len
      BY <2>1, <2>2
    <3> QED BY <1>1, <2>1, <2>3, <3>1, StoreByteAccounts
  <2>4. CASE ssKind.tx = "dma" /\ TrySend
    BY <1>1, <2>1, <2>4, TrySendAccounts
  <2>5. CASE /\ ssCall'.pc = "first" /\ ssCall'.n = ssCall.n /\ ssCall'.len = ssCall.len
             /\ UNCHANGED <<ssTx, ssOut, ssCnt, ssLast>>
    <3>1. SsReporting' = SsReporting /\ SsPending' = SsPending
      BY <2>1, <2>5 DEF SsReporting, SsPending
    <3>2. ssOut.stored + ssOut.dropped + SsPending' <= SsBytes
      BY <1>1, <3>1 DEF SsTxAccounts
    <3> QED BY <1>3, <2>1, <2>5, <3>1, <3>2
  <2>6. CASE /\ ssTx' = ssTx /\ ssCnt'["drops"] = ssCnt["drops"] + 1
             /\ \A o \in Counters \ {"drops"} : ssCnt'[o] = ssCnt[o]
             /\ ssOut'.stored = ssOut.stored /\ ssOut'.wire = ssOut.wire
             /\ ssOut'.abandoned = ssOut.abandoned
             /\ ssOut'.reported = ssOut.reported + ssCall.len
             /\ ssOut'.dropped = ssOut.dropped + ssCall.len
             /\ WriteReturn(ssCall.len, TRUE)
    <3>1. SsShifting' = SsShifting /\ ssCall'.pc = "idle"
      BY <2>6, WriteReturnEffect DEF SsShifting
    <3>2. SsReporting' = 0 /\ SsPending' = 0
      BY <3>1 DEF SsReporting, SsPending
    <3>3. ssCnt'["abandons"] = ssCnt["abandons"] /\ ssCnt'["drops"] > 0
      <4>1. "abandons" \in Counters \ {"drops"}
        BY DEF Counters
      <4> QED BY <1>1, <2>6, <4>1, SsNumbers
    <3>6. /\ ssOut.stored \in Nat /\ ssOut.reported \in Nat /\ ssOut.dropped \in Nat
          /\ SsBytes \in Nat
      BY <1>1, SsNumbers
    <3>7. /\ ssOut.reported + SsReporting = ssOut.stored + ssOut.dropped
          /\ ssOut.stored + ssOut.dropped + SsPending <= SsBytes
      BY <1>1 DEF SsTxAccounts
    <3>4. ssOut'.reported + 0 = ssOut'.stored + ssOut'.dropped
      BY <2>2, <2>6, <3>6, <3>7
    <3>5. ssOut'.stored + ssOut'.dropped + 0 <= SsBytes
      BY <2>2, <2>6, <3>6, <3>7
    <3> QED BY <1>1, <2>1, <2>6, <3>1, <3>2, <3>3, <3>4, <3>5 DEF SsTxAccounts
  <2> QED BY <1>1, <1>6, <2>3, <2>4, <2>5, <2>6, SsWriteFirstEffect
<1>7. CASE SsWriteRest
  <2>1. ssCall \in SsWrites /\ ssCall.pc = "rest" /\ UNCHANGED ssKind /\ ssKind.tx = "polled"
        /\ ssCall.n \in 1 .. ssCall.len
    BY <1>1, <1>7, SsWriteRestEffect DEF SsWriteInv
  <2>2. CASE ssCall.n < ssCall.len /\ StoreByte
    BY <1>1, <2>1, <2>2, StoreByteAccounts
  <2>3. CASE /\ ssOut'.reported = ssOut.reported + ssCall.n
             /\ ssOut'.stored = ssOut.stored /\ ssOut'.wire = ssOut.wire
             /\ ssOut'.abandoned = ssOut.abandoned /\ ssOut'.dropped = ssOut.dropped
             /\ WriteReturn(ssCall.n, FALSE) /\ UNCHANGED <<ssTx, ssCnt>>
    <3>1. SsShifting' = SsShifting /\ ssCall'.pc = "idle"
      BY <2>3, WriteReturnEffect DEF SsShifting
    <3>2. SsReporting' = 0 /\ SsPending' = 0
      BY <3>1 DEF SsReporting, SsPending
    <3>3. SsReporting = ssCall.n /\ SsPending = ssCall.len - ssCall.n
      BY <2>1 DEF SsReporting, SsPending
    <3> DEFINE r == ssOut.reported
               s == ssOut.stored
               d == ssOut.dropped
               l == ssCall.len
               n == ssCall.n
    <3>6. r + n = s + d /\ s + d + (l - n) <= SsBytes
      BY <1>1, <3>3 DEF SsTxAccounts
    <3>7. /\ r \in Nat /\ s \in Nat /\ d \in Nat /\ l \in Nat /\ SsBytes \in Nat
          /\ n \in 1 .. l
      BY <1>1, <2>1, SsNumbers
    <3>8. ssOut'.reported = r + n /\ ssOut'.stored = s /\ ssOut'.dropped = d
      BY <2>3
    <3> HIDE DEF r, s, d, l, n
    <3>4. ssOut'.reported + 0 = ssOut'.stored + ssOut'.dropped
      <4>1. r + n + 0 = s + d
        BY <3>6, <3>7
      <4> QED BY <3>8, <4>1
    <3>5. ssOut'.stored + ssOut'.dropped + 0 <= SsBytes
      <4>1. s + d + 0 <= SsBytes
        BY <3>6, <3>7
      <4> QED BY <3>8, <4>1
    <3> QED BY <1>1, <2>1, <2>3, <3>1, <3>2, <3>4, <3>5 DEF SsTxAccounts
  <2> QED BY <1>1, <1>7, <2>2, <2>3, SsWriteRestEffect
<1> QED BY <1>2, <1>4, <1>5, <1>6, <1>7 DEF SsAction, SsRxSide, SsReadStep

------------------------------------------------------------------------------
(* The promises.                                                            *)

\* The port starts with nothing received, nothing counted and nothing to send.
LEMMA SsInitInv == ASSUME SsAssumption, SsInit PROVE SsIInv
<1>1. SsIdle.pc = "idle" /\ SsIdle \in SsCalls
  BY SsIdleShape
<1>2. <<>> \in Seq(Nat) /\ Len(<<>>) = 0
  OBVIOUS
<1>3. ssKind \in SsKindSet
  BY SsAssumption DEF SsAssumption, SsKindSet, SsInit
<1>4. ssRx \in SsRxSet /\ ssEnv \in SsEnvSet /\ ssTx \in SsTxSet /\ ssOut \in SsOutSet
  BY <1>2 DEF SsInit, SsRxSet, SsEnvSet, SsTxSet, SsOutSet
<1>5. SsShapes
  BY <1>1, <1>2, <1>3, <1>4 DEF SsInit, SsShapes
<1>6. SsRxInv
  BY <1>1, <1>2, SsAssumption, RisingEmpty DEF SsInit, SsRxInv, SsAssumption
<1>7. SsCountedOnce
  <2>1. ~Lapped
    BY <1>2, SsAssumption DEF SsInit, Lapped, SsAssumption
  <2>2. ErrLatch("line_errors") = 0 /\ ErrLatch("lap_overruns") = 0 /\ LapLatch = 0
    BY <2>1 DEF SsInit, ErrLatch, LapLatch
  <2>3. ssCnt["line_errors"] = 0 /\ ssCnt["lap_overruns"] = 0
        /\ ssEnv.line_errors = 0 /\ ssEnv.lap_overruns = 0
    BY DEF SsInit, Counters
  <2> QED BY <1>5, <2>2, <2>3, SsCountedOpen DEF SsCounted
<1>8. SsReadyInv /\ SsEmptyMeansEmpty /\ SsReadyHonest
  BY <1>1 DEF SsInit, SsReadyInv, SsEmptyMeansEmpty, SsReadyHonest, SsReadPcs
<1>9. SsWriteInv /\ SsWriteHonest
  BY <1>1 DEF SsInit, SsWriteInv, SsWriteHonest
<1>10. SsTxOrder
  BY <1>2, RisingEmpty DEF SsInit, SsTxOrder
<1>11. SsTxAccounts
  BY <1>1, <1>2, SsAssumption DEF SsInit, SsTxAccounts, SsShifting, SsReporting, SsPending, SsAssumption
<1> QED BY <1>5, <1>6, <1>7, <1>8, <1>9, <1>10, <1>11 DEF SsIInv

\* Every step keeps the invariant.
LEMMA SsStepInv == ASSUME SsAssumption, SsIInv, [SsNext]_ssVars PROVE SsIInv'
<1>1. CASE SsNext
  <2>1. SsAction
    BY <1>1 DEF SsNext, SsAction, SsReadStep
  <2> QED BY <2>1, SsShapesNext, SsRxNext, SsCountNext, SsReadyNext, SsWriteNext,
             SsTxOrderNext, SsTxAccountsNext DEF SsIInv
<1>2. CASE UNCHANGED ssVars
  <2>1. SsShapes' /\ SsRxInv'
    BY <1>2 DEF SsIInv, ssVars, SsShapes, SsRxInv
  <2>2. SsCountedOnce'
    BY <1>2 DEF SsIInv, ssVars, SsCountedOnce, CounterOf, Lapped
  <2>3. SsReadyInv' /\ SsEmptyMeansEmpty' /\ SsReadyHonest'
    BY <1>2 DEF SsIInv, ssVars, SsReadyInv, Latched, SsEmptyMeansEmpty, SsReadyHonest
  <2>4. SsWriteInv' /\ SsWriteHonest'
    BY <1>2 DEF SsIInv, ssVars, SsWriteInv, SsWriteHonest, TxReady
  <2>5. SsTxOrder'
    BY <1>2 DEF SsIInv, ssVars, SsTxOrder
  <2>6. SsTxAccounts'
    BY <1>2 DEF SsIInv, ssVars, SsTxAccounts, SsShifting, SsReporting, SsPending
  <2> QED BY <2>1, <2>2, <2>3, <2>4, <2>5, <2>6 DEF SsIInv
<1> QED BY <1>1, <1>2

\* A rising sequence rises from each element to the next.
LEMMA RisingSteps ==
  ASSUME NEW s \in Seq(Nat), Rising(s)
  PROVE  \A i \in 2 .. Len(s) : s[i - 1] < s[i]
<1>1. \A i \in 2 .. Len(s) : i - 1 \in 1 .. Len(s) /\ i \in 1 .. Len(s) /\ i - 1 < i
  OBVIOUS
<1> QED BY <1>1 DEF Rising

\* The invariant says more than the promises.
LEMMA SsInvSafe == ASSUME SsAssumption, SsIInv PROVE SsSafe
<1>1. SsShapes /\ SsRxInv /\ SsTxOrder /\ SsTxAccounts
  BY DEF SsIInv
<1>2. ssRx \in SsRxSet /\ ssTx \in SsTxSet /\ ssGot \in Seq(Nat) /\ ssCnt \in [Counters -> Nat]
  BY <1>1 DEF SsShapes
<1>3. SsTypeOK
  <2>1. Len(ssRx.q) <= SsChars
    <3>1. Len(ssRx.q) \in Nat /\ ssEnv.chars \in Nat /\ SsChars \in Nat
      BY <1>1, <1>2, SsAssumption DEF SsShapes, SsRxSet, SsEnvSet, SsAssumption
    <3> QED BY <1>1, <3>1 DEF SsRxInv
  <2>2. ssTx.shift \in 0 .. SsBytes
    <3>1. ssOut.stored <= SsBytes
      <4>1. SsPending \in Nat
        <5>1. CASE ssCall.pc \in {"first", "rest"}
          <6>1. ssCall \in SsWrites
            BY <1>1, <5>1, SsCallShape DEF SsShapes
          <6>2. ssCall.n <= ssCall.len /\ ssCall.len \in Nat /\ ssCall.n \in Nat
            BY <1>1, <5>1, <6>1, SsNumbers DEF SsIInv, SsWriteInv
          <6> QED BY <5>1, <6>2 DEF SsPending
        <5>2. CASE ssCall.pc \notin {"first", "rest"}
          BY <5>2 DEF SsPending
        <5> QED BY <5>1, <5>2
      <4> DEFINE s == ssOut.stored
                 d == ssOut.dropped
      <4>2. s + d + SsPending <= SsBytes
        BY <1>1 DEF SsTxAccounts
      <4>3. s \in Nat /\ d \in Nat /\ SsBytes \in Nat
        BY <1>1, SsNumbers
      <4> HIDE DEF s, d
      <4>4. s <= SsBytes
        BY <4>1, <4>2, <4>3
      <4> QED BY <4>4 DEF s
    <3>2. ssTx.shift \in Nat /\ ssOut.stored \in Nat /\ SsBytes \in Nat
          /\ ssTx.shift <= ssOut.stored
      BY <1>1, SsNumbers DEF SsTxOrder
    <3> QED BY <3>1, <3>2
  <2>3. ssRx.overflow \in BOOLEAN /\ ssRx.line_error \in LineErrors \cup {"none"}
        /\ ssTx.fly \in BOOLEAN /\ ssTx.late \in BOOLEAN
    BY <1>2 DEF SsRxSet, SsTxSet
  <2> QED BY <1>1, <1>2, <2>1, <2>2, <2>3 DEF SsTypeOK, SsRxInv, SsTxAccounts
<1>4. SsInOrder
  BY <1>1, <1>2, RisingSteps DEF SsInOrder, SsRxInv
<1>5. SsTxAccounted
  <2>1. \A i \in 2 .. Len(ssOut.wire) : ssOut.wire[i - 1] < ssOut.wire[i]
    BY <1>1, SsNumbers, RisingSteps DEF SsTxOrder
  <2>5. /\ Len(ssOut.wire) \in Nat /\ Len(ssTx.pend) \in Nat /\ SsShifting \in {0, 1}
        /\ ssOut.abandoned \in Nat /\ ssOut.dropped \in Nat
        /\ ssCnt["drops"] \in Nat /\ ssCnt["abandons"] \in Nat
    BY <1>1, SsNumbers
  <2>2. Len(ssOut.wire) + (Len(ssTx.pend) + SsShifting) + ssOut.abandoned = ssOut.stored
    <3>1. Len(ssOut.wire) + Len(ssTx.pend) + SsShifting + ssOut.abandoned = ssOut.stored
      BY <1>1 DEF SsTxAccounts
    <3> DEFINE w == Len(ssOut.wire)
               p == Len(ssTx.pend)
               h == SsShifting
    <3>2. w \in Nat /\ p \in Nat /\ h \in Nat
      BY <2>5
    <3> HIDE DEF w, p, h
    <3>3. w + p + h = w + (p + h)
      BY <3>2
    <3> QED BY <3>1, <3>3 DEF w, p, h
  <2>3. ssCall = SsIdle => ssOut.reported = ssOut.stored + ssOut.dropped
    <3>1. ssCall = SsIdle => SsReporting = 0
      BY SsIdleShape DEF SsReporting
    <3> QED BY <1>1, <3>1, SsNumbers DEF SsTxAccounts
  <2>4. ssOut.abandoned + ssOut.dropped > 0 => TxTimeouts > 0
    <3>1. ssCnt["gave_up"] \in Nat
      BY <1>2 DEF Counters
    <3>2. /\ ssOut.dropped > 0 => ssCnt["drops"] > 0
          /\ ssOut.abandoned > 0 => ssCnt["abandons"] > 0
      BY <1>1 DEF SsTxAccounts
    <3>3. /\ ssOut.abandoned \in Nat /\ ssOut.dropped \in Nat
          /\ ssCnt["drops"] \in Nat /\ ssCnt["abandons"] \in Nat
      BY <2>5
    <3>4. ssOut.abandoned + ssOut.dropped > 0 => ssOut.abandoned > 0 \/ ssOut.dropped > 0
      BY <3>3
    <3>5. ssCnt["drops"] > 0 \/ ssCnt["abandons"] > 0
            => ssCnt["drops"] + ssCnt["gave_up"] + ssCnt["abandons"] > 0
      BY <3>1, <3>3
    <3> QED BY <3>2, <3>4, <3>5 DEF TxTimeouts
  <2> QED BY <2>1, <2>2, <2>3, <2>4 DEF SsTxAccounted, SsShifting
<1> QED BY <1>3, <1>4, <1>5 DEF SsIInv, SsSafe

\* SplitSerial's promises to its callers: each receive condition counted once,
\* an empty read only of an empty line, honest readiness both ways, bytes in
\* order, and every byte written sent, on its way or in a counter.
THEOREM SplitSafety == SsSpec => []SsSafe
<1>1. SsInit => SsIInv
  BY SsAssumption, SsInitInv
<1>2. SsIInv /\ [SsNext]_ssVars => SsIInv'
  BY SsAssumption, SsStepInv
<1>3. SsIInv => SsSafe
  BY SsAssumption, SsInvSafe
<1> QED BY <1>1, <1>2, <1>3, PTL DEF SsSpec
=============================================================================
