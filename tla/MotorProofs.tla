---------------------------- MODULE MotorProofs ----------------------------
(***************************************************************************)
(* The motor's timer and its converter.                                    *)
(*                                                                         *)
(* The commutation (Commutation): CmSafe, for every PWM period. A write of *)
(* the bring-up is known by its rank, and the invariant says what the      *)
(* writes so far have established (CmBootInv), which phase may still       *)
(* source while a step's writes are under way (CmBridgeInv), and of which  *)
(* two sectors the Hall lines read so far are a mixture (CmHallInv).       *)
(*                                                                         *)
(* The converter (Adc): AdcSafe, for every set of channels and ranks and   *)
(* every budget, when no regular bring-up follows the injected one. The    *)
(* invariant says where the one conversion is that a clean call has        *)
(* started (AcClean), and which ranks the next handler will find converted *)
(* (AcInjected).                                                           *)
(***************************************************************************)
EXTENDS Commutation, Adc, FiniteSetTheorems, SequenceTheorems, TLAPS

---------------------------------------------------------------------------
(* The commutation (Commutation).                                         *)

\* The shapes of the state.
CmSteps == {States[k] : k \in 1..6}
CmFlags == [Phases -> BOOLEAN]
CmLevels == [Phases -> 0..CmPeriod]
CmRegs ==
  [clocked : BOOLEAN, car : Nat, arse : BOOLEAN, dead : Nat, moe : BOOLEAN, cen : BOOLEAN,
   routed : SUBSET (1..6), en : CmFlags, polarity : CmFlags, idle : CmFlags, pwm0 : CmFlags,
   preload : CmFlags, shadow : CmLevels, cv : CmLevels]
CmReads == [pc : {"read"}, line : 1..4, high : SUBSET Phases, from : 0..5, steady : BOOLEAN]
CmWrites == [pc : {"duty"}, i : 1..4, pattern : CmSteps, duty : 0..CmPeriod, sector : 0..5]

CmTypes ==
  /\ cmReg \in CmRegs
  /\ cmRotor \in [sector : 0..5, ok : BOOLEAN, moved : 0..CmMoves]
  /\ cmStep \in [direction : {"Forward", "Reverse"}, offset : 0..5]
  /\ cmCall \in {CmNoCall} \cup CmReads \cup CmWrites
  /\ cmLast \in [pattern : {<< >>, Coast} \cup CmSteps, drove : {<< >>} \cup CmSteps,
                 settled : BOOLEAN, calm : BOOLEAN]

\* How many of bring_up_motor's writes are done.
CmRank(b) ==
  CASE b[1] = "clock" -> 0
    [] b[1] = "base" -> 1
    [] b[1] = "config" -> 4 * b[2] - 2
    [] b[1] = "mode" -> 4 * b[2] - 1
    [] b[1] = "shadow" -> 4 * b[2]
    [] b[1] = "compare" -> 4 * b[2] + 1
    [] b[1] = "arse" -> 14
    [] b[1] = "cchp" -> 15
    [] b[1] = "route" -> 15 + b[2]
    [] b[1] = "counter" -> 22
    [] b[1] = "up" -> 23

\* What the first k writes have established.
CmBooted(reg, k) ==
  /\ k > 0 => reg.clocked
  /\ k > 1 => reg.car = CmPeriod
  /\ \A n \in Phases : k > 4 * n - 2 => reg.polarity[n] /\ reg.idle[n]
  /\ \A n \in Phases : k > 4 * n - 1 => reg.pwm0[n]
  /\ \A n \in Phases : k > 4 * n => reg.preload[n]
  /\ k > 14 => reg.arse
  /\ k > 15 => reg.dead = 25
  /\ \A g \in 1..6 : k > 15 + g => g \in reg.routed
  /\ k > 22 => reg.cen

\* Where the bring-up is; nothing runs before it has ended.
CmBootInv ==
  /\ CmRank(cmBoot) \in 0..23
  /\ CmBooted(cmReg, CmRank(cmBoot))
  /\ CmRank(cmBoot) = 23 <=> cmBoot = Up
  /\ cmBoot # Up => ~cmReg.moe /\ ~cmReg.cen /\ cmCall = CmNoCall /\ cmLast = NoStep

\* The last step energised the bridge through phase i.
Drove(i) == cmLast.drove # << >> /\ cmLast.drove[i] = "Pwm"

\* Between two steps.
CmRestInv ==
  /\ \A i \in Phases : cmReg.shadow[i] > 0 => Drove(i)
  /\ cmLast.settled => cmReg.cv = cmReg.shadow
  /\ cmLast.drove = << >> => \A i \in Phases : cmReg.cv[i] = 0
  /\ cmLast.calm => \A i \in Phases : cmReg.cv[i] > 0 /\ cmReg.en[i] => Drove(i)

\* Within a step.
CmDutyInv ==
  /\ \A j \in Phases : cmReg.shadow[j] > 0 =>
       IF j < cmCall.i THEN cmCall.pattern[j] = "Pwm" ELSE Drove(j)
  /\ cmLast.calm =>
       /\ Neighbours(cmLast.drove, cmCall.pattern)
       /\ \A j \in Phases : cmReg.cv[j] > 0 => cmCall.pattern[j] = "Pwm" \/ Drove(j)

\* The bridge, between two steps and within one.
CmBridgeInv ==
  /\ cmLast.pattern = Coast => \A i \in Phases : ~cmReg.en[i]
  /\ cmLast.pattern \in CmSteps =>
       cmLast.pattern = cmLast.drove /\ \A i \in Phases : cmReg.en[i] <=> cmLast.pattern[i] # "Float"
  /\ cmLast.pattern = << >> => cmLast.drove = << >>
  /\ cmCall.pc # "duty" => CmRestInv
  /\ cmCall.pc = "duty" => CmDutyInv

\* The lines read so far are those of the sector the read began in up to some
\* line, and those of the rotor's sector from it on.
CmHallInv ==
  cmCall.pc = "read" /\ cmCall.steady /\ cmRotor.moved <= 1 =>
    /\ cmRotor.moved = 0 => cmRotor.ok /\ cmRotor.sector = cmCall.from
    /\ cmRotor.ok =>
         /\ cmRotor.sector \in {cmCall.from, (cmCall.from + 1) % 6, (cmCall.from + 5) % 6}
         /\ \E k \in 1..cmCall.line : \A l \in Phases :
              l \in cmCall.high <=> /\ l < cmCall.line
                                    /\ l \in HallLines(IF l < k THEN cmCall.from ELSE cmRotor.sector)

CmIInv == CmTypes /\ CmBootInv /\ CmBridgeInv /\ CmHallInv
---------------------------------------------------------------------------
(* The tables.                                                             *)

\* The six commutation steps.
LEMMA CmStates ==
  /\ States[1] = <<"Pwm", "Sink", "Float">> /\ States[2] = <<"Pwm", "Float", "Sink">>
  /\ States[3] = <<"Float", "Pwm", "Sink">> /\ States[4] = <<"Sink", "Pwm", "Float">>
  /\ States[5] = <<"Sink", "Float", "Pwm">> /\ States[6] = <<"Float", "Sink", "Pwm">>
BY DEF States

\* One phase of a step sources.
LEMMA CmOnePwm ==
  ASSUME NEW s \in CmSteps
  PROVE  \E p \in Phases : \A i \in Phases : s[i] = "Pwm" <=> i = p
BY CmStates DEF CmSteps, Phases

\* A step leaves no phase undefined, and is not the coast.
LEMMA CmStepKinds ==
  ASSUME NEW s \in CmSteps
  PROVE  (\A i \in Phases : s[i] \in {"Pwm", "Sink", "Float"}) /\ s # << >> /\ s # Coast
BY CmStates DEF CmSteps, Phases, Coast

\* A step is found where it is in the table.
LEMMA CmIndex == ASSUME NEW k \in 1..6 PROVE IndexOf(States[k]) = k
<1>1. \A j \in 1..6 : States[j] = States[k] => j = k
  BY CmStates
<1> QED BY <1>1 DEF IndexOf

\* A step and its neighbour: the phase that sources in one sources or floats in
\* the other.
LEMMA CmNeighbours ==
  ASSUME NEW p \in CmSteps, NEW q \in CmSteps, Neighbours(p, q), NEW i \in Phases
  PROVE  /\ p[i] = "Pwm" => q[i] \in {"Pwm", "Float"}
         /\ q[i] = "Pwm" => p[i] \in {"Pwm", "Float"}
<1>1. PICK a \in 1..6 : p = States[a]
  BY DEF CmSteps
<1>2. PICK b \in 1..6 : q = States[b]
  BY DEF CmSteps
<1>3. (6 + b - a) % 6 \in {0, 1, 5}
  BY <1>1, <1>2, CmIndex, CmStepKinds DEF Neighbours
<1>4. b = a \/ b = a + 1 \/ b = a - 1 \/ (a = 6 /\ b = 1) \/ (a = 1 /\ b = 6)
  BY <1>3
<1> QED BY <1>1, <1>2, <1>4, CmStates DEF Phases

\* A valid Hall code gives one of the six steps.
LEMMA CmPatternTyped ==
  ASSUME CmTypes, NEW code, Valid(code)
  PROVE  Pattern(cmStep, code) \in CmSteps /\ HallToSector[code] \in 0..5
<1>1. HallToSector[code] \in 0..5
  BY DEF Valid, HallToSector
<1>2. cmStep.offset \in 0..5
  BY DEF CmTypes
<1> DEFINE h == IF cmStep.direction = "Reverse" THEN 3 ELSE 0
           n == 1 + ((HallToSector[code] + cmStep.offset + h) % 6)
<1>3. n \in 1..6
  <2>1. h \in {0, 3}
    OBVIOUS
  <2> QED BY <1>1, <1>2, <2>1
<1> QED BY <1>1, <1>3 DEF Pattern, CmSteps

\* The lines of each sector.
LEMMA CmHallSets ==
  /\ HallLines(0) = {1} /\ HallLines(1) = {1, 2} /\ HallLines(2) = {2}
  /\ HallLines(3) = {2, 3} /\ HallLines(4) = {3} /\ HallLines(5) = {1, 3}
<1>1. ASSUME NEW s \in SUBSET Phases
      PROVE  s \in {{}, {1}, {2}, {1, 2}, {3}, {1, 3}, {2, 3}, {1, 2, 3}}
  <2>1. \A x : x \in s => x = 1 \/ x = 2 \/ x = 3
    BY DEF Phases
  <2>2. CASE 1 \in s /\ 2 \in s
    BY <2>1, <2>2
  <2>3. CASE 1 \in s /\ 2 \notin s
    BY <2>1, <2>3
  <2>4. CASE 1 \notin s /\ 2 \in s
    BY <2>1, <2>4
  <2>5. CASE 1 \notin s /\ 2 \notin s
    BY <2>1, <2>5
  <2> QED BY <2>2, <2>3, <2>4, <2>5
<1>2. /\ CodeOf({}) = 0 /\ CodeOf({1}) = 1 /\ CodeOf({2}) = 2 /\ CodeOf({1, 2}) = 3
      /\ CodeOf({3}) = 4 /\ CodeOf({1, 3}) = 5 /\ CodeOf({2, 3}) = 6 /\ CodeOf({1, 2, 3}) = 7
  BY DEF CodeOf
<1>3. /\ HallToSector[1] = 0 /\ HallToSector[2] = 2 /\ HallToSector[3] = 1
      /\ HallToSector[4] = 4 /\ HallToSector[5] = 5 /\ HallToSector[6] = 3
      /\ \A c : Valid(c) <=> c \in 1..6
  BY DEF HallToSector, Valid
<1>4. {{}, {1}, {2}, {1, 2}, {3}, {1, 3}, {2, 3}, {1, 2, 3}} \subseteq SUBSET Phases
  BY DEF Phases
<1> DEFINE Is(s, n) == Valid(CodeOf(s)) /\ HallToSector[CodeOf(s)] = n
<1>5. ASSUME NEW s \in SUBSET Phases, NEW n \in 0..5
      PROVE  Is(s, n) <=> \/ n = 0 /\ s = {1}
                          \/ n = 1 /\ s = {1, 2}
                          \/ n = 2 /\ s = {2}
                          \/ n = 3 /\ s = {2, 3}
                          \/ n = 4 /\ s = {3}
                          \/ n = 5 /\ s = {1, 3}
  <2>1. CASE s = {}
    <3>1. s # {1} /\ s # {1, 2} /\ s # {2} /\ s # {2, 3} /\ s # {3} /\ s # {1, 3}
      BY <2>1
    <3>2. Is(s, n) <=> FALSE
      BY <1>2, <1>3, <2>1
    <3> HIDE DEF Is
    <3> QED BY <2>1, <3>1, <3>2
  <2>2. CASE s = {1}
    <3>1. s # {1, 2} /\ s # {2} /\ s # {2, 3} /\ s # {3} /\ s # {1, 3}
      BY <2>2
    <3>2. Is(s, n) <=> n = 0
      BY <1>2, <1>3, <2>2
    <3> HIDE DEF Is
    <3> QED BY <2>2, <3>1, <3>2
  <2>3. CASE s = {1, 2}
    <3>1. s # {1} /\ s # {2} /\ s # {2, 3} /\ s # {3} /\ s # {1, 3}
      BY <2>3
    <3>2. Is(s, n) <=> n = 1
      BY <1>2, <1>3, <2>3
    <3> HIDE DEF Is
    <3> QED BY <2>3, <3>1, <3>2
  <2>4. CASE s = {2}
    <3>1. s # {1} /\ s # {1, 2} /\ s # {2, 3} /\ s # {3} /\ s # {1, 3}
      BY <2>4
    <3>2. Is(s, n) <=> n = 2
      BY <1>2, <1>3, <2>4
    <3> HIDE DEF Is
    <3> QED BY <2>4, <3>1, <3>2
  <2>5. CASE s = {2, 3}
    <3>1. s # {1} /\ s # {1, 2} /\ s # {2} /\ s # {3} /\ s # {1, 3}
      BY <2>5
    <3>2. Is(s, n) <=> n = 3
      BY <1>2, <1>3, <2>5
    <3> HIDE DEF Is
    <3> QED BY <2>5, <3>1, <3>2
  <2>6. CASE s = {3}
    <3>1. s # {1} /\ s # {1, 2} /\ s # {2} /\ s # {2, 3} /\ s # {1, 3}
      BY <2>6
    <3>2. Is(s, n) <=> n = 4
      BY <1>2, <1>3, <2>6
    <3> HIDE DEF Is
    <3> QED BY <2>6, <3>1, <3>2
  <2>7. CASE s = {1, 3}
    <3>1. s # {1} /\ s # {1, 2} /\ s # {2} /\ s # {2, 3} /\ s # {3}
      BY <2>7
    <3>2. Is(s, n) <=> n = 5
      BY <1>2, <1>3, <2>7
    <3> HIDE DEF Is
    <3> QED BY <2>7, <3>1, <3>2
  <2>8. CASE s = {1, 2, 3}
    <3>1. s # {1} /\ s # {1, 2} /\ s # {2} /\ s # {2, 3} /\ s # {3} /\ s # {1, 3}
      BY <2>8
    <3>2. Is(s, n) <=> FALSE
      BY <1>2, <1>3, <2>8
    <3> HIDE DEF Is
    <3> QED BY <2>8, <3>1, <3>2
  <2> QED BY <1>1, <2>1, <2>2, <2>3, <2>4, <2>5, <2>6, <2>7, <2>8
<1>6. ASSUME NEW n, NEW t \in SUBSET Phases, Is(t, n), \A s \in SUBSET Phases : Is(s, n) => s = t
      PROVE  HallLines(n) = t
  BY <1>6 DEF HallLines
<1> HIDE DEF Is
<1>7. HallLines(0) = {1}
  <2>1. {1} \in SUBSET Phases
    BY DEF Phases
  <2>2. Is({1}, 0)
    BY <1>5, <2>1
  <2>3. \A s \in SUBSET Phases : Is(s, 0) => s = {1}
    BY <1>5
  <2> QED BY <1>6, <2>1, <2>2, <2>3
<1>8. HallLines(1) = {1, 2}
  <2>1. {1, 2} \in SUBSET Phases
    BY DEF Phases
  <2>2. Is({1, 2}, 1)
    BY <1>5, <2>1
  <2>3. \A s \in SUBSET Phases : Is(s, 1) => s = {1, 2}
    BY <1>5
  <2> QED BY <1>6, <2>1, <2>2, <2>3
<1>9. HallLines(2) = {2}
  <2>1. {2} \in SUBSET Phases
    BY DEF Phases
  <2>2. Is({2}, 2)
    BY <1>5, <2>1
  <2>3. \A s \in SUBSET Phases : Is(s, 2) => s = {2}
    BY <1>5
  <2> QED BY <1>6, <2>1, <2>2, <2>3
<1>10. HallLines(3) = {2, 3}
  <2>1. {2, 3} \in SUBSET Phases
    BY DEF Phases
  <2>2. Is({2, 3}, 3)
    BY <1>5, <2>1
  <2>3. \A s \in SUBSET Phases : Is(s, 3) => s = {2, 3}
    BY <1>5
  <2> QED BY <1>6, <2>1, <2>2, <2>3
<1>11. HallLines(4) = {3}
  <2>1. {3} \in SUBSET Phases
    BY DEF Phases
  <2>2. Is({3}, 4)
    BY <1>5, <2>1
  <2>3. \A s \in SUBSET Phases : Is(s, 4) => s = {3}
    BY <1>5
  <2> QED BY <1>6, <2>1, <2>2, <2>3
<1>12. HallLines(5) = {1, 3}
  <2>1. {1, 3} \in SUBSET Phases
    BY DEF Phases
  <2>2. Is({1, 3}, 5)
    BY <1>5, <2>1
  <2>3. \A s \in SUBSET Phases : Is(s, 5) => s = {1, 3}
    BY <1>5
  <2> QED BY <1>6, <2>1, <2>2, <2>3
<1> QED BY <1>7, <1>8, <1>9, <1>10, <1>11, <1>12

\* A sector's Hall lines are read back as that sector.
LEMMA CmHallCodes ==
  ASSUME NEW n \in 0..5
  PROVE  HallLines(n) \subseteq Phases /\ Valid(CodeOf(HallLines(n))) /\ HallToSector[CodeOf(HallLines(n))] = n
<1>1. n = 0 \/ n = 1 \/ n = 2 \/ n = 3 \/ n = 4 \/ n = 5
  OBVIOUS
<1> QED BY <1>1, CmHallSets DEF Phases, CodeOf, Valid, HallToSector

\* Neighbouring sectors differ in one line.
LEMMA CmHallMixed ==
  ASSUME NEW a \in 0..5, NEW b, b \in {a, (a + 1) % 6, (a + 5) % 6}, NEW k \in 1..4, NEW high \in SUBSET Phases,
         \A l \in Phases : (l < k => (l \in high <=> l \in HallLines(a)))
                          /\ (~(l < k) => (l \in high <=> l \in HallLines(b)))
  PROVE  high = HallLines(a) \/ high = HallLines(b)
<1>1. b \in 0..5
  OBVIOUS
<1>2. HallLines(a) \subseteq Phases /\ HallLines(b) \subseteq Phases
  BY <1>1, CmHallCodes
<1>3. \E d \in Phases : \A l \in Phases : l # d => (l \in HallLines(a) <=> l \in HallLines(b))
  <2>1. a = 0 \/ a = 1 \/ a = 2 \/ a = 3 \/ a = 4 \/ a = 5
    OBVIOUS
  <2>2. CASE b = a
    BY <2>2 DEF Phases
  <2>3. CASE b = (a + 1) % 6
    <3>1. (a = 0 /\ b = 1) \/ (a = 1 /\ b = 2) \/ (a = 2 /\ b = 3) \/ (a = 3 /\ b = 4) \/ (a = 4 /\ b = 5) \/ (a = 5 /\ b = 0)
      BY <2>1, <2>3
    <3> QED BY <3>1, CmHallSets DEF Phases
  <2>4. CASE b = (a + 5) % 6
    <3>1. (a = 1 /\ b = 0) \/ (a = 2 /\ b = 1) \/ (a = 3 /\ b = 2) \/ (a = 4 /\ b = 3) \/ (a = 5 /\ b = 4) \/ (a = 0 /\ b = 5)
      BY <2>1, <2>4
    <3> QED BY <3>1, CmHallSets DEF Phases
  <2> QED BY <2>2, <2>3, <2>4
<1>4. PICK d \in Phases : \A l \in Phases : l # d => (l \in HallLines(a) <=> l \in HallLines(b))
  BY <1>3
<1>5. CASE d < k
  BY <1>2, <1>4, <1>5 DEF Phases
<1>6. CASE ~(d < k)
  BY <1>2, <1>4, <1>6 DEF Phases
<1> QED BY <1>5, <1>6
---------------------------------------------------------------------------
(* The inductive step: bring_up_motor.                                     *)

\* The writes of the bring-up, in order.
LEMMA CmRanks ==
  /\ CmRank(<<"clock", 0>>) = 0 /\ CmRank(<<"base", 0>>) = 1 /\ CmRank(<<"arse", 0>>) = 14
  /\ CmRank(<<"cchp", 0>>) = 15 /\ CmRank(<<"counter", 0>>) = 22 /\ CmRank(Up) = 23
  /\ \A n \in Phases : /\ CmRank(<<"config", n>>) = 4 * n - 2 /\ CmRank(<<"mode", n>>) = 4 * n - 1
                       /\ CmRank(<<"shadow", n>>) = 4 * n /\ CmRank(<<"compare", n>>) = 4 * n + 1
  /\ \A g \in 1..6 : CmRank(<<"route", g>>) = 15 + g
BY DEF CmRank, Up, Phases

\* Before the counter runs every compare is zero.
LEMMA CmBootZero ==
  ASSUME CmIInv, cmBoot # Up
  PROVE  \A i \in Phases : cmReg.shadow[i] = 0 /\ cmReg.cv[i] = 0
<1>1. cmLast = NoStep /\ cmCall.pc = "loop"
  BY DEF CmIInv, CmBootInv, CmNoCall
<1>2. cmLast.drove = << >>
  BY <1>1 DEF NoStep
<1>3. CmRestInv
  BY <1>1 DEF CmIInv, CmBridgeInv
<1>4. cmReg.shadow \in CmLevels /\ cmReg.cv \in CmLevels
  BY DEF CmIInv, CmTypes, CmRegs
<1>5. \A i \in Phases : cmReg.shadow[i] \in 0..CmPeriod /\ ~(cmReg.shadow[i] > 0)
  BY <1>2, <1>3, <1>4 DEF CmRestInv, Drove, CmLevels
<1>6. \A i \in Phases : cmReg.shadow[i] = 0
  BY <1>5, CmAssumption
<1> QED BY <1>2, <1>3, <1>6 DEF CmRestInv

\* One write of the bring-up keeps the invariant.
LEMMA CmBootKeeps ==
  ASSUME CmIInv, NEW from, NEW to, NEW r \in CmRegs, CmBootStep(from, to, r),
         CmRank(from) \in 0..22, CmRank(to) = CmRank(from) + 1, CmRank(to) = 23 <=> to = Up,
         ~r.moe, CmRank(to) < 23 => ~r.cen, CmBooted(r, CmRank(to)),
         \A i \in Phases : r.shadow[i] = 0 /\ r.cv[i] = 0
  PROVE  CmIInv'
<1>1. cmBoot = from /\ cmBoot' = to /\ cmReg' = r
      /\ UNCHANGED <<cmStep, cmRotor, cmCall, cmLast>>
  BY DEF CmBootStep
<1>2. cmBoot # Up
  BY <1>1, CmRanks
<1>3. cmLast = NoStep /\ cmCall = CmNoCall
  BY <1>2 DEF CmIInv, CmBootInv
<1>4. CmTypes'
  BY <1>1 DEF CmIInv, CmTypes
<1>5. CmBootInv'
  BY <1>1, <1>3 DEF CmBootInv
<1>6. cmLast'.drove = << >> /\ cmLast'.pattern = << >> /\ cmCall'.pc = "loop" /\ ~cmLast'.settled
  BY <1>1, <1>3 DEF NoStep, CmNoCall
<1>7. CmRestInv'
  <2>1. \A i \in Phases : ~(cmReg'.shadow[i] > 0) /\ ~(cmReg'.cv[i] > 0)
    BY <1>1
  <2> QED BY <1>1, <1>6, <2>1 DEF CmRestInv
<1>8. CmBridgeInv'
  BY <1>6, <1>7, CmStepKinds DEF CmBridgeInv, Coast
<1>9. CmHallInv'
  BY <1>6 DEF CmHallInv
<1> QED BY <1>4, <1>5, <1>8, <1>9 DEF CmIInv

\* A write to the clocked timer.
LEMMA CmWritten ==
  ASSUME CmIInv, NEW from, NEW to, NEW r \in CmRegs, CmBootStep(from, to, Written(r)),
         CmRank(from) \in 1..21, CmRank(to) = CmRank(from) + 1,
         r.moe = cmReg.moe, r.cen = cmReg.cen,
         (\A i \in Phases : cmReg.shadow[i] = 0 /\ cmReg.cv[i] = 0) =>
           \A i \in Phases : r.shadow[i] = 0 /\ r.cv[i] = 0,
         CmBooted(cmReg, CmRank(from)) => CmBooted(r, CmRank(to))
  PROVE  CmIInv'
<1>1. cmBoot = from /\ cmBoot # Up
  BY CmRanks DEF CmBootStep
<1>2. ~cmReg.moe /\ ~cmReg.cen /\ CmBooted(cmReg, CmRank(from))
  BY <1>1 DEF CmIInv, CmBootInv
<1>3. Written(r) = r
  BY <1>2 DEF CmBooted, Written
<1>4. to # Up
  BY CmRanks
<1> QED BY <1>1, <1>2, <1>3, <1>4, CmBootKeeps, CmBootZero

\* The time base and the channels' writes (configure) keep the invariant.
LEMMA CmConfigure ==
  ASSUME CmIInv, PwmTimerConfigure
  PROVE  CmIInv'
<1>1. cmReg \in CmRegs
  BY DEF CmIInv, CmTypes
<1>2. /\ cmReg.polarity \in CmFlags /\ cmReg.idle \in CmFlags /\ cmReg.pwm0 \in CmFlags
      /\ cmReg.preload \in CmFlags /\ cmReg.en \in CmFlags
      /\ cmReg.shadow \in CmLevels /\ cmReg.cv \in CmLevels
  BY <1>1 DEF CmRegs
<1>3. CASE CmBootStep(<<"base", 0>>, <<"config", 1>>, timer_init)
  <2> DEFINE r == [cmReg EXCEPT !.car = CmPeriod, !.cv = cmReg.shadow]
  <2>1. timer_init = Written(r)
    BY DEF timer_init, pwm_config
  <2>2. r \in CmRegs /\ r.moe = cmReg.moe /\ r.cen = cmReg.cen /\ r.shadow = cmReg.shadow /\ r.cv = cmReg.shadow
    BY <1>1, CmAssumption DEF CmRegs
  <2>3. CmBooted(cmReg, 1) => CmBooted(r, 2)
    BY <1>1 DEF CmBooted, CmRegs, Phases
  <2>4. CmRank(<<"config", 1>>) = 2 /\ CmRank(<<"base", 0>>) = 1
    BY CmRanks DEF Phases
  <2>5. CmBootStep(<<"base", 0>>, <<"config", 1>>, Written(r))
    BY <1>3, <2>1
  <2> HIDE DEF r
  <2> QED BY <2>2, <2>3, <2>4, <2>5, CmWritten
<1>4. ASSUME NEW n \in Phases,
             CmBootStep(<<"config", n>>, <<"mode", n>>, channel_output_config(n))
      PROVE  CmIInv'
  <2> DEFINE r == [cmReg EXCEPT !.en[n] = TRUE, !.polarity[n] = TRUE, !.idle[n] = TRUE]
  <2>1. channel_output_config(n) = Written(r)
    BY DEF channel_output_config, pwm_config
  <2>2. r \in CmRegs /\ r.moe = cmReg.moe /\ r.cen = cmReg.cen /\ r.shadow = cmReg.shadow /\ r.cv = cmReg.cv
    BY <1>1, <1>2 DEF CmRegs, CmFlags
  <2>3. CmBooted(cmReg, 4 * n - 2) => CmBooted(r, 4 * n - 1)
    BY <1>1, <1>2 DEF CmBooted, CmRegs, CmFlags, Phases
  <2>4. CmRank(<<"mode", n>>) = 4 * n - 1 /\ CmRank(<<"config", n>>) = 4 * n - 2
    BY CmRanks
  <2>5. CmBootStep(<<"config", n>>, <<"mode", n>>, Written(r))
    BY <1>4, <2>1
  <2>6. 4 * n - 2 \in 1..21 /\ 4 * n - 1 = (4 * n - 2) + 1
    BY DEF Phases
  <2> HIDE DEF r
  <2> QED BY <2>2, <2>3, <2>4, <2>5, <2>6, CmWritten
<1>5. ASSUME NEW n \in Phases,
             CmBootStep(<<"mode", n>>, <<"shadow", n>>, channel_output_mode_pwm0(n))
      PROVE  CmIInv'
  <2> DEFINE r == [cmReg EXCEPT !.pwm0[n] = TRUE]
  <2>1. channel_output_mode_pwm0(n) = Written(r)
    BY DEF channel_output_mode_pwm0
  <2>2. r \in CmRegs /\ r.moe = cmReg.moe /\ r.cen = cmReg.cen /\ r.shadow = cmReg.shadow /\ r.cv = cmReg.cv
    BY <1>1, <1>2 DEF CmRegs, CmFlags
  <2>3. CmBooted(cmReg, 4 * n - 1) => CmBooted(r, 4 * n)
    BY <1>1, <1>2 DEF CmBooted, CmRegs, CmFlags, Phases
  <2>4. CmRank(<<"shadow", n>>) = 4 * n /\ CmRank(<<"mode", n>>) = 4 * n - 1
    BY CmRanks
  <2>5. CmBootStep(<<"mode", n>>, <<"shadow", n>>, Written(r))
    BY <1>5, <2>1
  <2>6. 4 * n - 1 \in 1..21 /\ 4 * n = (4 * n - 1) + 1
    BY DEF Phases
  <2> HIDE DEF r
  <2> QED BY <2>2, <2>3, <2>4, <2>5, <2>6, CmWritten
<1>6. ASSUME NEW n \in Phases,
             CmBootStep(<<"shadow", n>>, <<"compare", n>>, channel_output_shadow_enable(n))
      PROVE  CmIInv'
  <2> DEFINE r == [cmReg EXCEPT !.preload[n] = TRUE]
  <2>1. channel_output_shadow_enable(n) = Written(r)
    BY DEF channel_output_shadow_enable
  <2>2. r \in CmRegs /\ r.moe = cmReg.moe /\ r.cen = cmReg.cen /\ r.shadow = cmReg.shadow /\ r.cv = cmReg.cv
    BY <1>1, <1>2 DEF CmRegs, CmFlags
  <2>3. CmBooted(cmReg, 4 * n) => CmBooted(r, 4 * n + 1)
    BY <1>1, <1>2 DEF CmBooted, CmRegs, CmFlags, Phases
  <2>4. CmRank(<<"compare", n>>) = 4 * n + 1 /\ CmRank(<<"shadow", n>>) = 4 * n
    BY CmRanks
  <2>5. CmBootStep(<<"shadow", n>>, <<"compare", n>>, Written(r))
    BY <1>6, <2>1
  <2>6. 4 * n \in 1..21
    BY DEF Phases
  <2> HIDE DEF r
  <2> QED BY <2>2, <2>3, <2>4, <2>5, <2>6, CmWritten
<1>7. ASSUME NEW n \in Phases,
             CmBootStep(<<"compare", n>>, IF n < 3 THEN <<"config", n + 1>> ELSE <<"arse", 0>>,
                        channel_compare(n))
      PROVE  CmIInv'
  <2> DEFINE v == IF cmReg.preload[n] THEN cmReg.cv[n] ELSE 0
             r == [cmReg EXCEPT !.shadow[n] = 0, !.cv[n] = v]
             to == IF n < 3 THEN <<"config", n + 1>> ELSE <<"arse", 0>>
  <2>1. channel_compare(n) = Written(r)
    BY DEF channel_compare
  <2>2. v \in 0..CmPeriod /\ (cmReg.cv[n] = 0 => v = 0)
    BY <1>2, CmAssumption DEF CmLevels
  <2>3. CmBootStep(<<"compare", n>>, to, Written(r))
    BY <1>7, <2>1
  <2>4. CmRank(to) = 4 * n + 2 /\ CmRank(<<"compare", n>>) = 4 * n + 1
    <3>1. CASE n < 3
      <4>1. n + 1 \in Phases /\ 4 * (n + 1) - 2 = 4 * n + 2
        BY <3>1 DEF Phases
      <4> QED BY <3>1, <4>1, CmRanks
    <3>2. CASE ~(n < 3)
      <4>1. n = 3 /\ 4 * n + 2 = 14
        BY <3>2 DEF Phases
      <4>2. to = <<"arse", 0>>
        BY <3>2
      <4> HIDE DEF to
      <4> QED BY <4>1, <4>2, CmRanks
    <3> QED BY <3>1, <3>2
  <2> HIDE DEF v, to
  <2>5. r \in CmRegs
    <3>1. [cmReg.shadow EXCEPT ![n] = 0] \in CmLevels /\ [cmReg.cv EXCEPT ![n] = v] \in CmLevels
      BY <1>2, <2>2, CmAssumption DEF CmLevels
    <3>2. r = [cmReg EXCEPT !.shadow = [cmReg.shadow EXCEPT ![n] = 0], !.cv = [cmReg.cv EXCEPT ![n] = v]]
      OBVIOUS
    <3> QED BY <1>1, <3>1, <3>2 DEF CmRegs
  <2>6. r.moe = cmReg.moe /\ r.cen = cmReg.cen
    BY <1>1 DEF CmRegs
  <2>7. CmBooted(cmReg, 4 * n + 1) => CmBooted(r, 4 * n + 2)
    BY <1>1, <1>2 DEF CmBooted, CmRegs, CmFlags, Phases
  <2>8. (\A i \in Phases : cmReg.shadow[i] = 0 /\ cmReg.cv[i] = 0) =>
          \A i \in Phases : r.shadow[i] = 0 /\ r.cv[i] = 0
    BY <1>1, <1>2, <2>2 DEF CmRegs, CmLevels
  <2>9. 4 * n + 1 \in 1..21 /\ 4 * n + 2 = (4 * n + 1) + 1
    BY DEF Phases
  <2> HIDE DEF r
  <2> QED BY <2>3, <2>4, <2>5, <2>6, <2>7, <2>8, <2>9, CmWritten
<1>8. CASE CmBootStep(<<"arse", 0>>, <<"cchp", 0>>, Written([cmReg EXCEPT !.arse = pwm_config.arse]))
  <2> DEFINE r == [cmReg EXCEPT !.arse = TRUE]
  <2>1. Written([cmReg EXCEPT !.arse = pwm_config.arse]) = Written(r)
    BY DEF pwm_config
  <2>2. r \in CmRegs /\ r.moe = cmReg.moe /\ r.cen = cmReg.cen /\ r.shadow = cmReg.shadow /\ r.cv = cmReg.cv
    BY <1>1 DEF CmRegs
  <2>3. CmBooted(cmReg, 14) => CmBooted(r, 15)
    BY <1>1 DEF CmBooted, CmRegs, Phases
  <2>4. CmBootStep(<<"arse", 0>>, <<"cchp", 0>>, Written(r))
    BY <1>8, <2>1
  <2> HIDE DEF r
  <2> QED BY <2>2, <2>3, <2>4, CmWritten, CmRanks
<1>9. CASE CmBootStep(<<"cchp", 0>>, <<"route", 1>>, break_config)
  <2> DEFINE r == [cmReg EXCEPT !.dead = 25, !.moe = FALSE]
  <2>1. break_config = Written(r)
    BY DEF break_config, pwm_config
  <2>2. cmBoot # Up
    BY <1>9 DEF CmBootStep, Up
  <2>3. r \in CmRegs /\ r.moe = cmReg.moe /\ r.cen = cmReg.cen /\ r.shadow = cmReg.shadow /\ r.cv = cmReg.cv
    BY <1>1, <2>2 DEF CmRegs, CmIInv, CmBootInv
  <2>4. CmBooted(cmReg, 15) => CmBooted(r, 16)
    BY <1>1 DEF CmBooted, CmRegs, Phases
  <2>5. CmRank(<<"route", 1>>) = 16
    BY CmRanks
  <2>6. CmBootStep(<<"cchp", 0>>, <<"route", 1>>, Written(r))
    BY <1>9, <2>1
  <2> HIDE DEF r
  <2> QED BY <2>3, <2>4, <2>5, <2>6, CmWritten, CmRanks
<1> QED BY <1>3, <1>4, <1>5, <1>6, <1>7, <1>8, <1>9 DEF PwmTimerConfigure

\* The rest of bring_up_motor keeps the invariant.
LEMMA CmBringUp ==
  ASSUME CmIInv, BringUp
  PROVE  CmIInv'
<1>1. cmReg \in CmRegs
  BY DEF CmIInv, CmTypes
<1>2. cmBoot # Up => ~cmReg.moe /\ ~cmReg.cen
  BY DEF CmIInv, CmBootInv
<1>3. CmBooted(cmReg, CmRank(cmBoot))
  BY DEF CmIInv, CmBootInv
<1>4. CASE CmBootStep(<<"clock", 0>>, <<"base", 0>>, [cmReg EXCEPT !.clocked = TRUE])
  <2> DEFINE r == [cmReg EXCEPT !.clocked = TRUE]
  <2>1. cmBoot = <<"clock", 0>> /\ cmBoot # Up
    BY <1>4 DEF CmBootStep, Up
  <2>2. r \in CmRegs /\ ~r.moe /\ ~r.cen /\ r.clocked /\ r.shadow = cmReg.shadow /\ r.cv = cmReg.cv
    BY <1>1, <1>2, <2>1 DEF CmRegs
  <2>3. CmBooted(r, 1)
    BY <2>2 DEF CmBooted, Phases
  <2>4. CmBootStep(<<"clock", 0>>, <<"base", 0>>, r)
    BY <1>4
  <2>5. <<"base", 0>> # Up
    BY DEF Up
  <2> HIDE DEF r
  <2> QED BY <2>1, <2>2, <2>3, <2>4, <2>5, CmBootKeeps, CmRanks, CmBootZero
<1>5. CASE PwmTimerConfigure
  BY <1>5, CmConfigure
<1>6. ASSUME NEW g \in 1..6,
             CmBootStep(<<"route", g>>, IF g < 6 THEN <<"route", g + 1>> ELSE <<"counter", 0>>,
                        route_advanced_pwm_pin(g))
      PROVE  CmIInv'
  <2> DEFINE r == route_advanced_pwm_pin(g)
             to == IF g < 6 THEN <<"route", g + 1>> ELSE <<"counter", 0>>
  <2>1. cmBoot = <<"route", g>> /\ cmBoot # Up
    BY <1>6 DEF CmBootStep, Up
  <2>2. r \in CmRegs /\ ~r.moe /\ ~r.cen /\ r.shadow = cmReg.shadow /\ r.cv = cmReg.cv
    BY <1>1, <1>2, <2>1 DEF CmRegs, route_advanced_pwm_pin
  <2>3. CmBooted(r, 16 + g)
    <3>1. CmBooted(cmReg, 15 + g)
      BY <1>3, <2>1, CmRanks
    <3>2. r = [cmReg EXCEPT !.routed = cmReg.routed \cup {g}]
      BY DEF route_advanced_pwm_pin
    <3> QED BY <1>1, <3>1, <3>2 DEF CmBooted, CmRegs, Phases
  <2>4. CmRank(to) = 16 + g /\ to # Up
    <3>1. CASE g < 6
      <4>1. g + 1 \in 1..6
        BY <3>1
      <4> QED BY <3>1, <4>1, CmRanks DEF Up
    <3>2. CASE ~(g < 6)
      BY <3>2, CmRanks DEF Up
    <3> QED BY <3>1, <3>2
  <2>5. CmBootStep(<<"route", g>>, to, r)
    BY <1>6
  <2> HIDE DEF r, to
  <2> QED BY <2>1, <2>2, <2>3, <2>4, <2>5, CmBootKeeps, CmRanks, CmBootZero
<1>7. CASE CmBootStep(<<"counter", 0>>, Up, enable_counter)
  <2> DEFINE r == enable_counter
  <2>1. cmBoot = <<"counter", 0>> /\ cmBoot # Up
    BY <1>7 DEF CmBootStep, Up
  <2>2. CmBooted(cmReg, 22)
    BY <1>3, <2>1, CmRanks
  <2>3. r = [cmReg EXCEPT !.cen = TRUE]
    BY <2>2 DEF enable_counter, Written, CmBooted
  <2>4. r \in CmRegs /\ ~r.moe /\ r.shadow = cmReg.shadow /\ r.cv = cmReg.cv
    BY <1>1, <1>2, <2>1, <2>3 DEF CmRegs
  <2>5. CmBooted(r, 23)
    BY <1>1, <2>2, <2>3 DEF CmBooted, CmRegs, Phases
  <2> HIDE DEF r
  <2>6. CmBootStep(<<"counter", 0>>, Up, r)
    BY <1>7 DEF r
  <2> QED BY <2>1, <2>4, <2>5, <2>6, CmBootKeeps, CmRanks, CmBootZero
<1> QED BY <1>4, <1>5, <1>6, <1>7 DEF BringUp
---------------------------------------------------------------------------
(* The inductive step: the application, the machine and the loop.          *)

\* Running, the timer keeps what bring_up_motor wrote.
LEMMA CmUpKeeps ==
  ASSUME CmIInv, cmBoot = Up, cmBoot' = Up,
         cmReg'.clocked = cmReg.clocked, cmReg'.car = cmReg.car, cmReg'.arse = cmReg.arse,
         cmReg'.dead = cmReg.dead, cmReg'.cen = cmReg.cen, cmReg'.routed = cmReg.routed,
         cmReg'.polarity = cmReg.polarity, cmReg'.idle = cmReg.idle, cmReg'.pwm0 = cmReg.pwm0,
         cmReg'.preload = cmReg.preload
  PROVE  CmBootInv'
<1>1. CmBooted(cmReg, 23)
  BY CmRanks DEF CmIInv, CmBootInv
<1>2. CmBooted(cmReg', 23)
  BY <1>1 DEF CmBooted
<1> QED BY <1>2, CmRanks DEF CmBootInv

\* arm, disarm and a new offset keep the invariant.
LEMMA CmApplication ==
  ASSUME CmIInv, Arm \/ Disarm \/ SetOffset
  PROVE  CmIInv'
<1>1. cmReg \in CmRegs /\ cmBoot = Up
  BY DEF CmIInv, CmTypes, Arm, Disarm, SetOffset, At3
<1>2. PICK m \in BOOLEAN : cmReg' = [cmReg EXCEPT !.moe = m]
  <2>1. CASE SetOffset
    <3>1. cmReg' = [cmReg EXCEPT !.moe = cmReg.moe] /\ cmReg.moe \in BOOLEAN
      BY <1>1, <2>1 DEF SetOffset, CmRegs
    <3> QED BY <3>1
  <2> QED BY <2>1 DEF Arm, Disarm
<1>3. UNCHANGED <<cmBoot, cmRotor, cmCall, cmLast>>
  BY DEF Arm, Disarm, SetOffset
<1>4. cmStep' \in [direction : {"Forward", "Reverse"}, offset : 0..5]
  <2>1. CASE SetOffset
    <3>1. PICK o \in CmOffsets : cmStep' = [cmStep EXCEPT !.offset = o % 6]
      BY <2>1 DEF SetOffset
    <3>2. o % 6 \in 0..5
      BY CmAssumption
    <3> QED BY <3>1, <3>2 DEF CmIInv, CmTypes
  <2> QED BY <2>1 DEF Arm, Disarm, CmIInv, CmTypes
<1>5. cmReg' \in CmRegs /\ cmReg'.en = cmReg.en /\ cmReg'.shadow = cmReg.shadow /\ cmReg'.cv = cmReg.cv
  BY <1>1, <1>2 DEF CmRegs
<1>6. CmTypes'
  BY <1>3, <1>4, <1>5 DEF CmIInv, CmTypes
<1>7. CmBootInv'
  BY <1>1, <1>2, <1>3, CmUpKeeps DEF CmRegs
<1>8. CmBridgeInv'
  BY <1>3, <1>5 DEF CmIInv, CmBridgeInv, CmRestInv, CmDutyInv, Drove
<1>9. CmHallInv'
  BY <1>3 DEF CmIInv, CmHallInv
<1> QED BY <1>6, <1>7, <1>8, <1>9 DEF CmIInv

\* The rotor's turning keeps the invariant.
LEMMA CmTurn ==
  ASSUME CmIInv, Turn
  PROVE  CmIInv'
<1>1. /\ cmBoot = Up /\ cmRotor.moved < CmMoves
      /\ UNCHANGED <<cmReg, cmBoot, cmStep, cmCall, cmLast>>
  BY DEF Turn
<1>2. cmRotor \in [sector : 0..5, ok : BOOLEAN, moved : 0..CmMoves]
  BY DEF CmIInv, CmTypes
<1>3. cmRotor'.moved = cmRotor.moved + 1 /\ cmRotor'.moved \in 0..CmMoves
  <2>1. cmRotor.moved + 1 \in 0..CmMoves
    BY <1>1, <1>2, CmAssumption
  <2>2. cmRotor'.moved = cmRotor.moved + 1
    BY <1>2 DEF Turn
  <2> QED BY <2>1, <2>2
<1>4. \/ /\ cmRotor'.sector \in {(cmRotor.sector + 1) % 6, (cmRotor.sector + 5) % 6}
         /\ cmRotor'.ok = cmRotor.ok
      \/ cmRotor'.sector = cmRotor.sector /\ cmRotor'.ok = ~cmRotor.ok
  BY <1>2 DEF Turn
<1>5. cmRotor' \in [sector : 0..5, ok : BOOLEAN, moved : 0..CmMoves]
  <2>1. (cmRotor.sector + 1) % 6 \in 0..5 /\ (cmRotor.sector + 5) % 6 \in 0..5
    BY <1>2
  <2>2. CASE cmRotor' = [cmRotor EXCEPT !.ok = ~cmRotor.ok, !.moved = cmRotor.moved + 1]
    BY <1>2, <1>3, <2>2
  <2>3. ASSUME NEW s \in {(cmRotor.sector + 1) % 6, (cmRotor.sector + 5) % 6},
               cmRotor' = [cmRotor EXCEPT !.sector = s, !.moved = cmRotor.moved + 1]
        PROVE  cmRotor' \in [sector : 0..5, ok : BOOLEAN, moved : 0..CmMoves]
    BY <1>2, <1>3, <2>1, <2>3
  <2> QED BY <2>2, <2>3 DEF Turn
<1>6. CmTypes'
  BY <1>1, <1>5 DEF CmIInv, CmTypes
<1>7. CmBootInv'
  BY <1>1 DEF CmIInv, CmBootInv
<1>8. CmBridgeInv'
  BY <1>1 DEF CmIInv, CmBridgeInv, CmRestInv, CmDutyInv, Drove
<1>9. CmHallInv'
  <2> SUFFICES ASSUME cmCall.pc = "read", cmCall.steady, cmRotor'.moved <= 1
               PROVE  /\ cmRotor'.moved # 0
                      /\ cmRotor'.ok =>
                           /\ cmRotor'.sector \in {cmCall.from, (cmCall.from + 1) % 6, (cmCall.from + 5) % 6}
                           /\ \E k \in 1..cmCall.line : \A l \in Phases :
                                l \in cmCall.high <=>
                                  /\ l < cmCall.line
                                  /\ l \in HallLines(IF l < k THEN cmCall.from ELSE cmRotor'.sector)
    BY <1>1 DEF CmHallInv
  <2>1. cmCall \in CmReads
    BY DEF CmIInv, CmTypes, CmNoCall, CmWrites
  <2>2. cmRotor.moved = 0 /\ cmRotor'.moved = 1
    BY <1>2, <1>3
  <2>3. cmRotor.ok /\ cmRotor.sector = cmCall.from
    BY <2>2 DEF CmIInv, CmHallInv
  <2>4. PICK k \in 1..cmCall.line : \A l \in Phases :
          l \in cmCall.high <=> /\ l < cmCall.line
                                /\ l \in HallLines(IF l < k THEN cmCall.from ELSE cmRotor.sector)
    BY <2>2, <2>3 DEF CmIInv, CmHallInv
  <2>5. \A l \in Phases : l \in cmCall.high <=> l < cmCall.line /\ l \in HallLines(cmCall.from)
    BY <2>3, <2>4
  <2>6. cmCall.line \in 1..cmCall.line
    BY <2>1 DEF CmReads
  <2>7. \A l \in Phases :
          l \in cmCall.high <=>
            /\ l < cmCall.line
            /\ l \in HallLines(IF l < cmCall.line THEN cmCall.from ELSE cmRotor'.sector)
    BY <2>5
  <2>8. cmRotor'.ok =>
          cmRotor'.sector \in {cmCall.from, (cmCall.from + 1) % 6, (cmCall.from + 5) % 6}
    BY <1>4, <2>3
  <2> QED BY <2>2, <2>6, <2>7, <2>8
<1> QED BY <1>6, <1>7, <1>8, <1>9 DEF CmIInv

\* The timer's update event keeps the invariant.
LEMMA CmUpdate ==
  ASSUME CmIInv, Update
  PROVE  CmIInv'
<1>1. /\ cmReg.cen /\ cmReg' = [cmReg EXCEPT !.cv = cmReg.shadow]
      /\ cmLast' = [cmLast EXCEPT !.settled = cmCall.pc \in {"loop", "read"}]
      /\ UNCHANGED <<cmBoot, cmStep, cmRotor, cmCall>>
  BY DEF Update
<1>2. cmReg \in CmRegs /\ cmBoot = Up
  BY <1>1 DEF CmIInv, CmTypes, CmBootInv
<1>3. cmReg' \in CmRegs /\ cmReg'.en = cmReg.en /\ cmReg'.shadow = cmReg.shadow /\ cmReg'.cv = cmReg.shadow
  BY <1>1, <1>2 DEF CmRegs
<1>4. /\ cmLast' \in [pattern : {<< >>, Coast} \cup CmSteps, drove : {<< >>} \cup CmSteps,
                     settled : BOOLEAN, calm : BOOLEAN]
      /\ cmLast'.pattern = cmLast.pattern /\ cmLast'.drove = cmLast.drove /\ cmLast'.calm = cmLast.calm
  <2> DEFINE b == cmCall.pc \in {"loop", "read"}
  <2>1. b \in BOOLEAN /\ cmLast' = [cmLast EXCEPT !.settled = b]
    BY <1>1
  <2> HIDE DEF b
  <2> QED BY <2>1 DEF CmIInv, CmTypes
<1>5. CmTypes'
  BY <1>1, <1>3, <1>4 DEF CmIInv, CmTypes
<1>6. CmBootInv'
  BY <1>1, <1>2, CmUpKeeps DEF CmRegs
<1>7. ASSUME cmCall.pc # "duty" PROVE CmRestInv'
  <2>1. CmRestInv
    BY <1>7 DEF CmIInv, CmBridgeInv
  <2>2. \A i \in Phases : cmReg.shadow[i] \in 0..CmPeriod
    BY <1>2 DEF CmRegs, CmLevels
  <2>3. cmLast.drove = << >> => \A i \in Phases : cmReg.shadow[i] = 0
    BY <2>1, <2>2, CmAssumption DEF CmRestInv, Drove
  <2> QED BY <1>3, <1>4, <2>1, <2>3 DEF CmRestInv, Drove
<1>8. ASSUME cmCall.pc = "duty" PROVE CmDutyInv'
  <2>1. CmDutyInv
    BY <1>8 DEF CmIInv, CmBridgeInv
  <2>2. \A j \in Phases : cmReg.shadow[j] > 0 => cmCall.pattern[j] = "Pwm" \/ Drove(j)
    BY <2>1 DEF CmDutyInv
  <2> QED BY <1>1, <1>3, <1>4, <2>1, <2>2 DEF CmDutyInv, Drove
<1>9. CmBridgeInv'
  BY <1>1, <1>3, <1>4, <1>7, <1>8 DEF CmIInv, CmBridgeInv
<1>10. CmHallInv'
  BY <1>1 DEF CmIInv, CmHallInv
<1> QED BY <1>5, <1>6, <1>9, <1>10 DEF CmIInv

\* The beginning of a read of the Hall lines keeps the invariant.
LEMMA CmStartRead ==
  ASSUME CmIInv, StartRead
  PROVE  CmIInv'
<1>1. /\ cmCall.pc = "loop"
      /\ cmCall' = [pc |-> "read", line |-> 1, high |-> {},
                    from |-> cmRotor.sector, steady |-> cmRotor.ok]
      /\ cmRotor' = [cmRotor EXCEPT !.moved = 0]
      /\ UNCHANGED <<cmReg, cmBoot, cmStep, cmLast>>
      /\ cmBoot = Up
  BY DEF StartRead, At3
<1>2. cmRotor \in [sector : 0..5, ok : BOOLEAN, moved : 0..CmMoves]
  BY DEF CmIInv, CmTypes
<1>3. cmCall' \in CmReads
  BY <1>1, <1>2 DEF CmReads
<1>4. cmRotor' \in [sector : 0..5, ok : BOOLEAN, moved : 0..CmMoves]
      /\ cmRotor'.sector = cmRotor.sector /\ cmRotor'.ok = cmRotor.ok /\ cmRotor'.moved = 0
  BY <1>1, <1>2, CmAssumption
<1>5. CmTypes'
  BY <1>1, <1>3, <1>4 DEF CmIInv, CmTypes
<1>6. CmBootInv'
  BY <1>1 DEF CmIInv, CmBootInv
<1>7. CmBridgeInv'
  BY <1>1 DEF CmIInv, CmBridgeInv, CmRestInv, Drove
<1>8. CmHallInv'
  BY <1>1, <1>2, <1>4 DEF CmHallInv, Phases
<1> QED BY <1>5, <1>6, <1>7, <1>8 DEF CmIInv

\* The read of one Hall line keeps the invariant.
LEMMA CmReadLine ==
  ASSUME CmIInv, ReadLine
  PROVE  CmIInv'
<1> DEFINE seen == cmRotor.ok /\ cmCall.line \in HallLines(cmRotor.sector)
<1>1. /\ cmBoot = Up /\ cmCall.pc = "read" /\ cmCall.line <= 3
      /\ cmCall' = [cmCall EXCEPT !.line = cmCall.line + 1,
                                  !.high = IF seen THEN cmCall.high \cup {cmCall.line} ELSE cmCall.high,
                                  !.steady = cmCall.steady /\ cmRotor.ok]
      /\ UNCHANGED <<cmReg, cmBoot, cmStep, cmRotor, cmLast>>
  BY DEF ReadLine, At3
<1>2. cmCall \in CmReads
  BY <1>1 DEF CmIInv, CmTypes, CmNoCall, CmWrites
<1>3. /\ cmCall'.pc = "read" /\ cmCall'.line = cmCall.line + 1 /\ cmCall'.from = cmCall.from
      /\ cmCall'.steady = (cmCall.steady /\ cmRotor.ok)
      /\ cmCall'.high = IF seen THEN cmCall.high \cup {cmCall.line} ELSE cmCall.high
  BY <1>1, <1>2 DEF CmReads
<1>4. cmCall.line \in Phases /\ cmCall.line + 1 \in 1..4
  BY <1>1, <1>2 DEF CmReads, Phases
<1> HIDE DEF seen
<1>5. cmCall' \in CmReads
  <2>1. cmRotor.ok \in BOOLEAN
    BY DEF CmIInv, CmTypes
  <2>2. cmCall'.high \in SUBSET Phases
    BY <1>2, <1>3, <1>4 DEF CmReads
  <2> QED BY <1>1, <1>2, <1>3, <1>4, <2>1, <2>2 DEF CmReads
<1>6. CmTypes'
  BY <1>1, <1>5 DEF CmIInv, CmTypes
<1>7. CmBootInv'
  BY <1>1, CmUpKeeps
<1>8. CmBridgeInv'
  BY <1>1, <1>3 DEF CmIInv, CmBridgeInv, CmRestInv, Drove
<1>9. CmHallInv'
  <2> SUFFICES ASSUME cmCall.steady, cmRotor.ok, cmRotor.moved <= 1
               PROVE  /\ cmRotor.moved = 0 => cmRotor.ok /\ cmRotor.sector = cmCall.from
                      /\ cmRotor.sector \in {cmCall.from, (cmCall.from + 1) % 6, (cmCall.from + 5) % 6}
                      /\ \E k \in 1..(cmCall.line + 1) : \A l \in Phases :
                           l \in cmCall'.high <=>
                             /\ l < cmCall.line + 1
                             /\ l \in HallLines(IF l < k THEN cmCall.from ELSE cmRotor.sector)
    BY <1>1, <1>3 DEF CmHallInv
  <2>1. /\ cmRotor.moved = 0 => cmRotor.ok /\ cmRotor.sector = cmCall.from
        /\ cmRotor.sector \in {cmCall.from, (cmCall.from + 1) % 6, (cmCall.from + 5) % 6}
    BY <1>1 DEF CmIInv, CmHallInv
  <2>2. PICK k \in 1..cmCall.line : \A l \in Phases :
          l \in cmCall.high <=> /\ l < cmCall.line
                                /\ l \in HallLines(IF l < k THEN cmCall.from ELSE cmRotor.sector)
    BY <1>1 DEF CmIInv, CmHallInv
  <2>3. k \in 1..(cmCall.line + 1) /\ ~(cmCall.line < k)
    BY <1>4, <2>2 DEF Phases
  <2>4. ASSUME NEW l \in Phases
        PROVE  l \in cmCall'.high <=>
                 /\ l < cmCall.line + 1
                 /\ l \in HallLines(IF l < k THEN cmCall.from ELSE cmRotor.sector)
    <3>1. CASE l = cmCall.line
      <4>1. l \notin cmCall.high
        BY <1>4, <2>2, <3>1 DEF Phases
      <4>2. l \in cmCall'.high <=> l \in HallLines(cmRotor.sector)
        BY <1>3, <3>1, <4>1 DEF seen
      <4> QED BY <1>4, <2>3, <3>1, <4>2 DEF Phases
    <3>2. CASE l # cmCall.line
      <4>1. l \in cmCall'.high <=> l \in cmCall.high
        BY <1>3, <3>2
      <4>2. l < cmCall.line + 1 <=> l < cmCall.line
        BY <1>4, <3>2 DEF Phases
      <4> QED BY <2>2, <4>1, <4>2
    <3> QED BY <3>1, <3>2
  <2> QED BY <2>1, <2>3, <2>4
<1> QED BY <1>6, <1>7, <1>8, <1>9 DEF CmIInv
\* A fault or a refused duty ends the call, a valid code starts the writes.
LEMMA CmApplyStart ==
  ASSUME CmIInv, ApplyStart
  PROVE  CmIInv'
<1> DEFINE code == CodeOf(cmCall.high)
<1>1. /\ cmBoot = Up /\ cmCall.pc = "read"
      /\ UNCHANGED <<cmBoot, cmStep, cmRotor>>
  BY DEF ApplyStart, At3
<1>2. CmRestInv /\ cmReg \in CmRegs
  BY <1>1 DEF CmIInv, CmBridgeInv, CmTypes
<1>3. ASSUME NEW duty \in CmDuties, Valid(code), duty <= CmPeriod,
             cmCall' = [pc |-> "duty", i |-> 1, pattern |-> Pattern(cmStep, code),
                        duty |-> duty, sector |-> HallToSector[code]],
             cmLast' = [cmLast EXCEPT !.calm =
                          @ /\ \/ cmLast.drove = << >>
                               \/ cmLast.settled /\ Neighbours(cmLast.drove, Pattern(cmStep, code))],
             cmReg' = cmReg
      PROVE  CmIInv'
  <2> DEFINE q == Pattern(cmStep, code)
             calm == cmLast.calm /\ \/ cmLast.drove = << >>
                                    \/ cmLast.settled /\ Neighbours(cmLast.drove, q)
  <2>1. q \in CmSteps /\ HallToSector[code] \in 0..5
    BY <1>3, CmPatternTyped DEF CmIInv
  <2>2. duty \in 0..CmPeriod
    BY <1>3, CmAssumption
  <2>3. calm \in BOOLEAN
    BY DEF CmIInv, CmTypes
  <2>4. calm => cmLast.calm /\ (cmLast.drove = << >> \/ cmLast.settled) /\ Neighbours(cmLast.drove, q)
    BY DEF Neighbours
  <2>5. cmLast' = [cmLast EXCEPT !.calm = calm]
    BY <1>3
  <2>6. /\ cmCall' = [pc |-> "duty", i |-> 1, pattern |-> q, duty |-> duty, sector |-> HallToSector[code]]
    BY <1>3
  <2> HIDE DEF q, calm, code
  <2>7. cmCall' \in CmWrites /\ cmCall'.pc = "duty" /\ cmCall'.pattern = q /\ cmCall'.i = 1
    BY <2>1, <2>2, <2>6 DEF CmWrites
  <2>8. /\ cmLast' \in [pattern : {<< >>, Coast} \cup CmSteps, drove : {<< >>} \cup CmSteps,
                       settled : BOOLEAN, calm : BOOLEAN]
        /\ cmLast'.pattern = cmLast.pattern /\ cmLast'.drove = cmLast.drove /\ cmLast'.calm = calm
    BY <2>3, <2>5 DEF CmIInv, CmTypes
  <2>9. CmTypes'
    BY <1>1, <1>3, <2>7, <2>8 DEF CmIInv, CmTypes
  <2>10. CmBootInv'
    BY <1>1, <1>3, CmUpKeeps
  <2>11. CmDutyInv'
    <3>1. \A j \in Phases : cmReg.shadow[j] > 0 => ~(j < 1) /\ Drove(j)
      BY <1>2 DEF CmRestInv, Phases
    <3>2. ASSUME calm, NEW j \in Phases, cmReg.cv[j] > 0
          PROVE  Drove(j)
      <4>1. cmLast.drove # << >>
        BY <1>2, <3>2 DEF CmRestInv
      <4>2. cmReg.cv = cmReg.shadow
        BY <1>2, <2>4, <3>2, <4>1 DEF CmRestInv
      <4> QED BY <3>1, <3>2, <4>2
    <3> QED BY <1>3, <2>4, <2>7, <2>8, <3>1, <3>2 DEF CmDutyInv, Drove
  <2>12. CmBridgeInv'
    BY <1>3, <2>7, <2>8, <2>11 DEF CmIInv, CmBridgeInv
  <2>13. CmHallInv'
    BY <2>7 DEF CmHallInv
  <2> QED BY <2>9, <2>10, <2>12, <2>13 DEF CmIInv
<1>4. ASSUME cmCall' = CmNoCall, UNCHANGED <<cmReg, cmLast>>
      PROVE  CmIInv'
  <2>1. cmCall'.pc = "loop"
    BY <1>4 DEF CmNoCall
  <2>2. CmTypes'
    BY <1>1, <1>4 DEF CmIInv, CmTypes
  <2>3. CmBootInv'
    BY <1>1, <1>4, CmUpKeeps
  <2>4. CmBridgeInv'
    BY <1>2, <1>4, <2>1 DEF CmIInv, CmBridgeInv, CmRestInv, Drove
  <2>5. CmHallInv'
    BY <2>1 DEF CmHallInv
  <2> QED BY <2>2, <2>3, <2>4, <2>5 DEF CmIInv
<1>5. ASSUME cmReg' = [cmReg EXCEPT !.en = Enables(Coast)],
             cmLast' = [cmLast EXCEPT !.pattern = Coast, !.settled = FALSE],
             cmCall' = CmNoCall
      PROVE  CmIInv'
  <2>1. cmCall'.pc = "loop"
    BY <1>5 DEF CmNoCall
  <2>2. Enables(Coast) \in CmFlags /\ \A i \in Phases : ~Enables(Coast)[i]
    <3>1. \A i \in Phases : Coast[i] = "Float"
      BY DEF Coast, Phases
    <3> QED BY <3>1 DEF Enables, CmFlags
  <2>3. cmReg' \in CmRegs /\ cmReg'.en = Enables(Coast) /\ cmReg'.shadow = cmReg.shadow /\ cmReg'.cv = cmReg.cv
    BY <1>2, <1>5, <2>2 DEF CmRegs
  <2>4. /\ cmLast' \in [pattern : {<< >>, Coast} \cup CmSteps, drove : {<< >>} \cup CmSteps,
                       settled : BOOLEAN, calm : BOOLEAN]
        /\ cmLast'.pattern = Coast /\ cmLast'.drove = cmLast.drove /\ cmLast'.calm = cmLast.calm
        /\ ~cmLast'.settled
    BY <1>5 DEF CmIInv, CmTypes
  <2>5. CmTypes'
    BY <1>1, <1>5, <2>3, <2>4 DEF CmIInv, CmTypes
  <2>6. CmBootInv'
    BY <1>1, <1>2, <1>5, CmUpKeeps DEF CmRegs
  <2>7. CmRestInv'
    BY <1>2, <2>2, <2>3, <2>4 DEF CmRestInv, Drove
  <2>8. CmBridgeInv'
    BY <2>1, <2>2, <2>3, <2>4, <2>7, CmStepKinds DEF CmBridgeInv, Coast
  <2>9. CmHallInv'
    BY <2>1 DEF CmHallInv
  <2> QED BY <2>5, <2>6, <2>8, <2>9 DEF CmIInv
<1> QED BY <1>3, <1>4, <1>5 DEF ApplyStart

\* A compare is shadowed: writing it leaves the running one alone.
LEMMA CmWriteDuty ==
  ASSUME CmIInv, WriteDuty
  PROVE  CmIInv'
<1> DEFINE n == cmCall.i
           d == DutyOf(cmCall.pattern, n, cmCall.duty)
<1>1. /\ cmBoot = Up /\ cmCall.pc = "duty" /\ n <= 3
      /\ cmCall' = [cmCall EXCEPT !.i = n + 1]
      /\ cmReg' = [cmReg EXCEPT !.shadow[n] = d, !.cv[n] = IF cmReg.preload[n] THEN @ ELSE d]
      /\ UNCHANGED <<cmBoot, cmStep, cmRotor, cmLast>>
  BY DEF WriteDuty, At3
<1>2. cmCall \in CmWrites /\ cmReg \in CmRegs
  BY <1>1 DEF CmIInv, CmTypes, CmNoCall, CmReads
<1>3. n \in Phases /\ d \in 0..CmPeriod /\ (d > 0 => cmCall.pattern[n] = "Pwm")
  BY <1>1, <1>2, CmAssumption DEF CmWrites, Phases, DutyOf
<1>4. cmReg.preload[n]
  <2>1. CmBooted(cmReg, 23)
    BY <1>1, CmRanks DEF CmIInv, CmBootInv
  <2> QED BY <1>3, <2>1 DEF CmBooted, Phases
<1>5. cmCall' \in CmWrites /\ cmCall'.pc = "duty" /\ cmCall'.i = n + 1 /\ cmCall'.pattern = cmCall.pattern
  BY <1>1, <1>2, <1>3 DEF CmWrites, Phases
<1> HIDE DEF n, d
<1>6. cmReg.shadow \in CmLevels /\ cmReg.cv \in CmLevels
  BY <1>2 DEF CmRegs
<1>7. /\ cmReg' = [cmReg EXCEPT !.shadow = [cmReg.shadow EXCEPT ![n] = d]]
  <2>1. [cmReg.cv EXCEPT ![n] = cmReg.cv[n]] = cmReg.cv
    BY <1>3, <1>6 DEF CmLevels
  <2>2. cmReg' = [cmReg EXCEPT !.shadow = [cmReg.shadow EXCEPT ![n] = d],
                               !.cv = [cmReg.cv EXCEPT ![n] = cmReg.cv[n]]]
    BY <1>1, <1>4
  <2> QED BY <1>2, <2>1, <2>2 DEF CmRegs
<1>8. [cmReg.shadow EXCEPT ![n] = d] \in CmLevels
  BY <1>3, <1>6 DEF CmLevels
<1>9. cmReg' \in CmRegs /\ cmReg'.cv = cmReg.cv /\ cmReg'.en = cmReg.en
      /\ cmReg'.shadow = [cmReg.shadow EXCEPT ![n] = d]
  BY <1>2, <1>7, <1>8 DEF CmRegs
<1>10. CmTypes'
  BY <1>1, <1>5, <1>9 DEF CmIInv, CmTypes
<1>11. CmBootInv'
  BY <1>1, <1>2, <1>7, CmUpKeeps DEF CmRegs
<1>12. CmDutyInv'
  <2>1. CmDutyInv
    BY <1>1 DEF CmIInv, CmBridgeInv
  <2>2. ASSUME NEW j \in Phases, cmReg'.shadow[j] > 0
        PROVE  IF j < n + 1 THEN cmCall.pattern[j] = "Pwm" ELSE Drove(j)
    <3>1. CASE j = n
      BY <1>3, <1>6, <1>9, <2>2, <3>1 DEF CmLevels, Phases
    <3>2. CASE j # n
      <4>1. cmReg.shadow[j] > 0
        BY <1>6, <1>9, <2>2, <3>2 DEF CmLevels
      <4>2. IF j < n THEN cmCall.pattern[j] = "Pwm" ELSE Drove(j)
        BY <2>1, <4>1 DEF CmDutyInv, n
      <4>3. j < n + 1 <=> j < n
        BY <1>3, <3>2 DEF Phases
      <4> QED BY <4>2, <4>3
    <3> QED BY <3>1, <3>2
  <2> QED BY <1>1, <1>5, <1>9, <2>1, <2>2 DEF CmDutyInv, Drove
<1>13. CmBridgeInv'
  BY <1>1, <1>5, <1>9, <1>12 DEF CmIInv, CmBridgeInv
<1>14. CmHallInv'
  BY <1>5 DEF CmHallInv
<1> QED BY <1>10, <1>11, <1>13, <1>14 DEF CmIInv

\* The outputs are switched while the old compares still run: neighbouring
\* steps never disagree about a sourcing phase.
LEMMA CmWriteOutputs ==
  ASSUME CmIInv, WriteOutputs
  PROVE  CmIInv'
<1> DEFINE q == cmCall.pattern
<1>1. /\ cmBoot = Up /\ cmCall.pc = "duty" /\ cmCall.i = 4
      /\ cmReg' = [cmReg EXCEPT !.en = Enables(q)]
      /\ cmLast' = [cmLast EXCEPT !.pattern = q, !.drove = q, !.settled = FALSE]
      /\ cmCall' = CmNoCall
      /\ UNCHANGED <<cmBoot, cmStep, cmRotor>>
  BY DEF WriteOutputs, At3
<1>2. cmCall \in CmWrites /\ cmReg \in CmRegs
  BY <1>1 DEF CmIInv, CmTypes, CmNoCall, CmReads
<1>3. q \in CmSteps
  BY <1>2 DEF CmWrites
<1>4. CmDutyInv
  BY <1>1 DEF CmIInv, CmBridgeInv
<1>5. Enables(q) \in CmFlags /\ \A i \in Phases : Enables(q)[i] <=> q[i] # "Float"
  BY DEF Enables, CmFlags
<1> HIDE DEF q
<1>6. cmReg' \in CmRegs /\ cmReg'.en = Enables(q) /\ cmReg'.shadow = cmReg.shadow /\ cmReg'.cv = cmReg.cv
  BY <1>1, <1>2, <1>5 DEF CmRegs
<1>7. /\ cmLast' \in [pattern : {<< >>, Coast} \cup CmSteps, drove : {<< >>} \cup CmSteps,
                     settled : BOOLEAN, calm : BOOLEAN]
      /\ cmLast'.pattern = q /\ cmLast'.drove = q /\ cmLast'.calm = cmLast.calm /\ ~cmLast'.settled
  BY <1>1, <1>3 DEF CmIInv, CmTypes
<1>8. cmCall'.pc = "loop" /\ q # << >> /\ q # Coast
  BY <1>1, <1>3, CmStepKinds DEF CmNoCall
<1>9. CmTypes'
  BY <1>1, <1>6, <1>7 DEF CmIInv, CmTypes
<1>10. CmBootInv'
  BY <1>1, <1>2, CmUpKeeps DEF CmRegs
<1>11. CmRestInv'
  <2>1. \A j \in Phases : cmReg.shadow[j] > 0 => q[j] = "Pwm"
    BY <1>1, <1>4 DEF CmDutyInv, Phases, q
  <2>2. ASSUME cmLast.calm, NEW j \in Phases, cmReg.cv[j] > 0, q[j] # "Float"
        PROVE  q[j] = "Pwm"
    <3>1. q[j] = "Pwm" \/ Drove(j)
      BY <1>4, <2>2 DEF CmDutyInv, q
    <3>2. ASSUME Drove(j)
          PROVE  q[j] = "Pwm"
      <4>1. cmLast.drove \in CmSteps /\ cmLast.drove[j] = "Pwm"
        BY <3>2 DEF Drove, CmIInv, CmTypes
      <4>2. Neighbours(cmLast.drove, q)
        BY <1>4, <2>2 DEF CmDutyInv, q
      <4> QED BY <1>3, <2>2, <4>1, <4>2, CmNeighbours
    <3> QED BY <3>1, <3>2
  <2> QED BY <1>5, <1>6, <1>7, <1>8, <2>1, <2>2 DEF CmRestInv, Drove
<1>12. CmBridgeInv'
  BY <1>5, <1>6, <1>7, <1>8, <1>11 DEF CmBridgeInv
<1>13. CmHallInv'
  BY <1>8 DEF CmHallInv
<1> QED BY <1>9, <1>10, <1>12, <1>13 DEF CmIInv
---------------------------------------------------------------------------
\* The invariant holds before bring-up.
LEMMA CmInitIInv == CmInit => CmIInv
<1> SUFFICES ASSUME CmInit PROVE CmIInv
  OBVIOUS
<1>1. /\ cmReg.shadow = [i \in Phases |-> 0] /\ cmReg.cv = [i \in Phases |-> 0]
      /\ cmBoot = <<"clock", 0>> /\ cmCall = CmNoCall /\ cmLast = NoStep
      /\ ~cmReg.moe /\ ~cmReg.cen
  BY DEF CmInit
<1>2. cmReg \in CmRegs
  <2>1. [i \in Phases |-> FALSE] \in CmFlags /\ [i \in Phases |-> 0] \in CmLevels
    BY CmAssumption DEF CmFlags, CmLevels
  <2> HIDE DEF CmFlags, CmLevels
  <2> QED BY <2>1 DEF CmInit, CmRegs
<1>3. cmRotor \in [sector : 0..5, ok : BOOLEAN, moved : 0..CmMoves]
  BY CmAssumption DEF CmInit
<1>4. cmStep \in [direction : {"Forward", "Reverse"}, offset : 0..5]
  <2>1. {o % 6 : o \in CmOffsets} \subseteq 0..5
    BY CmAssumption
  <2>2. cmStep \in [direction : CmDirections, offset : {o % 6 : o \in CmOffsets}]
    BY DEF CmInit
  <2> QED BY <2>1, <2>2, CmAssumption
<1>5. cmLast \in [pattern : {<< >>, Coast} \cup CmSteps, drove : {<< >>} \cup CmSteps,
                 settled : BOOLEAN, calm : BOOLEAN]
  BY <1>1 DEF NoStep
<1>6. CmTypes
  BY <1>1, <1>2, <1>3, <1>4, <1>5 DEF CmTypes
<1>7. CmBootInv
  <2>1. cmBoot # Up
    BY <1>1 DEF Up
  <2>2. CmBooted(cmReg, 0)
    BY DEF CmBooted, Phases
  <2> QED BY <1>1, <2>1, <2>2, CmRanks DEF CmBootInv
<1>8. cmCall.pc = "loop" /\ cmLast.drove = << >> /\ cmLast.pattern = << >> /\ ~cmLast.settled
  BY <1>1 DEF CmNoCall, NoStep
<1>9. CmBridgeInv
  <2>1. \A i \in Phases : ~(cmReg.shadow[i] > 0) /\ ~(cmReg.cv[i] > 0) /\ cmReg.cv[i] = 0
    BY <1>1
  <2> QED BY <1>8, <2>1, CmStepKinds DEF CmBridgeInv, CmRestInv, Coast
<1>10. CmHallInv
  BY <1>8 DEF CmHallInv
<1> QED BY <1>6, <1>7, <1>9, <1>10 DEF CmIInv

\* Every step keeps the invariant.
LEMMA CmNextIInv == CmIInv /\ [CmNext]_cmVars => CmIInv'
<1> SUFFICES ASSUME CmIInv, [CmNext]_cmVars PROVE CmIInv'
  OBVIOUS
<1>1. CASE BringUp
  BY <1>1, CmBringUp
<1>2. CASE Arm \/ Disarm \/ SetOffset
  BY <1>2, CmApplication
<1>3. CASE Turn
  BY <1>3, CmTurn
<1>4. CASE Update
  BY <1>4, CmUpdate
<1>5. CASE StartRead
  BY <1>5, CmStartRead
<1>6. CASE ReadLine
  BY <1>6, CmReadLine
<1>7. CASE ApplyStart
  BY <1>7, CmApplyStart
<1>8. CASE WriteDuty
  BY <1>8, CmWriteDuty
<1>9. CASE WriteOutputs
  BY <1>9, CmWriteOutputs
<1>10. CASE UNCHANGED cmVars
  BY <1>10 DEF cmVars, CmIInv, CmTypes, CmBootInv, CmBridgeInv, CmRestInv, CmDutyInv, Drove, CmHallInv
<1> QED BY <1>1, <1>2, <1>3, <1>4, <1>5, <1>6, <1>7, <1>8, <1>9, <1>10 DEF CmNext, Loop

\* The bridge is armed only when it is fully configured and at rest.
LEMMA CmIInvEnergised == CmIInv => EnergisedWhenSafe
<1> SUFFICES ASSUME CmIInv, cmReg.moe
             PROVE  /\ cmReg.dead = 25 /\ cmReg.car = CmPeriod
                    /\ cmReg.cen /\ cmReg.arse /\ cmReg.routed = 1..6
                    /\ \A i \in Phases : /\ cmReg.polarity[i] /\ cmReg.idle[i] /\ cmReg.pwm0[i]
                                         /\ cmReg.preload[i] /\ cmReg.cv[i] <= cmReg.car
  BY DEF EnergisedWhenSafe, pwm_config
<1>1. CmBooted(cmReg, 23)
  BY CmRanks DEF CmIInv, CmBootInv
<1>2. cmReg \in CmRegs
  BY DEF CmIInv, CmTypes
<1>3. \A g \in 1..6 : g \in cmReg.routed
  BY <1>1 DEF CmBooted
<1>4. \A i \in Phases : cmReg.cv[i] <= CmPeriod
  BY <1>2, CmAssumption DEF CmRegs, CmLevels
<1>5. \A i \in Phases : cmReg.polarity[i] /\ cmReg.idle[i] /\ cmReg.pwm0[i] /\ cmReg.preload[i]
  BY <1>1 DEF CmBooted, Phases
<1> QED BY <1>1, <1>2, <1>3, <1>4, <1>5 DEF CmBooted, CmRegs

\* No two phases source at once, over a change of step too.
LEMMA CmIInvOneSource == CmIInv => OneSource
<1> SUFFICES ASSUME CmIInv, cmLast.calm
             PROVE  Cardinality({i \in Phases : Drive(i) = "Pwm"}) <= 1
  BY DEF OneSource
<1>1. \A i \in Phases : Drive(i) = "Pwm" => cmReg.en[i] /\ cmReg.cv[i] > 0
  BY DEF Drive
<1>2. \E p \in Phases : \A i \in Phases : cmReg.en[i] /\ cmReg.cv[i] > 0 => i = p
  <2>1. CASE cmCall.pc # "duty"
    <3>1. \A i \in Phases : cmReg.en[i] /\ cmReg.cv[i] > 0 => Drove(i)
      BY <2>1 DEF CmIInv, CmBridgeInv, CmRestInv
    <3>2. CASE cmLast.drove = << >>
      BY <3>1, <3>2 DEF Drove, Phases
    <3>3. CASE cmLast.drove # << >>
      <4>1. cmLast.drove \in CmSteps
        BY <3>3 DEF CmIInv, CmTypes
      <4> QED BY <3>1, <4>1, CmOnePwm DEF Drove
    <3> QED BY <3>2, <3>3
  <2>2. CASE cmCall.pc = "duty"
    <3>1. cmCall.pattern \in CmSteps
      BY <2>2 DEF CmIInv, CmTypes, CmNoCall, CmReads, CmWrites
    <3>2. /\ Neighbours(cmLast.drove, cmCall.pattern)
          /\ \A j \in Phases : cmReg.cv[j] > 0 => cmCall.pattern[j] = "Pwm" \/ Drove(j)
      BY <2>2 DEF CmIInv, CmBridgeInv, CmDutyInv
    <3>3. CASE cmLast.drove = << >>
      <4>1. \A j \in Phases : cmReg.cv[j] > 0 => cmCall.pattern[j] = "Pwm"
        BY <3>2, <3>3 DEF Drove
      <4> QED BY <3>1, <4>1, CmOnePwm
    <3>4. CASE cmLast.drove # << >> /\ cmLast.pattern = Coast
      BY <3>4 DEF CmIInv, CmBridgeInv, Phases
    <3>5. CASE cmLast.drove # << >> /\ cmLast.pattern # Coast
      <4>1. /\ cmLast.drove \in CmSteps
            /\ \A i \in Phases : cmReg.en[i] <=> cmLast.drove[i] # "Float"
        BY <3>5 DEF CmIInv, CmTypes, CmBridgeInv
      <4>2. \A i \in Phases : cmReg.en[i] /\ cmReg.cv[i] > 0 => cmLast.drove[i] = "Pwm"
        BY <3>1, <3>2, <4>1, CmNeighbours DEF Drove
      <4> QED BY <4>1, <4>2, CmOnePwm
    <3> QED BY <3>3, <3>4, <3>5
  <2> QED BY <2>1, <2>2
<1>3. PICK p \in Phases : {i \in Phases : Drive(i) = "Pwm"} \subseteq {p}
  BY <1>1, <1>2
<1>4. IsFiniteSet({p}) /\ Cardinality({p}) = 1
  BY FS_Singleton
<1>5. /\ IsFiniteSet({i \in Phases : Drive(i) = "Pwm"})
      /\ Cardinality({i \in Phases : Drive(i) = "Pwm"}) <= 1
  BY <1>3, <1>4, FS_Subset
<1> QED BY <1>5

\* A step is in the registers as commanded, and a Hall fault lets the motor coast.
LEMMA CmIInvStep == CmIInv => StepTakesEffect /\ FaultCoasts
<1> SUFFICES ASSUME CmIInv PROVE StepTakesEffect /\ FaultCoasts
  OBVIOUS
<1>1. StepTakesEffect
  <2> SUFFICES ASSUME cmReg.moe, cmLast.settled, cmCall.pc = "loop", cmLast.pattern \notin {<< >>, Coast},
                      NEW i \in Phases, cmLast.pattern[i] # "Pwm"
               PROVE  Drive(i) = cmLast.pattern[i]
    BY DEF StepTakesEffect
  <2>1. cmLast.pattern \in CmSteps
    BY DEF CmIInv, CmTypes
  <2>2. cmLast.pattern = cmLast.drove /\ (cmReg.en[i] <=> cmLast.pattern[i] # "Float")
    BY <2>1 DEF CmIInv, CmBridgeInv
  <2>3. cmReg.cv = cmReg.shadow /\ (cmReg.shadow[i] > 0 => Drove(i))
    BY DEF CmIInv, CmBridgeInv, CmRestInv
  <2>4. cmLast.pattern[i] \in {"Sink", "Float"}
    BY <2>1, CmStepKinds
  <2>5. ~(cmReg.cv[i] > 0)
    BY <2>2, <2>3 DEF Drove
  <2> QED BY <2>2, <2>4, <2>5 DEF Drive
<1>2. FaultCoasts
  BY DEF CmIInv, CmBridgeInv, FaultCoasts, Drive
<1> QED BY <1>1, <1>2

\* A steady read of the lines yields a sector the rotor was in.
LEMMA CmIInvHonest == CmIInv => HallReadHonest
<1> SUFFICES ASSUME CmIInv, cmCall.pc = "read", cmCall.line = 4, cmCall.steady, cmRotor.ok,
                    cmRotor.moved <= 1
             PROVE  /\ Valid(CodeOf(cmCall.high))
                    /\ HallToSector[CodeOf(cmCall.high)] \in {cmCall.from, cmRotor.sector}
  BY DEF HallReadHonest, At3
<1>1. cmCall \in CmReads /\ cmRotor.sector \in 0..5
  BY DEF CmIInv, CmTypes, CmNoCall, CmWrites
<1>2. cmCall.high \in SUBSET Phases /\ cmCall.from \in 0..5
  BY <1>1 DEF CmReads
<1>3. cmRotor.sector \in {cmCall.from, (cmCall.from + 1) % 6, (cmCall.from + 5) % 6}
  BY DEF CmIInv, CmHallInv
<1>4. PICK k \in 1..4 : \A l \in Phases :
        l \in cmCall.high <=> /\ l < 4
                              /\ l \in HallLines(IF l < k THEN cmCall.from ELSE cmRotor.sector)
  BY DEF CmIInv, CmHallInv
<1>5. \A l \in Phases : (l < k => (l \in cmCall.high <=> l \in HallLines(cmCall.from)))
                       /\ (~(l < k) => (l \in cmCall.high <=> l \in HallLines(cmRotor.sector)))
  BY <1>4 DEF Phases
<1>6. cmCall.high = HallLines(cmCall.from) \/ cmCall.high = HallLines(cmRotor.sector)
  <2> DEFINE a == cmCall.from
             b == cmRotor.sector
             h == cmCall.high
  <2>1. a \in 0..5 /\ b \in {a, (a + 1) % 6, (a + 5) % 6} /\ k \in 1..4 /\ h \in SUBSET Phases
    BY <1>2, <1>3, <1>4
  <2>2. \A l \in Phases : (l < k => (l \in h <=> l \in HallLines(a)))
                       /\ (~(l < k) => (l \in h <=> l \in HallLines(b)))
    BY <1>5
  <2> HIDE DEF a, b, h
  <2>3. h = HallLines(a) \/ h = HallLines(b)
    BY <2>1, <2>2, CmHallMixed
  <2> QED BY <2>3 DEF a, b, h
<1> QED BY <1>1, <1>2, <1>6, CmHallCodes

\* Types.
LEMMA CmIInvTypeOK == CmIInv => CmTypeOK
<1> SUFFICES ASSUME CmIInv PROVE CmTypeOK
  OBVIOUS
<1>1. cmReg.shadow \in CmLevels /\ cmReg.cv \in CmLevels /\ cmReg.en \in CmFlags /\ cmReg.moe \in BOOLEAN
  BY DEF CmIInv, CmTypes, CmRegs
<1>2. cmRotor.sector \in 0..5 /\ cmRotor.moved \in 0..CmMoves /\ cmStep.offset \in 0..5
  BY DEF CmIInv, CmTypes
<1> QED BY <1>1, <1>2 DEF CmTypeOK, CmLevels, CmFlags

\* For every PWM period and every run of the rotor: the commutation and its bring-up
\* keep CmSafe (commutation.rs, advanced_timer.rs, bringup.rs).
THEOREM CommutationSafety == CmSpec => []CmSafe
<1>1. CmIInv => CmSafe
  BY CmIInvTypeOK, CmIInvEnergised, CmIInvOneSource, CmIInvStep, CmIInvHonest DEF CmSafe
<1> QED BY <1>1, CmInitIInv, CmNextIInv, PTL DEF CmSpec

---------------------------------------------------------------------------
(* The converter (Adc).                                                   *)

\* A value of channel c that the call in progress has converted.
AcFresh(c) == [ch |-> c, fresh |-> TRUE]
\* At most one value, a call of the main loop and an activation of the handler.
AcOnes == {<<>>} \cup {<<v>> : v \in Value}
AcCalls ==
  [pc : {"idle", "trigger", "eoc", "read", "clear", "cleared", "rstclb", "rstclb?", "clb", "clb?", "adcon"},
   kind : {"none", "channel", "pair", "bring_up", "injected"}, ch : Channels, left : 0 .. AdcPolls,
   seen : SUBSET {"EOIC"}, res : {"none", "Ok", "Timeout"}, val : AcOnes]
AcIsrs == [pc : {"idle", "pending", "idata", "clear", "cleared", "trigger"},
           seen : SUBSET {"EOC"}, got : SUBSET Ranks]

\* The shapes of the state.
AcTypes ==
  /\ adcStat \in SUBSET {"EOC", "EOIC"} /\ rank0 \in Channels
  /\ scan \in BOOLEAN /\ eteic \in BOOLEAN /\ clean \in BOOLEAN
  /\ calib \in {{}, {"RSTCLB"}, {"CLB"}}
  /\ conv \in AcOnes /\ rdata \in Value /\ idata \in [Ranks -> BOOLEAN]
  /\ acall \in AcCalls /\ aisr \in AcIsrs

\* The main loop's call.
AcCall ==
  /\ acall.pc \in {"trigger", "eoc", "read"} => acall.kind \in {"channel", "pair"} /\ acall.val = <<>>
  /\ acall.pc \in {"rstclb", "rstclb?", "clb", "clb?", "adcon"} =>
       acall.kind \in {"bring_up", "injected"} /\ acall.val = <<>>

\* Where the only conversion is while nothing but the call has started one.
AcClean ==
  clean =>
    /\ acall.pc = "trigger" => conv = <<>> /\ "EOC" \notin adcStat /\ rank0 = acall.ch
    /\ acall.pc = "eoc" => \/ conv = <<AcFresh(acall.ch)>> /\ "EOC" \notin adcStat
                           \/ conv = <<>> /\ rdata = AcFresh(acall.ch)
    /\ acall.pc = "read" => conv = <<>> /\ rdata = AcFresh(acall.ch)
    /\ acall.pc \in {"clear", "cleared"} => conv = <<>> /\ acall.val = <<AcFresh(acall.ch)>>
    /\ acall.pc = "idle" /\ acall.val # <<>> => acall.val = <<AcFresh(acall.ch)>>
    /\ acall.pc = "idle" /\ acall.kind = "channel" /\ acall.res = "Ok" => conv = <<>> /\ "EOC" \notin adcStat

\* The injected group: the sequence is complete until the handler reads it.
AcInjected ==
  /\ eteic /\ ~scan => Ranks = {0}
  /\ aisr.pc \in {"pending", "idata"} => \A r \in Ranks : idata[r]
  /\ aisr.pc = "clear" => aisr.got = Ranks
  /\ aisr.pc = "trigger" => "EOIC" \notin adcStat

AcIInv == AcTypes /\ AcCall /\ AcClean /\ AcInjected
---------------------------------------------------------------------------
\* A sequence of one rank is rank 0, and needs no scan mode.
LEMMA AcOneRank == Cardinality(Ranks) > 1 \/ Ranks = {0}
<1>1. IsFiniteSet(Ranks) /\ {0} \subseteq Ranks
  BY AdcAssumption
<1>2. IsFiniteSet({0}) /\ Cardinality({0}) = 1
  BY FS_Singleton
<1>3. Cardinality({0}) <= Cardinality(Ranks) /\ (Cardinality({0}) = Cardinality(Ranks) => {0} = Ranks)
  BY <1>1, FS_Subset
<1>4. Cardinality(Ranks) \in Nat
  BY <1>1, FS_CardinalityType
<1> QED BY <1>2, <1>3, <1>4

\* The main loop with no call.
LEMMA AcNoCallTyped ==
  /\ AdcNoCall \in AcCalls /\ AdcNoCall.pc = "idle" /\ AdcNoCall.kind = "none" /\ AdcNoCall.val = <<>>
  /\ AdcNoCall.res = "none" /\ AdcNoCall.seen = {} /\ AdcNoCall.left = 0
<1>1. (CHOOSE c \in Channels : TRUE) \in Channels /\ 0 \in 0 .. AdcPolls
  BY AdcAssumption
<1> QED BY <1>1 DEF AdcNoCall, AcCalls, AcOnes

\* The handler that is not running.
LEMMA AcIsrTyped == NoIsr \in AcIsrs /\ NoIsr.pc = "idle"
BY DEF NoIsr, AcIsrs

\* A value that has gone stale is still a value.
LEMMA AcStale ==
  ASSUME AcTypes
  PROVE  /\ Stale(rdata) \in Value
         /\ [i \in DOMAIN conv |-> Stale(conv[i])] \in AcOnes
         /\ conv = <<>> => [i \in DOMAIN conv |-> Stale(conv[i])] = <<>>
<1>1. \A v \in Value : Stale(v) \in Value
  BY DEF Stale, Value
<1>2. rdata \in Value
  BY DEF AcTypes
<1>3. CASE conv = <<>>
  <2>1. [i \in DOMAIN conv |-> Stale(conv[i])] = <<>>
    BY <1>3
  <2> QED BY <1>1, <1>2, <2>1 DEF AcOnes
<1>4. ASSUME NEW v \in Value, conv = <<v>>
      PROVE  [i \in DOMAIN conv |-> Stale(conv[i])] = <<Stale(v)>>
  BY <1>4
<1>5. ASSUME NEW v \in Value, conv = <<v>>
      PROVE  [i \in DOMAIN conv |-> Stale(conv[i])] \in AcOnes /\ conv # <<>>
  BY <1>1, <1>4, <1>5 DEF AcOnes
<1>6. conv = <<>> \/ \E v \in Value : conv = <<v>>
  BY DEF AcTypes, AcOnes
<1> QED BY <1>1, <1>2, <1>3, <1>5, <1>6

\* A start request is granted when no conversion runs.
LEMMA AcStart ==
  ASSUME AcTypes, NEW b \in BOOLEAN, StartRegular(b)
  PROVE  /\ conv' \in AcOnes
         /\ conv = <<>> => conv' = <<[ch |-> rank0, fresh |-> b]>>
<1>1. [ch |-> rank0, fresh |-> b] \in Value
  BY DEF AcTypes, Value
<1> QED BY <1>1 DEF AcTypes, StartRegular, AcOnes

\* The end of a regular conversion keeps the invariant.
LEMMA AcConvEnd ==
  ASSUME AcIInv, ConvEnd
  PROVE  AcIInv'
<1>1. /\ conv # <<>> /\ conv' = <<>> /\ rdata' = conv[1] /\ adcStat' = adcStat \cup {"EOC"}
      /\ UNCHANGED <<rank0, scan, eteic, calib, idata, acall, aisr, clean>>
  BY DEF ConvEnd
<1>2. PICK v \in Value : conv = <<v>>
  BY <1>1 DEF AcIInv, AcTypes, AcOnes
<1>3. rdata' = v
  BY <1>1, <1>2
<1>4. AcTypes'
  BY <1>1, <1>3 DEF AcIInv, AcTypes, AcOnes
<1>5. AcCall'
  BY <1>1 DEF AcIInv, AcCall
<1>6. AcClean'
  <2> SUFFICES ASSUME clean PROVE AcClean'
    BY <1>1 DEF AcClean
  <2>1. acall.pc = "eoc" => v = AcFresh(acall.ch)
    BY <1>1, <1>2 DEF AcIInv, AcClean
  <2> QED BY <1>1, <1>3, <2>1 DEF AcIInv, AcClean
<1>7. AcInjected'
  BY <1>1 DEF AcIInv, AcInjected
<1> QED BY <1>4, <1>5, <1>6, <1>7 DEF AcIInv

\* The timer's trigger and the sequence it starts keep the invariant.
LEMMA AcInjectedEnd ==
  ASSUME AcIInv, InjectedEnd
  PROVE  AcIInv'
<1>1. /\ eteic /\ aisr.pc = "idle"
      /\ idata' = [r \in Ranks |-> r = 0 \/ scan \/ idata[r]]
      /\ adcStat' = adcStat \cup {"EOIC"} /\ aisr' = [NoIsr EXCEPT !.pc = "pending"]
      /\ UNCHANGED <<rank0, scan, eteic, calib, conv, rdata, acall, clean>>
  BY DEF InjectedEnd
<1>2. aisr' \in AcIsrs /\ aisr'.pc = "pending"
  BY <1>1, AcIsrTyped DEF AcIsrs
<1>3. idata' \in [Ranks -> BOOLEAN] /\ \A r \in Ranks : idata'[r]
  <2>1. \A r \in Ranks : r = 0 \/ scan
    BY <1>1 DEF AcIInv, AcInjected
  <2>2. \A r \in Ranks : (r = 0 \/ scan \/ idata[r]) \in BOOLEAN
    OBVIOUS
  <2>3. idata' \in [Ranks -> BOOLEAN]
    BY <1>1, <2>2
  <2>4. \A r \in Ranks : idata'[r]
    BY <1>1, <2>1
  <2> QED BY <2>3, <2>4
<1>4. AcTypes'
  BY <1>1, <1>2, <1>3 DEF AcIInv, AcTypes
<1>5. AcCall'
  BY <1>1 DEF AcIInv, AcCall
<1>6. AcClean'
  BY <1>1 DEF AcIInv, AcClean
<1>7. AcInjected'
  BY <1>1, <1>2, <1>3 DEF AcIInv, AcInjected
<1> QED BY <1>4, <1>5, <1>6, <1>7 DEF AcIInv

\* The calibration's starts and ends keep the invariant.
LEMMA AcCalibration ==
  ASSUME AcIInv, CalibEnd \/ Calibrate
  PROVE  AcIInv'
<1>1. /\ calib' \in {{}, {"RSTCLB"}, {"CLB"}}
      /\ UNCHANGED <<adcStat, rank0, scan, eteic, conv, rdata, idata, aisr, clean>>
  BY DEF CalibEnd, Calibrate
<1>2. \/ acall' = acall
      \/ /\ acall.pc \in {"rstclb", "clb"}
         /\ \E p \in {"rstclb?", "clb?"} : acall' = [acall EXCEPT !.pc = p, !.left = AdcPolls]
  BY DEF CalibEnd, Calibrate, Poll, AdcMainAt
<1>2a. acall \in AcCalls /\ AdcPolls \in 0 .. AdcPolls
  BY AdcAssumption DEF AcIInv, AcTypes
<1>3. /\ acall' \in AcCalls /\ acall'.kind = acall.kind /\ acall'.val = acall.val /\ acall'.ch = acall.ch
      /\ \/ acall' = acall
         \/ /\ acall.pc \in {"rstclb", "clb"}
            /\ acall'.pc \in {"rstclb?", "clb?"}
  <2>1. CASE acall' = acall
    BY <2>1, <1>2a
  <2>2. CASE acall' # acall
    <3>1. PICK p \in {"rstclb?", "clb?"} : acall' = [acall EXCEPT !.pc = p, !.left = AdcPolls]
      BY <1>2, <2>2
    <3>2. acall' \in AcCalls
      BY <3>1, <1>2a DEF AcCalls
    <3>3. acall'.kind = acall.kind /\ acall'.val = acall.val /\ acall'.ch = acall.ch /\ acall'.pc = p
      BY <3>1, <1>2a DEF AcCalls
    <3> QED BY <1>2, <2>2, <3>1, <3>2, <3>3
  <2> QED BY <2>1, <2>2
<1>4. AcTypes'
  BY <1>1, <1>3 DEF AcIInv, AcTypes
<1>5. AcCall'
  BY <1>3 DEF AcIInv, AcCall
<1>6. AcClean'
  BY <1>1, <1>3 DEF AcIInv, AcClean
<1>7. AcInjected'
  BY <1>1 DEF AcIInv, AcInjected
<1> QED BY <1>4, <1>5, <1>6, <1>7 DEF AcIInv

\* The beginning of a regular read keeps the invariant.
LEMMA AcBegins ==
  ASSUME AcIInv, (\E c \in Channels : ReadChannel(c)) \/ ReadSimultaneous
  PROVE  AcIInv'
<1>1. PICK c \in Channels, k \in {"channel", "pair"} :
        /\ acall' = [AdcNoCall EXCEPT !.pc = "trigger", !.kind = k, !.ch = c] /\ rank0' = c
  <2>1. rank0 \in Channels
    BY DEF AcIInv, AcTypes
  <2> QED BY <2>1 DEF ReadChannel, ReadSimultaneous
<1>2. /\ rdata' = Stale(rdata) /\ conv' = [i \in DOMAIN conv |-> Stale(conv[i])]
      /\ clean' = (conv = <<>> /\ "EOC" \notin adcStat)
      /\ UNCHANGED <<adcStat, scan, eteic, calib, idata, aisr>>
  BY DEF ReadChannel, ReadSimultaneous
<1>3. /\ acall' \in AcCalls /\ acall'.pc = "trigger" /\ acall'.kind = k /\ acall'.ch = c /\ acall'.val = <<>>
  BY <1>1, AcNoCallTyped DEF AcCalls
<1>4. /\ rdata' \in Value /\ conv' \in AcOnes /\ (conv = <<>> => conv' = <<>>)
  BY <1>2, AcStale DEF AcIInv
<1>5. AcTypes'
  BY <1>1, <1>2, <1>3, <1>4 DEF AcIInv, AcTypes
<1>6. AcCall'
  BY <1>3 DEF AcCall
<1>7. AcClean'
  BY <1>1, <1>2, <1>3, <1>4 DEF AcClean
<1>8. AcInjected'
  BY <1>2 DEF AcIInv, AcInjected
<1> QED BY <1>5, <1>6, <1>7, <1>8 DEF AcIInv

\* The software trigger keeps the invariant.
LEMMA AcTrigger ==
  ASSUME AcIInv, SoftwareTrigger
  PROVE  AcIInv'
<1>1. /\ acall.pc = "trigger" /\ acall' = [acall EXCEPT !.pc = "eoc", !.left = AdcPolls] /\ StartRegular(TRUE)
      /\ UNCHANGED <<adcStat, rank0, scan, eteic, calib, rdata, idata, aisr, clean>>
  BY DEF SoftwareTrigger, AdcMainAt, Poll
<1>1a. acall \in AcCalls /\ AdcPolls \in 0 .. AdcPolls
  BY AdcAssumption DEF AcIInv, AcTypes
<1>2. /\ acall' \in AcCalls /\ acall'.pc = "eoc" /\ acall'.kind = acall.kind
      /\ acall'.ch = acall.ch /\ acall'.val = acall.val
  BY <1>1, <1>1a DEF AcCalls
<1>3. conv' \in AcOnes /\ (conv = <<>> => conv' = <<AcFresh(rank0)>>)
  BY <1>1, AcStart DEF AcIInv, AcFresh
<1>4. AcTypes'
  BY <1>1, <1>2, <1>3 DEF AcIInv, AcTypes
<1>5. AcCall'
  BY <1>1, <1>2 DEF AcIInv, AcCall
<1>6. AcClean'
  BY <1>1, <1>2, <1>3 DEF AcIInv, AcClean
<1>7. AcInjected'
  BY <1>1 DEF AcIInv, AcInjected
<1> QED BY <1>4, <1>5, <1>6, <1>7 DEF AcIInv

\* What a call leaves behind when it returns.
LEMMA AcFinished ==
  ASSUME AcTypes, NEW r \in {"Ok", "Timeout"}, Finish(r)
  PROVE  /\ acall' \in AcCalls /\ acall'.pc = "idle" /\ acall'.kind = acall.kind /\ acall'.ch = acall.ch
         /\ acall'.val = acall.val /\ acall'.res = r
<1>1. acall \in AcCalls
  BY DEF AcTypes
<1> QED BY <1>1, AcNoCallTyped DEF Finish, AcCalls

\* A poll of EOC keeps the invariant.
LEMMA AcWaitEoc ==
  ASSUME AcIInv, WaitEoc
  PROVE  AcIInv'
<1>1. /\ acall.pc = "eoc"
      /\ UNCHANGED <<adcStat, rank0, scan, eteic, calib, conv, rdata, idata, aisr, clean>>
  BY DEF WaitEoc, AdcMainAt
<1>2. acall \in AcCalls /\ AcTypes
  BY DEF AcIInv, AcTypes
<1>3. /\ acall' \in AcCalls /\ acall'.kind = acall.kind /\ acall'.ch = acall.ch /\ acall'.val = acall.val
      /\ \/ acall'.pc = "read" /\ "EOC" \in adcStat
         \/ acall'.pc = "eoc"
         \/ acall'.pc = "idle" /\ acall'.res = "Timeout"
  <2>1. CASE "EOC" \in adcStat
    BY <1>2, <2>1 DEF WaitEoc, Step, AcCalls
  <2>2. CASE "EOC" \notin adcStat /\ acall.left > 1
    <3>1. acall' = [acall EXCEPT !.left = acall.left - 1]
      BY <2>2 DEF WaitEoc
    <3>2. acall.left - 1 \in 0 .. AdcPolls
      BY <1>2, <2>2, AdcAssumption DEF AcCalls
    <3> QED BY <1>1, <1>2, <3>1, <3>2 DEF AcCalls
  <2>3. CASE "EOC" \notin adcStat /\ ~(acall.left > 1)
    <3>1. Finish("Timeout")
      BY <2>3 DEF WaitEoc
    <3> QED BY <1>2, <3>1, AcFinished
  <2> QED BY <2>1, <2>2, <2>3
<1>4. acall.kind \in {"channel", "pair"} /\ acall.val = <<>>
  BY <1>1 DEF AcIInv, AcCall
<1>5. AcTypes'
  BY <1>1, <1>3 DEF AcIInv, AcTypes
<1>6. AcCall'
  BY <1>3, <1>4 DEF AcCall
<1>7. AcClean'
  BY <1>1, <1>3, <1>4 DEF AcIInv, AcClean
<1>8. AcInjected'
  BY <1>1 DEF AcIInv, AcInjected
<1> QED BY <1>5, <1>6, <1>7, <1>8 DEF AcIInv

\* The read of RDATA keeps the invariant.
LEMMA AcReadData ==
  ASSUME AcIInv, ReadData
  PROVE  AcIInv'
<1>1. /\ acall.pc = "read" /\ aisr' = aisr
      /\ UNCHANGED <<rank0, scan, eteic, calib, conv, rdata, idata, aisr, clean>>
      /\ adcStat' \in SUBSET {"EOC", "EOIC"} /\ ("EOIC" \in adcStat' => "EOIC" \in adcStat)
  BY DEF ReadData, AdcMainAt, AcIInv, AcTypes
<1>2. acall \in AcCalls /\ rdata \in Value /\ <<rdata>> \in AcOnes
  BY DEF AcIInv, AcTypes, AcOnes
<1>3. acall.kind \in {"channel", "pair"}
  BY <1>1 DEF AcIInv, AcCall
<1>4. /\ acall' \in AcCalls /\ acall'.val = <<rdata>> /\ acall'.ch = acall.ch
      /\ \/ acall'.pc = "idle" /\ acall'.kind = "pair"
         \/ acall'.pc = "clear"
  <2>1. CASE acall.kind = "pair"
    <3>1. acall' = [AdcNoCall EXCEPT !.kind = "pair", !.ch = acall.ch, !.res = "Ok", !.val = <<rdata>>]
      BY <2>1 DEF ReadData
    <3>2. acall.ch \in Channels
      BY <1>2 DEF AcCalls
    <3> QED BY <1>2, <3>1, <3>2, AcNoCallTyped DEF AcCalls
  <2>2. CASE acall.kind # "pair"
    <3>1. acall' = [acall EXCEPT !.pc = "clear", !.val = <<rdata>>]
      BY <2>2 DEF ReadData
    <3> QED BY <1>2, <3>1 DEF AcCalls
  <2> QED BY <2>1, <2>2
<1>5. AcTypes'
  BY <1>1, <1>4 DEF AcIInv, AcTypes
<1>6. AcCall'
  BY <1>4 DEF AcCall
<1>7. AcClean'
  BY <1>1, <1>4 DEF AcIInv, AcClean
<1>8. AcInjected'
  BY <1>1 DEF AcIInv, AcInjected
<1> QED BY <1>5, <1>6, <1>7, <1>8 DEF AcIInv

\* clear_eoc's read of STAT keeps the invariant.
LEMMA AcClearRead ==
  ASSUME AcIInv, ClearEocRead
  PROVE  AcIInv'
<1>1. /\ acall.pc = "clear" /\ acall' = [acall EXCEPT !.pc = "cleared", !.seen = adcStat \ {"EOC"}]
      /\ UNCHANGED <<adcStat, rank0, scan, eteic, calib, conv, rdata, idata, aisr, clean>>
  BY DEF ClearEocRead, AdcMainAt
<1>2. acall \in AcCalls /\ adcStat \ {"EOC"} \in SUBSET {"EOIC"}
  BY DEF AcIInv, AcTypes
<1>3. /\ acall' \in AcCalls /\ acall'.pc = "cleared" /\ acall'.ch = acall.ch /\ acall'.val = acall.val
  BY <1>1, <1>2 DEF AcCalls
<1>4. AcTypes'
  BY <1>1, <1>3 DEF AcIInv, AcTypes
<1>5. AcCall'
  BY <1>3 DEF AcCall
<1>6. AcClean'
  BY <1>1, <1>3 DEF AcIInv, AcClean
<1>7. AcInjected'
  BY <1>1 DEF AcIInv, AcInjected
<1> QED BY <1>4, <1>5, <1>6, <1>7 DEF AcIInv

\* clear_eoc's write of STAT keeps the invariant.
LEMMA AcClearWrite ==
  ASSUME AcIInv, ClearEocWrite
  PROVE  AcIInv'
<1>1. /\ acall.pc = "cleared" /\ adcStat' = adcStat \cap acall.seen /\ Finish("Ok")
      /\ UNCHANGED <<rank0, scan, eteic, calib, conv, rdata, idata, aisr, clean>>
  BY DEF ClearEocWrite, AdcMainAt
<1>2. acall.seen \in SUBSET {"EOIC"} /\ AcTypes
  BY DEF AcIInv, AcTypes, AcCalls
<1>3. adcStat' \in SUBSET {"EOC", "EOIC"} /\ "EOC" \notin adcStat' /\ ("EOIC" \in adcStat' => "EOIC" \in adcStat)
  BY <1>1, <1>2 DEF AcTypes
<1>4. /\ acall' \in AcCalls /\ acall'.pc = "idle" /\ acall'.kind = acall.kind /\ acall'.ch = acall.ch
      /\ acall'.val = acall.val /\ acall'.res = "Ok"
  BY <1>1, <1>2, AcFinished
<1>5. AcTypes'
  BY <1>1, <1>3, <1>4 DEF AcIInv, AcTypes
<1>6. AcCall'
  BY <1>4 DEF AcCall
<1>7. AcClean'
  BY <1>1, <1>3, <1>4 DEF AcIInv, AcClean
<1>8. AcInjected'
  BY <1>1, <1>3 DEF AcIInv, AcInjected
<1> QED BY <1>5, <1>6, <1>7, <1>8 DEF AcIInv

\* The two bring-ups; a regular one comes before the injected one.

\* The regular and the injected bring-up keep the invariant.
LEMMA AcBringUp ==
  ASSUME AcIInv, ~LateBringUp, (\E c \in Channels : AdcBringUp(c)) \/ BringUpInjected
  PROVE  AcIInv'
<1>1. /\ ~eteic /\ UNCHANGED <<adcStat, calib, conv, rdata, idata, aisr, clean>>
      /\ scan' \in BOOLEAN /\ eteic' \in BOOLEAN /\ rank0' \in Channels
      /\ eteic' => (scan' <=> Cardinality(Ranks) > 1)
  <2>1. CASE \E c \in Channels : AdcBringUp(c)
    <3>1. /\ ~eteic /\ UNCHANGED <<adcStat, calib, conv, rdata, idata, aisr, clean>>
          /\ scan' = FALSE /\ eteic' = eteic /\ rank0' \in Channels
      BY <2>1 DEF AdcBringUp
    <3> QED BY <3>1 DEF AcIInv, AcTypes
  <2>2. CASE BringUpInjected
    <3>1. /\ ~eteic /\ UNCHANGED <<adcStat, calib, conv, rdata, idata, aisr, clean>>
          /\ scan' = (Cardinality(Ranks) > 1) /\ eteic' = TRUE /\ rank0' = rank0
      BY <2>2 DEF BringUpInjected
    <3>2. (Cardinality(Ranks) > 1) \in BOOLEAN
      OBVIOUS
    <3> QED BY <3>1, <3>2 DEF AcIInv, AcTypes
  <2> QED BY <2>1, <2>2
<1>2. PICK c \in Channels, k \in {"bring_up", "injected"} :
        acall' = [AdcNoCall EXCEPT !.pc = "rstclb", !.kind = k, !.ch = c]
  <2>1. CASE BringUpInjected
    <3>1. AdcNoCall.ch \in Channels /\ AdcNoCall \in AcCalls
      BY AcNoCallTyped DEF AcCalls
    <3>2. [AdcNoCall EXCEPT !.pc = "rstclb", !.kind = "injected", !.ch = AdcNoCall.ch]
            = [AdcNoCall EXCEPT !.pc = "rstclb", !.kind = "injected"]
      BY <3>1 DEF AcCalls
    <3> QED BY <2>1, <3>1, <3>2 DEF BringUpInjected
  <2> QED BY <2>1 DEF AdcBringUp
<1>3. /\ acall' \in AcCalls /\ acall'.pc = "rstclb" /\ acall'.kind = k /\ acall'.val = <<>>
  BY <1>2, AcNoCallTyped DEF AcCalls
<1>4. AcTypes'
  BY <1>1, <1>3 DEF AcIInv, AcTypes
<1>5. AcCall'
  BY <1>3 DEF AcCall
<1>6. AcClean'
  BY <1>3 DEF AcClean
<1>7. AcInjected'
  <2>1. eteic' /\ ~scan' => Ranks = {0}
    BY <1>1, AcOneRank
  <2> QED BY <1>1, <2>1 DEF AcIInv, AcInjected
<1> QED BY <1>4, <1>5, <1>6, <1>7 DEF AcIInv

\* A poll of the calibration bits keeps the invariant.
LEMMA AcWaitClear ==
  ASSUME AcIInv, WaitClear
  PROVE  AcIInv'
<1>1. /\ acall.pc \in {"rstclb?", "clb?"}
      /\ UNCHANGED <<adcStat, rank0, scan, eteic, calib, conv, rdata, idata, aisr, clean>>
  BY DEF WaitClear, AdcMainAt
<1>2. acall \in AcCalls /\ AcTypes
  BY DEF AcIInv, AcTypes
<1>3. acall.kind \in {"bring_up", "injected"} /\ acall.val = <<>>
  BY <1>1 DEF AcIInv, AcCall
<1> DEFINE next == IF acall.pc = "rstclb?" THEN "clb" ELSE IF acall.kind = "injected" THEN "adcon" ELSE "idle"
<1>4. /\ acall' \in AcCalls /\ acall'.kind = acall.kind /\ acall'.val = acall.val
      /\ acall'.pc \in {"clb", "adcon", "rstclb?", "clb?", "idle"}
  <2>1. CASE calib = {} /\ next # "idle"
    <3>1. Step(next) /\ next \in {"clb", "adcon"}
      BY <2>1 DEF WaitClear
    <3> HIDE DEF next
    <3> QED BY <1>2, <3>1 DEF Step, AcCalls
  <2>2. CASE calib = {} /\ next = "idle"
    <3>1. Finish("Ok")
      BY <2>2 DEF WaitClear
    <3> QED BY <1>2, <3>1, AcFinished
  <2>3. CASE calib # {} /\ acall.left > 1
    <3>1. acall' = [acall EXCEPT !.left = acall.left - 1]
      BY <2>3 DEF WaitClear
    <3>2. acall.left - 1 \in 0 .. AdcPolls
      BY <1>2, <2>3, AdcAssumption DEF AcCalls
    <3> QED BY <1>1, <1>2, <3>1, <3>2 DEF AcCalls
  <2>4. CASE calib # {} /\ ~(acall.left > 1)
    <3>1. Finish("Timeout")
      BY <2>4 DEF WaitClear
    <3> QED BY <1>2, <3>1, AcFinished
  <2> QED BY <2>1, <2>2, <2>3, <2>4
<1>5. AcTypes'
  BY <1>1, <1>4 DEF AcIInv, AcTypes
<1>6. AcCall'
  BY <1>3, <1>4 DEF AcCall
<1>7. AcClean'
  BY <1>3, <1>4 DEF AcClean
<1>8. AcInjected'
  BY <1>1 DEF AcIInv, AcInjected
<1> QED BY <1>5, <1>6, <1>7, <1>8 DEF AcIInv

\* The second write of ADCON keeps the invariant.
LEMMA AcReadcon ==
  ASSUME AcIInv, Readcon
  PROVE  AcIInv'
<1>1. /\ acall.pc = "adcon" /\ Finish("Ok") /\ StartRegular(FALSE)
      /\ UNCHANGED <<adcStat, rank0, scan, eteic, calib, rdata, idata, aisr, clean>>
  BY DEF Readcon, AdcMainAt
<1>2. acall.kind \in {"bring_up", "injected"} /\ acall.val = <<>>
  BY <1>1 DEF AcIInv, AcCall
<1>3. /\ acall' \in AcCalls /\ acall'.pc = "idle" /\ acall'.kind = acall.kind /\ acall'.val = acall.val
  BY <1>1, AcFinished DEF AcIInv
<1>4. conv' \in AcOnes
  BY <1>1, AcStart DEF AcIInv
<1>5. AcTypes'
  BY <1>1, <1>3, <1>4 DEF AcIInv, AcTypes
<1>6. AcCall'
  BY <1>3 DEF AcCall
<1>7. AcClean'
  BY <1>2, <1>3 DEF AcClean
<1>8. AcInjected'
  BY <1>1 DEF AcIInv, AcInjected
<1> QED BY <1>5, <1>6, <1>7, <1>8 DEF AcIInv

\* The period handler's statements up to its last.

\* The period handler's reads and writes keep the invariant.
LEMMA AcHandler ==
  ASSUME AcIInv, AdcIsrEnter \/ ReadInjected \/ ClearEoicRead \/ ClearEoicWrite
  PROVE  AcIInv'
<1>1. UNCHANGED <<rank0, scan, eteic, calib, conv, rdata, acall, clean>>
  BY DEF AdcIsrEnter, ReadInjected, ClearEoicRead, ClearEoicWrite
<1>2. /\ aisr \in AcIsrs /\ adcStat \in SUBSET {"EOC", "EOIC"} /\ idata \in [Ranks -> BOOLEAN]
  BY DEF AcIInv, AcTypes
<1>3. /\ aisr' \in AcIsrs /\ adcStat' \in SUBSET {"EOC", "EOIC"} /\ idata' \in [Ranks -> BOOLEAN]
      /\ "EOC" \in adcStat' => "EOC" \in adcStat
      /\ aisr'.pc \in {"pending", "idata"} => \A r \in Ranks : idata'[r]
      /\ aisr'.pc = "clear" => aisr'.got = Ranks
      /\ aisr'.pc = "trigger" => "EOIC" \notin adcStat'
  <2>1. CASE AdcIsrEnter
    BY <1>2, <2>1 DEF AdcIsrEnter, AcIsrs, AcIInv, AcInjected
  <2>2. CASE ReadInjected
    <3>1. \A r \in Ranks : idata[r]
      BY <2>2 DEF ReadInjected, AcIInv, AcInjected
    <3>2. {r \in Ranks : idata[r]} = Ranks
      BY <3>1
    <3>3. aisr' = [aisr EXCEPT !.pc = "clear", !.got = Ranks] /\ adcStat' = adcStat
          /\ idata' \in [Ranks -> BOOLEAN]
      BY <2>2, <3>2 DEF ReadInjected
    <3> QED BY <1>2, <3>3 DEF AcIsrs
  <2>3. CASE ClearEoicRead
    <3>1. aisr' = [aisr EXCEPT !.pc = "cleared", !.seen = adcStat \ {"EOIC"}] /\ adcStat' = adcStat /\ idata' = idata
      BY <2>3 DEF ClearEoicRead
    <3>2. adcStat \ {"EOIC"} \in SUBSET {"EOC"}
      BY <1>2
    <3> QED BY <1>2, <3>1, <3>2 DEF AcIsrs
  <2>4. CASE ClearEoicWrite
    <3>1. aisr' = [aisr EXCEPT !.pc = "trigger"] /\ adcStat' = adcStat \cap aisr.seen /\ idata' = idata
      BY <2>4 DEF ClearEoicWrite
    <3>2. aisr.seen \in SUBSET {"EOC"}
      BY <1>2 DEF AcIsrs
    <3> QED BY <1>2, <3>1, <3>2 DEF AcIsrs
  <2> QED BY <2>1, <2>2, <2>3, <2>4
<1>4. AcTypes'
  BY <1>1, <1>3 DEF AcIInv, AcTypes
<1>5. AcCall'
  BY <1>1 DEF AcIInv, AcCall
<1>6. AcClean'
  BY <1>1, <1>3 DEF AcIInv, AcClean
<1>7. AcInjected'
  BY <1>1, <1>3 DEF AcIInv, AcInjected
<1> QED BY <1>4, <1>5, <1>6, <1>7 DEF AcIInv

\* reassert_trigger_enable keeps the invariant.
LEMMA AcReassert ==
  ASSUME AcIInv, ReassertTriggerEnable
  PROVE  AcIInv'
<1>1. /\ aisr.pc = "trigger" /\ StartRegular(FALSE) /\ clean' = FALSE
      /\ aisr' = [NoIsr EXCEPT !.pc = IF "EOIC" \in adcStat THEN "pending" ELSE "idle"]
      /\ UNCHANGED <<adcStat, rank0, scan, eteic, calib, rdata, idata, acall>>
  BY DEF ReassertTriggerEnable
<1>2. aisr' = [NoIsr EXCEPT !.pc = "idle"]
  BY <1>1 DEF AcIInv, AcInjected
<1>3. aisr' \in AcIsrs /\ aisr'.pc = "idle"
  BY <1>2, AcIsrTyped DEF AcIsrs
<1>4. conv' \in AcOnes
  BY <1>1, AcStart DEF AcIInv
<1>5. AcTypes'
  BY <1>1, <1>3, <1>4 DEF AcIInv, AcTypes
<1>6. AcCall'
  BY <1>1 DEF AcIInv, AcCall
<1>7. AcClean'
  BY <1>1 DEF AcClean
<1>8. AcInjected'
  BY <1>1, <1>3 DEF AcIInv, AcInjected
<1> QED BY <1>5, <1>6, <1>7, <1>8 DEF AcIInv
---------------------------------------------------------------------------
\* The invariant holds at reset.
LEMMA AcInitIInv == AdcInit => AcIInv
<1> SUFFICES ASSUME AdcInit PROVE AcIInv
  OBVIOUS
<1>1. /\ adcStat = {} /\ rank0 \in Channels /\ scan = FALSE /\ eteic = FALSE /\ calib = {}
      /\ conv = <<>> /\ rdata = [ch |-> rank0, fresh |-> FALSE]
      /\ idata = [r \in Ranks |-> FALSE] /\ acall = AdcNoCall /\ aisr = NoIsr /\ clean = TRUE
  BY DEF AdcInit
<1>2. rdata \in Value /\ idata \in [Ranks -> BOOLEAN] /\ conv \in AcOnes
  BY <1>1 DEF Value, AcOnes
<1>3. AcTypes
  BY <1>1, <1>2, AcNoCallTyped, AcIsrTyped DEF AcTypes
<1>4. AcCall /\ AcClean
  BY <1>1, AcNoCallTyped DEF AcCall, AcClean
<1>5. AcInjected
  BY <1>1, AcIsrTyped DEF AcInjected
<1> QED BY <1>3, <1>4, <1>5 DEF AcIInv

\* Every step keeps the invariant.
LEMMA AcNextIInv == ~LateBringUp /\ AcIInv /\ [AdcNext]_AdcVars => AcIInv'
<1> SUFFICES ASSUME ~LateBringUp, AcIInv, [AdcNext]_AdcVars PROVE AcIInv'
  OBVIOUS
<1>1. CASE UNCHANGED AdcVars
  BY <1>1 DEF AdcVars, AcIInv, AcTypes, AcCall, AcClean, AcInjected
<1>2. CASE AdcNext
  BY <1>2, AcConvEnd, AcInjectedEnd, AcCalibration, AcBegins, AcTrigger, AcWaitEoc, AcReadData, AcClearRead,
     AcClearWrite, AcBringUp, AcWaitClear, AcReadcon, AcHandler, AcReassert DEF AdcNext
<1> QED BY <1>1, <1>2

\* The invariant implies AdcSafe.
LEMMA AcIInvSafe == AcIInv => AdcSafe
<1> SUFFICES ASSUME AcIInv PROVE AdcSafe
  OBVIOUS
<1>1. acall \in AcCalls /\ aisr \in AcIsrs /\ AcTypes
  BY DEF AcIInv, AcTypes
<1>2. \A s \in AcOnes : s = <<>> \/ s[1] \in Value
  BY DEF AcOnes
<1>3. AdcTypeOK
  <2>1. /\ acall.pc \in {"idle", "trigger", "eoc", "read", "clear", "cleared",
                          "rstclb", "rstclb?", "clb", "clb?", "adcon"}
        /\ acall.left \in 0 .. AdcPolls /\ acall.seen \subseteq {"EOIC"}
        /\ acall.ch \in Channels /\ acall.val \in AcOnes
    BY <1>1 DEF AcCalls
  <2>2. /\ aisr.pc \in {"idle", "pending", "idata", "clear", "cleared", "trigger"}
        /\ aisr.seen \subseteq {"EOC"} /\ aisr.got \subseteq Ranks
    BY <1>1 DEF AcIsrs
  <2> QED BY <1>1, <1>2, <2>1, <2>2 DEF AdcTypeOK, AcTypes
<1>4. FreshWhenClean
  <2> SUFFICES ASSUME acall.pc = "idle", acall.val # <<>>, clean
               PROVE  acall.val[1].fresh /\ acall.val[1].ch = acall.ch
    BY DEF FreshWhenClean
  <2>1. acall.val = <<AcFresh(acall.ch)>>
    BY DEF AcIInv, AcClean
  <2> QED BY <2>1 DEF AcFresh
<1>5. QuietAfterRead
  BY DEF AcIInv, AcClean, QuietAfterRead
<1>6. InjectedComplete
  BY DEF AcIInv, AcInjected, InjectedComplete
<1> QED BY <1>3, <1>4, <1>5, <1>6 DEF AdcSafe

\* For every set of channels and ranks and every budget, when no regular bring-up
\* follows the injected one: a clean read returns its own channel's conversion and
\* leaves no flag, and the handler finds every rank converted (adc.rs).
THEOREM AdcSafety == ASSUME ~LateBringUp PROVE AdcSpec => []AdcSafe
<1>1. AcIInv /\ [AdcNext]_AdcVars => AcIInv'
  BY AcNextIInv
<1> QED BY <1>1, AcInitIInv, AcIInvSafe, PTL DEF AdcSpec
=============================================================================
